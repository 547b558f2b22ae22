------------------------- MODULE UploadSourceProofs -------------------------
(***************************************************************************)
(* Proofs about the source file of an upload: what is sent is what was     *)
(* hashed, and what a completed upload has read again, for any number of   *)
(* readers, blocks and files and any changes by other programs.            *)
(***************************************************************************)
EXTENDS UploadSource, TLAPS

Ops == {"none", "hash", "prepare", "read", "final"}
Pcs == {"idle", "begin", "stat", "scan", "again", "handle", "path", "visible", "valid", "read", "done"}
Scans == {"none", "hash", "open", "handle", "visible"}
Grids == [Blocks -> Values \cup {Nothing}]
Singles == {s \in SUBSET Inodes : \A i, j \in s : i = j}
Gens == {NoGen} \cup (Inodes \X Nat)
Places == Nat \ {0}
Jobs == [op : Ops, pc : Pcs, scan : Scans, file : Singles, own : Singles, then : {"handle", "read"},
         gen : Gens, pos : Places, body : Grids, ok : BOOLEAN, block : Nat,
         handle : Gens, visible : Gens, known : Gens \X Gens]
Files == [body : [Blocks -> Values], len : 0..(Size + 1), gen : Nat]
Snaps == [ready : BOOLEAN, body : Grids, len : 0..(Size + 1), gen : Gens]
Sights == [named : SUBSET Inodes, whole : SUBSET Inodes, blocks : SUBSET (Inodes \X Blocks)]
Kinds == {"change", "hidden", "run", "job"}
Runs == {"none", "refused", "prepare", "running", "paused", "failed", "complete"}

TypeOK ==
  /\ disk \in [Inodes -> Files] /\ path \in Singles /\ snap \in Snaps /\ open \in Singles
  /\ accepted \in Gens \X Gens /\ lock \subseteq Workers /\ job \in [Workers -> Jobs]
  /\ run \in Runs /\ guard \in BOOLEAN /\ sent \in Grids /\ seen \in [Workers -> Sights]
  /\ spent \in [Kinds -> Nat]

\* The content that was hashed, and that it was there as a whole if no write was
\* hidden from the metadata.
Hashed == [b \in 1..snap.len |-> snap.body[b]]
OneContent == spent["hidden"] = 0 => Hashed \in ever

\* What a worker is doing: a scan has a file and the metadata it began with.
ScanInv(w) ==
  /\ job[w].op = "none" <=> job[w].pc = "idle"
  /\ job[w].pc = "again" => job[w].op = "hash"
  /\ job[w].scan = "hash" => job[w].op = "hash"
  /\ job[w].pc = "stat" => job[w].pos = 1
  /\ job[w].pc \in {"stat", "scan"} => job[w].scan # "none"
  /\ job[w].pc = "scan" =>
       \E i \in Inodes : job[w].file = {i} /\ \E g \in 0..disk[i].gen : job[w].gen = <<i, g>>

\* Nobody else works while the source is hashed.  Unless a write shows in the
\* metadata or is hidden, the blocks that were read are those of the file.
HashInv(w) ==
  job[w].op = "hash" =>
    /\ ~snap.ready /\ run = "none" /\ \A v \in Workers \ {w} : job[v].op = "none"
    /\ Contents(disk) \subseteq ever
    /\ job[w].pc \in {"stat", "scan", "again"} /\ job[w].scan \in {"hash", "visible"}
    /\ job[w].scan = "hash" /\ job[w].pc = "scan" /\ spent["hidden"] = 0 /\ Stable(w) =>
         /\ snap.len = disk[File(w)].len
         /\ \A b \in 1..snap.len : b < job[w].pos => job[w].body[b] = disk[File(w)].body[b]
    /\ job[w].pc = "again" \/ job[w].scan = "visible" => OneContent

\* The history knows what is there now.
Current(w) ==
  /\ path \subseteq seen[w].named
  /\ \A i \in Inodes : /\ Whole(disk, i) => i \in seen[w].whole
                       /\ \A b \in Blocks : Holds(disk, i, b) => <<i, b>> \in seen[w].blocks

\* What the last validation has read.
WasRead(w) ==
  /\ \E i \in seen[w].named : \A b \in 1..snap.len : <<i, b>> \in seen[w].blocks
  /\ spent["hidden"] = 0 => seen[w].named \cap seen[w].whole # {}

RunsInv(w) ==
  /\ job[w].op \in {"prepare", "read", "final"} => snap.ready /\ snap.len <= Size
  /\ job[w].op \in {"read", "final"} => Current(w)

FinalInv(w) ==
  job[w].op = "final" =>
    /\ Missing = {}
    /\ job[w].scan = "visible" /\ job[w].pc \in {"stat", "scan"} => job[w].file \subseteq seen[w].named
    /\ job[w].scan = "visible" /\ job[w].pc = "scan" /\ job[w].ok =>
         /\ \A b \in 1..snap.len : b < job[w].pos => <<File(w), b>> \in seen[w].blocks
         /\ spent["hidden"] = 0 /\ Stable(w) =>
              /\ disk[File(w)].len = snap.len
              /\ \A b \in 1..snap.len : b < job[w].pos => disk[File(w)].body[b] = snap.body[b]
    /\ job[w].pc \in {"valid", "done"} => WasRead(w)

WorkerInv(w) == ScanInv(w) /\ HashInv(w) /\ RunsInv(w) /\ FinalInv(w)

TaskInv ==
  /\ SentIsSigned /\ (~snap.ready => \A b \in Blocks : sent[b] = Nothing)
  /\ snap.ready => OneContent
  /\ run \in {"prepare", "running", "paused", "complete"} => snap.ready /\ snap.len <= Size
  /\ run = "complete" => Missing = {} /\ \E w \in Workers : job[w].op = "final" /\ job[w].pc = "done"

IInv == TypeOK /\ TaskInv /\ \A w \in Workers : WorkerInv(w)

-----------------------------------------------------------------------------
(* Jobs                                                                    *)

LEMMA BlankGrid ==
  [b \in Blocks |-> Nothing] \in Grids
  BY Zenon DEF Grids

LEMMA FirstPlace ==
  1 \in Places
  BY DEF Places

LEMMA BlankJob ==
  /\ NoJob \in Jobs /\ NoJob.op = "none" /\ NoJob.pc = "idle" /\ NoJob.scan = "none"
<1> DEFINE blank == [b \in Blocks |-> Nothing]
<1>1. blank \in Grids
  BY BlankGrid
<1>2. {} \in Singles /\ NoGen \in Gens
  BY DEF Singles, Gens
<1> HIDE DEF blank
<1>3. NoJob = [op |-> "none", pc |-> "idle", scan |-> "none", file |-> {}, own |-> {},
               then |-> "handle", gen |-> NoGen, pos |-> 1, body |-> blank, ok |-> TRUE, block |-> 0,
               handle |-> NoGen, visible |-> NoGen, known |-> <<NoGen, NoGen>>]
  BY Zenon DEF NoJob, blank
<1> QED
  BY <1>1, <1>2, <1>3, FirstPlace DEF Jobs, Ops, Pcs, Scans

LEMMA PutFacts ==
  ASSUME NEW j \in Jobs, NEW p \in Pcs
  PROVE  LET n == [j EXCEPT !.pc = p]
         IN  /\ n \in Jobs /\ n.op = j.op /\ n.pc = p /\ n.scan = j.scan /\ n.file = j.file
             /\ n.gen = j.gen /\ n.pos = j.pos /\ n.body = j.body /\ n.ok = j.ok /\ n.own = j.own
  BY DEF Jobs

LEMMA BeginFacts ==
  ASSUME NEW op \in Ops, NEW b \in Nat
  PROVE  /\ [NoJob EXCEPT !.op = op, !.pc = "begin"] \in Jobs
         /\ [NoJob EXCEPT !.op = op, !.pc = "begin"].op = op
         /\ [NoJob EXCEPT !.op = op, !.pc = "begin"].pc = "begin"
         /\ [NoJob EXCEPT !.op = op, !.pc = "begin"].scan = "none"
         /\ [NoJob EXCEPT !.op = op, !.pc = "begin", !.block = b] \in Jobs
         /\ [NoJob EXCEPT !.op = op, !.pc = "begin", !.block = b].op = op
         /\ [NoJob EXCEPT !.op = op, !.pc = "begin", !.block = b].pc = "begin"
         /\ [NoJob EXCEPT !.op = op, !.pc = "begin", !.block = b].scan = "none"
<1> HIDE DEF NoJob
<1> QED
  BY BlankJob, Zenon DEF Jobs, Pcs

LEMMA HandleFacts ==
  ASSUME NEW j \in Jobs, NEW g \in Gens
  PROVE  LET n == [j EXCEPT !.pc = "path", !.handle = g]
         IN  n \in Jobs /\ n.op = j.op /\ n.pc = "path" /\ n.scan = j.scan
  BY Zenon DEF Jobs, Pcs

LEMMA ThenFacts ==
  ASSUME NEW j \in Jobs
  PROVE  LET n == [j EXCEPT !.pc = "begin", !.then = "read"]
         IN  n \in Jobs /\ n.op = j.op /\ n.pc = "begin" /\ n.scan = j.scan
  BY Zenon DEF Jobs, Pcs

LEMMA StatFacts ==
  ASSUME NEW j \in Jobs, NEW g \in Gens
  PROVE  LET n == [j EXCEPT !.pc = "scan", !.gen = g]
         IN  /\ n \in Jobs /\ n.op = j.op /\ n.pc = "scan" /\ n.scan = j.scan /\ n.file = j.file
             /\ n.gen = g /\ n.pos = j.pos /\ n.ok = j.ok
  BY Zenon DEF Jobs, Pcs

\* The job of a worker that has read value v of block at; c: it agrees so far.
AfterRead(j, at, v, c) == [j EXCEPT !.pos = at + 1, !.body[at] = v, !.ok = c]

ReadTo(n, j, at, v, c) ==
  /\ n \in Jobs /\ n.op = j.op /\ n.pc = j.pc /\ n.scan = j.scan /\ n.file = j.file
  /\ n.gen = j.gen /\ n.pos = at + 1 /\ n.ok = c
  /\ n.body[at] = v /\ \A b \in Blocks \ {at} : n.body[b] = j.body[b]

LEMMA ReadFacts ==
  ASSUME NEW j \in Jobs, NEW at \in Blocks, NEW v \in Values, NEW c \in BOOLEAN
  PROVE  ReadTo(AfterRead(j, at, v, c), j, at, v, c)
<1> DEFINE new == [j.body EXCEPT ![at] = v]
           n == [j EXCEPT !.pos = at + 1, !.body[at] = v, !.ok = c]
<1>1. j.body \in [Blocks -> Values \cup {Nothing}]
  BY DEF Jobs, Grids
<1>2. new \in Grids /\ new[at] = v /\ \A b \in Blocks \ {at} : new[b] = j.body[b]
  BY <1>1, Zenon DEF Grids
<1>3. n = [j EXCEPT !.pos = at + 1, !.body = new, !.ok = c]
  BY DEF Jobs
<1>4. at + 1 \in Places
  BY DEF Blocks, Places
<1> HIDE DEF new
<1>5. /\ n \in Jobs /\ n.op = j.op /\ n.pc = j.pc /\ n.scan = j.scan /\ n.file = j.file
      /\ n.gen = j.gen /\ n.pos = at + 1 /\ n.ok = c /\ n.body = new
  BY <1>2, <1>3, <1>4, Zenon DEF Jobs
<1>6. AfterRead(j, at, v, c) = n
  BY DEF AfterRead
<1> HIDE DEF n
<1> QED
  BY <1>2, <1>5, <1>6, Zenon DEF ReadTo

-----------------------------------------------------------------------------
(* What a step of one worker leaves to the others                          *)

LEMMA JobSet ==
  ASSUME job \in [Workers -> Jobs], NEW w \in Workers, NEW j \in Jobs, job' = [job EXCEPT ![w] = j]
  PROVE  /\ job' \in [Workers -> Jobs] /\ job'[w] = j
         /\ \A v \in Workers \ {w} : job'[v] = job[v]
  BY Zenon

LEMMA FileIs ==
  ASSUME NEW w, NEW i, job[w].file = {i}
  PROVE  File(w) = i
  BY DEF File

LEMMA NotHashing ==
  ASSUME IInv, NEW w \in Workers, job[w].op # "none"
  PROVE  \A v \in Workers \ {w} : job[v].op # "hash"
  BY Zenon DEF IInv, WorkerInv, HashInv

LEMMA IdleKeeps ==
  ASSUME IInv, NEW v \in Workers, job[v].op = "none", job'[v] = job[v]
  PROVE  WorkerInv(v)'
<1>1. job'[v].op = "none" /\ job'[v].pc = "idle" /\ job'[v].scan # "hash"
  BY DEF IInv, WorkerInv, ScanInv
<1>2. ScanInv(v)'
  BY <1>1 DEF ScanInv
<1>3. HashInv(v)' /\ RunsInv(v)' /\ FinalInv(v)'
  BY <1>1 DEF HashInv, RunsInv, FinalInv
<1> QED
  BY <1>2, <1>3, Zenon DEF WorkerInv

LEMMA OtherKeeps ==
  ASSUME IInv, NEW v \in Workers, job'[v] = job[v], seen'[v] = seen[v], job[v].op # "hash",
         UNCHANGED <<disk, path, snap>>, spent'["hidden"] = spent["hidden"],
         Missing = {} => Missing' = {}
  PROVE  WorkerInv(v)'
<1>1. File(v)' = File(v)
  BY Zenon DEF File
<1>2. Stable(v)' <=> Stable(v)
  BY <1>1, Zenon DEF Stable, Gen
<1>3. Current(v)' <=> Current(v)
  BY Zenon DEF Current, Whole, Holds
<1>4. WasRead(v)' <=> WasRead(v)
  BY Zenon DEF WasRead
<1>5. ScanInv(v)'
  BY Zenon DEF IInv, WorkerInv, ScanInv
<1>6. HashInv(v)'
  BY Zenon DEF HashInv
<1>7. RunsInv(v)'
  BY <1>3, Zenon DEF IInv, WorkerInv, RunsInv
<1>8. FinalInv(v)'
  BY <1>1, <1>2, <1>4, ZenonT(60) DEF IInv, WorkerInv, FinalInv
<1> QED
  BY <1>5, <1>6, <1>7, <1>8, Zenon DEF WorkerInv

\* What a step that changes neither the files, nor the hash, nor what was sent
\* needs: its own worker is all right afterwards, and the run.
RunGoesOn(w) ==
  \/ run' = run \/ run' \in {"failed", "refused"}
  \/ run' = "running" /\ job[w].op = "prepare"
  \/ run' = "complete" /\ job[w].op = "final" /\ job'[w].op = "final" /\ job'[w].pc = "done"

LEMMA QuietKeeps ==
  ASSUME Constants, IInv, NEW w \in Workers, NEW j \in Jobs, job' = [job EXCEPT ![w] = j],
         job[w].op # "none", job[w].pc # "done",
         UNCHANGED <<disk, path, snap, sent, seen, ever, spent, guard>>,
         open' \in Singles, accepted' \in Gens \X Gens, lock' \subseteq Workers, run' \in Runs,
         RunGoesOn(w), WorkerInv(w)'
  PROVE  IInv'
<1>1. /\ job' \in [Workers -> Jobs] /\ job'[w] = j
      /\ \A v \in Workers \ {w} : job'[v] = job[v]
  BY JobSet, Zenon DEF IInv, TypeOK
<1>2. TypeOK'
  BY <1>1, Zenon DEF IInv, TypeOK
<1>3. Missing' = Missing
  BY Zenon DEF Missing
<1>4. ASSUME NEW v \in Workers PROVE WorkerInv(v)'
  <2>1. CASE v = w
    BY <2>1, Zenon
  <2>2. CASE v # w
    <3>1. job[v].op # "hash" /\ job'[v] = job[v] /\ seen'[v] = seen[v]
      BY <1>1, <2>2, NotHashing, Zenon
    <3> QED
      BY <1>3, <3>1, OtherKeeps, Zenon
  <2> QED
    BY <2>1, <2>2, Zenon
<1>5. TaskInv'
  <2>1. SentIsSigned' /\ (~snap'.ready => \A b \in Blocks : sent'[b] = Nothing)
    BY Zenon DEF IInv, TaskInv, SentIsSigned
  <2>2. snap'.ready => OneContent'
    <3>1. OneContent' <=> OneContent
      BY Zenon DEF OneContent, Hashed
    <3> QED
      BY <3>1, Zenon DEF IInv, TaskInv
  <2>3. /\ job[w].op \in {"prepare", "final"} => snap.ready /\ snap.len <= Size
        /\ job[w].op = "final" => Missing = {}
    BY DEF IInv, WorkerInv, RunsInv, FinalInv
  <2>4. run' \in {"prepare", "running", "paused", "complete"} => snap'.ready /\ snap'.len <= Size
    BY <2>3 DEF RunGoesOn, IInv, TaskInv
  <2>5. ASSUME run' = "complete" PROVE Missing' = {} /\ \E u \in Workers : job'[u].op = "final" /\ job'[u].pc = "done"
    <3>1. CASE run = "complete"
      <4>1. Missing = {} /\ \E u \in Workers : job[u].op = "final" /\ job[u].pc = "done"
        BY <3>1, Zenon DEF IInv, TaskInv
      <4> QED
        BY <1>1, <1>3, <4>1, Zenon
    <3>2. CASE run # "complete"
      <4>1. job[w].op = "final" /\ job'[w].op = "final" /\ job'[w].pc = "done"
        BY <2>5, <3>2 DEF RunGoesOn
      <4> QED
        BY <1>3, <2>3, <4>1, Zenon
    <3> QED
      BY <3>1, <3>2, Zenon
  <2> QED
    BY <2>1, <2>2, <2>4, <2>5, Zenon DEF TaskInv
<1> QED
  BY <1>2, <1>4, <1>5, Zenon DEF IInv

LEMMA JobOver ==
  ASSUME NEW w \in Workers, job'[w] = NoJob
  PROVE  WorkerInv(w)'
<1>1. job'[w].op = "none" /\ job'[w].pc = "idle" /\ job'[w].scan = "none"
  BY BlankJob, Zenon
<1>2. ScanInv(w)'
  BY <1>1 DEF ScanInv
<1>3. HashInv(w)' /\ RunsInv(w)' /\ FinalInv(w)'
  BY <1>1 DEF HashInv, RunsInv, FinalInv
<1> QED
  BY <1>2, <1>3, Zenon DEF WorkerInv

\* A step of a run in which nothing is concluded from a scan.
LEMMA PlainJob ==
  ASSUME IInv, NEW w \in Workers, NEW j, job'[w] = j,
         UNCHANGED <<disk, path, snap, sent, seen, ever, spent>>,
         j.op = job[w].op, j.op \in {"prepare", "read", "final"}, j.scan # "hash",
         \/ j.pc \in {"begin", "handle", "path", "visible", "read"}
         \/ j.pc = "valid" /\ j.op # "final"
         \/ /\ j.pc = "stat" /\ j.pos = 1 /\ j.scan # "none"
            /\ j.scan = "visible" /\ j.op = "final" => j.file \subseteq seen[w].named
  PROVE  WorkerInv(w)'
<1>1. ScanInv(w)'
  BY DEF ScanInv
<1>2. HashInv(w)'
  BY DEF HashInv
<1>3. RunsInv(w)'
  <2>1. Current(w)' <=> Current(w)
    BY Zenon DEF Current, Whole, Holds
  <2> QED
    BY <2>1, Zenon DEF IInv, WorkerInv, RunsInv
<1>4. FinalInv(w)'
  <2>1. Missing' = Missing
    BY Zenon DEF Missing
  <2>2. job'[w].op = "final" => Missing = {}
    BY Zenon DEF IInv, WorkerInv, FinalInv
  <2>3. job'[w].op = "final" => job'[w].pc \notin {"scan", "valid", "done"}
    OBVIOUS
  <2>4. job'[w].op = "final" /\ job'[w].scan = "visible" /\ job'[w].pc \in {"stat", "scan"} =>
          job'[w].file \subseteq seen'[w].named
    OBVIOUS
  <2> QED
    BY <2>1, <2>2, <2>3, <2>4 DEF FinalInv
<1> QED
  BY <1>1, <1>2, <1>3, <1>4, Zenon DEF WorkerInv

\* Where a run's worker is that does not hash the source.
LEMMA RunsJob ==
  ASSUME IInv, NEW w \in Workers,
         job[w].pc \in {"begin", "handle", "path", "visible", "valid", "read", "done"}
  PROVE  job[w].op \in {"prepare", "read", "final"} /\ job[w].op # "none" /\ job[w].scan # "hash"
<1>1. job[w] \in Jobs /\ ScanInv(w) /\ HashInv(w)
  BY Zenon DEF IInv, TypeOK, WorkerInv
<1>2. job[w].op \in Ops
  BY <1>1 DEF Jobs
<1> QED
  BY <1>1, <1>2 DEF ScanInv, HashInv, Ops

LEMMA FailsKeeps ==
  ASSUME Constants, IInv, NEW w \in Workers, job[w].op # "none", job[w].pc # "done", Fails(w)
  PROVE  IInv'
<1>1. /\ job' = [job EXCEPT ![w] = NoJob] /\ lock' = lock \ {w}
      /\ run' \in {"failed", "refused"}
      /\ UNCHANGED <<disk, path, snap, open, accepted, sent, seen, ever, spent, guard>>
  BY DEF Fails, Unlocked
<1>2. job'[w] = NoJob
  BY <1>1, Zenon DEF IInv, TypeOK
<1>3. /\ open' \in Singles /\ accepted' \in Gens \X Gens /\ lock' \subseteq Workers /\ run' \in Runs
      /\ RunGoesOn(w)
  <2>1. run' \in Runs
    BY <1>1 DEF Runs
  <2> QED
    BY <1>1, <2>1, Zenon DEF IInv, TypeOK, RunGoesOn
<1> QED
  BY <1>1, <1>2, <1>3, BlankJob, JobOver, QuietKeeps, Zenon

LEMMA PreparedKeeps ==
  ASSUME Constants, IInv, NEW w \in Workers, Prepared(w)
  PROVE  IInv'
<1>1. /\ job[w].pc = "valid" /\ job[w].op = "prepare" /\ run' = "running"
      /\ job' = [job EXCEPT ![w] = NoJob]
      /\ UNCHANGED <<disk, path, snap, open, accepted, lock, sent, seen, ever, spent, guard>>
  BY Zenon DEF Prepared
<1>2. job'[w] = NoJob
  BY <1>1, Zenon DEF IInv, TypeOK
<1>3. /\ open' \in Singles /\ accepted' \in Gens \X Gens /\ lock' \subseteq Workers /\ run' \in Runs
      /\ RunGoesOn(w)
  <2>1. run' \in Runs
    BY <1>1 DEF Runs
  <2> QED
    BY <1>1, <2>1, Zenon DEF IInv, TypeOK, RunGoesOn
<1>4. job[w].op # "none" /\ job[w].pc # "done"
  BY <1>1
<1> QED
  BY <1>1, <1>2, <1>3, <1>4, BlankJob, JobOver, QuietKeeps, Zenon

\* The same for a step of a run that only goes to its next stage.
LEMMA PlainKeeps ==
  ASSUME Constants, IInv, NEW w \in Workers, NEW j \in Jobs, Set(w, j),
         job[w].pc \in {"begin", "handle", "path", "visible", "valid", "read"},
         UNCHANGED <<disk, path, snap, open, run, sent, seen, ever, spent, guard>>,
         accepted' \in Gens \X Gens, lock' \subseteq Workers,
         j.op = job[w].op, j.scan # "hash",
         \/ j.pc \in {"begin", "handle", "path", "visible", "read"}
         \/ j.pc = "valid" /\ j.op # "final"
         \/ /\ j.pc = "stat" /\ j.pos = 1 /\ j.scan # "none"
            /\ j.scan = "visible" /\ j.op = "final" => j.file \subseteq seen[w].named
  PROVE  IInv'
<1>1. job' = [job EXCEPT ![w] = j] /\ job'[w] = j
  BY Zenon DEF Set, IInv, TypeOK
<1>2. job[w].op \in {"prepare", "read", "final"} /\ job[w].op # "none" /\ job[w].pc # "done"
  <2>1. job[w].pc \in {"begin", "handle", "path", "visible", "valid", "read", "done"} /\ job[w].pc # "done"
    OBVIOUS
  <2> QED
    BY <2>1, RunsJob, Zenon
<1>3. WorkerInv(w)'
  BY <1>1, <1>2, PlainJob, Zenon
<1>4. open' \in Singles /\ run' \in Runs /\ RunGoesOn(w)
  BY Zenon DEF IInv, TypeOK, RunGoesOn
<1> QED
  BY <1>1, <1>2, <1>3, <1>4, QuietKeeps, Zenon

-----------------------------------------------------------------------------
(* The steps of a run                                                      *)

LEMMA JobFields ==
  ASSUME IInv, NEW w \in Workers
  PROVE  /\ job[w] \in Jobs /\ job[w].op \in Ops /\ job[w].then \in {"handle", "read"}
         /\ job[w].own \in Singles /\ job[w].file \in Singles /\ job[w].pos \in Places
         /\ job[w].ok \in BOOLEAN /\ job[w].gen \in Gens /\ job[w].handle \in Gens
         /\ job[w].visible \in Gens /\ job[w].body \in Grids /\ job[w].block \in Nat
<1>1. job[w] \in Jobs
  BY Zenon DEF IInv, TypeOK
<1> QED
  BY <1>1 DEF Jobs

LEMMA GenType ==
  ASSUME IInv, NEW i \in Inodes
  PROVE  Gen(i) \in Gens /\ disk[i].gen \in Nat /\ disk[i].len \in 0..(Size + 1)
         /\ disk[i].body \in [Blocks -> Values]
<1>1. disk[i] \in Files
  BY Zenon DEF IInv, TypeOK
<1>2. disk[i].gen \in Nat /\ disk[i].len \in 0..(Size + 1) /\ disk[i].body \in [Blocks -> Values]
  BY <1>1 DEF Files
<1>3. <<i, disk[i].gen>> \in Inodes \X Nat
  BY <1>2, Zenon
<1> QED
  BY <1>2, <1>3, Zenon DEF Gen, Gens

LEMMA BeginKeeps ==
  ASSUME Constants, IInv, NEW w \in Workers, Begin(w)
  PROVE  IInv'
<1>1. /\ job[w].pc = "begin" /\ job[w].pc \in {"begin", "handle", "path", "visible", "valid", "read"}
      /\ job[w].pc \in {"begin", "handle", "path", "visible", "valid", "read", "done"}
      /\ UNCHANGED <<disk, path, snap, open, accepted, run, sent, seen, ever, spent, guard>>
  BY DEF Begin
<1>2. job[w].op \in {"prepare", "read", "final"} /\ job[w].scan # "hash"
  BY <1>1, RunsJob, Zenon
<1>3. job[w] \in Jobs /\ job[w].then \in {"handle", "read"} /\ open \in Singles /\ path \in Singles
  BY JobFields, Zenon DEF IInv, TypeOK
<1>4. accepted' \in Gens \X Gens
  BY <1>1, Zenon DEF IInv, TypeOK
<1>5. CASE open # {}
  <2> DEFINE j == [job[w] EXCEPT !.pc = job[w].then, !.own = open]
  <2>1. Set(w, j) /\ UNCHANGED lock
    BY <1>5, Zenon DEF Begin
  <2>2. job[w].then \in Pcs
    BY <1>3 DEF Pcs
  <2>3. j \in Jobs /\ j.op = job[w].op /\ j.pc = job[w].then /\ j.scan = job[w].scan
    BY <1>3, <2>2, FirstPlace, ZenonT(60) DEF Jobs, Pcs
  <2> HIDE DEF j
  <2>4. j.pc \in {"begin", "handle", "path", "visible", "read"} /\ j.scan # "hash"
    BY <1>2, <1>3, <2>3
  <2>5. lock' \subseteq Workers
    BY <2>1, Zenon DEF IInv, TypeOK
  <2> QED
    BY <1>1, <1>4, <2>1, <2>3, <2>4, <2>5, PlainKeeps, Zenon
<1>6. CASE open = {}
  <2> DEFINE j == [job[w] EXCEPT !.scan = "open", !.pc = "stat", !.file = path, !.pos = 1, !.ok = TRUE]
  <2>1. Set(w, j) /\ lock' = lock \cup {w}
    BY <1>6, Zenon DEF Begin, Opens
  <2>2. "open" \in Scans
    BY DEF Scans
  <2>3. j \in Jobs /\ j.op = job[w].op /\ j.pc = "stat" /\ j.scan = "open" /\ j.pos = 1
    BY <1>3, <2>2, FirstPlace, Zenon DEF Jobs, Pcs
  <2> HIDE DEF j
  <2>4. j.scan # "hash" /\ j.scan # "visible" /\ j.scan # "none"
    BY <2>3
  <2>5. lock' \subseteq Workers
    BY <2>1, Zenon DEF IInv, TypeOK
  <2> QED
    BY <1>1, <1>4, <2>1, <2>3, <2>4, <2>5, PlainKeeps, Zenon
<1> QED
  BY <1>5, <1>6, Zenon

LEMMA StatHandleKeeps ==
  ASSUME Constants, IInv, NEW w \in Workers, StatHandle(w)
  PROVE  IInv'
<1>1. /\ job[w].pc = "handle" /\ job[w].pc \in {"begin", "handle", "path", "visible", "valid", "read"}
      /\ job[w].pc \in {"begin", "handle", "path", "visible", "valid", "read", "done"}
      /\ UNCHANGED <<disk, path, snap, open, accepted, lock, run, sent, seen, ever, spent, guard>>
  BY DEF StatHandle
<1>2. PICK i \in job[w].own : Set(w, [job[w] EXCEPT !.pc = "path", !.handle = Gen(i)])
  BY Zenon DEF StatHandle
<1>3. job[w] \in Jobs /\ Gen(i) \in Gens
  BY JobFields, GenType, Zenon DEF Singles
<1> DEFINE j == [job[w] EXCEPT !.pc = "path", !.handle = Gen(i)]
<1>4. j \in Jobs /\ j.op = job[w].op /\ j.pc = "path" /\ j.scan = job[w].scan
  BY <1>3, HandleFacts, Zenon
<1>5. Set(w, j)
  BY <1>2
<1> HIDE DEF j
<1>6. j.pc \in {"begin", "handle", "path", "visible", "read"} /\ j.scan # "hash"
  <2>1. j.pc \in {"begin", "handle", "path", "visible", "read"}
    BY <1>4
  <2> QED
    BY <1>1, <1>4, <2>1, RunsJob, Zenon
<1>7. accepted' \in Gens \X Gens /\ lock' \subseteq Workers
  BY <1>1, Zenon DEF IInv, TypeOK
<1> QED
  BY <1>1, <1>4, <1>5, <1>6, <1>7, PlainKeeps, Zenon

LEMMA StatPathKeeps ==
  ASSUME Constants, IInv, NEW w \in Workers, StatPath(w)
  PROVE  IInv'
<1>1. /\ job[w].pc = "path" /\ job[w].pc \in {"begin", "handle", "path", "visible", "valid", "read"}
      /\ job[w].pc \in {"begin", "handle", "path", "visible", "valid", "read", "done"}
      /\ job[w].pc # "done"
  BY Zenon DEF StatPath
<1>2. job[w].op \in {"prepare", "read", "final"} /\ job[w].op # "none" /\ job[w].scan # "hash"
  BY <1>1, RunsJob, Zenon
<1>3. CASE path = {}
  BY <1>1, <1>2, <1>3, FailsKeeps, Zenon DEF StatPath
<1>4. CASE path # {}
  <2>1. /\ UNCHANGED <<disk, path, snap, open, accepted, lock, run, sent, seen, ever, spent, guard>>
        /\ \E i \in path :
             LET j == [job[w] EXCEPT !.visible = Gen(i), !.known = accepted] IN
             IF Verify(w) \/ accepted[1] # job[w].handle
             THEN Set(w, [j EXCEPT !.scan = "handle", !.pc = "stat", !.file = job[w].own, !.pos = 1, !.ok = TRUE])
             ELSE Set(w, [j EXCEPT !.pc = "visible"])
    BY <1>4, Zenon DEF StatPath
  <2>2. PICK i \in path :
          \/ Set(w, [[job[w] EXCEPT !.visible = Gen(i), !.known = accepted]
                       EXCEPT !.scan = "handle", !.pc = "stat", !.file = job[w].own, !.pos = 1, !.ok = TRUE])
          \/ Set(w, [[job[w] EXCEPT !.visible = Gen(i), !.known = accepted] EXCEPT !.pc = "visible"])
    BY <2>1, Zenon
  <2> DEFINE m == [job[w] EXCEPT !.visible = Gen(i), !.known = accepted]
             n == [m EXCEPT !.scan = "handle", !.pc = "stat", !.file = job[w].own, !.pos = 1, !.ok = TRUE]
             l == [m EXCEPT !.pc = "visible"]
  <2>3. job[w] \in Jobs /\ Gen(i) \in Gens /\ accepted \in Gens \X Gens /\ job[w].own \in Singles
    BY JobFields, GenType, Zenon DEF Singles, IInv, TypeOK
  <2>4. m \in Jobs /\ m.op = job[w].op /\ m.scan = job[w].scan
    BY <2>3, Zenon DEF Jobs, Pcs
  <2>5. Set(w, n) \/ Set(w, l)
    BY <2>2
  <2> HIDE DEF m
  <2>6. n \in Jobs /\ n.op = job[w].op /\ n.pc = "stat" /\ n.scan = "handle" /\ n.pos = 1
    <3>1. "handle" \in Scans
      BY DEF Scans
    <3> QED
      BY <2>3, <2>4, <3>1, FirstPlace, Zenon DEF Jobs, Pcs
  <2>7. l \in Jobs /\ l.op = job[w].op /\ l.pc = "visible" /\ l.scan = job[w].scan
    <3>1. "visible" \in Pcs
      BY DEF Pcs
    <3> QED
      BY <2>4, <3>1, PutFacts, Zenon
  <2> HIDE DEF n, l
  <2>8. accepted' \in Gens \X Gens /\ lock' \subseteq Workers
    BY <2>1, Zenon DEF IInv, TypeOK
  <2>9. n.scan # "hash" /\ n.scan # "visible" /\ n.scan # "none" /\ l.pc \in {"begin", "handle", "path", "visible", "read"}
        /\ l.scan # "hash"
    BY <1>2, <2>6, <2>7
  <2>10. CASE Set(w, n)
    BY <1>1, <2>1, <2>6, <2>8, <2>9, <2>10, PlainKeeps, Zenon
  <2>11. CASE Set(w, l)
    BY <1>1, <2>1, <2>7, <2>8, <2>9, <2>11, PlainKeeps, Zenon
  <2> QED
    BY <2>5, <2>10, <2>11, Zenon
<1> QED
  BY <1>3, <1>4, Zenon

LEMMA CheckVisibleKeeps ==
  ASSUME Constants, IInv, NEW w \in Workers, CheckVisible(w)
  PROVE  IInv'
<1>1. /\ job[w].pc = "visible" /\ job[w].pc \in {"begin", "handle", "path", "visible", "valid", "read"}
      /\ job[w].pc \in {"begin", "handle", "path", "visible", "valid", "read", "done"}
      /\ UNCHANGED <<disk, path, snap, open, lock, run, sent, seen, ever, spent, guard>>
  BY DEF CheckVisible
<1>2. job[w].op \in {"prepare", "read", "final"} /\ job[w].scan # "hash"
  BY <1>1, RunsJob, Zenon
<1>3. job[w] \in Jobs /\ path \in Singles /\ job[w].visible \in Gens /\ lock' \subseteq Workers
  BY <1>1, JobFields, Zenon DEF IInv, TypeOK
<1>4. CASE RequiresHash(w)
  <2> DEFINE j == [job[w] EXCEPT !.scan = "visible", !.pc = "stat", !.file = path, !.pos = 1, !.ok = TRUE]
  <2>1. Set(w, j) /\ UNCHANGED accepted
    BY <1>4, Zenon DEF CheckVisible, Opens
  <2>2. "visible" \in Scans /\ "visible" # "hash" /\ "visible" # "none"
    BY DEF Scans
  <2>3. j \in Jobs /\ j.op = job[w].op /\ j.pc = "stat" /\ j.scan = "visible" /\ j.file = path /\ j.pos = 1
    BY <1>3, <2>2, FirstPlace, Zenon DEF Jobs, Pcs
  <2> HIDE DEF j
  <2>4. j.op = "final" => j.file \subseteq seen[w].named
    BY <2>3, Zenon DEF IInv, WorkerInv, RunsInv, Current
  <2>5. accepted' \in Gens \X Gens
    BY <2>1, Zenon DEF IInv, TypeOK
  <2> QED
    BY <1>1, <1>3, <2>1, <2>2, <2>3, <2>4, <2>5, PlainKeeps, Zenon
<1>5. CASE ~RequiresHash(w)
  <2> DEFINE j == [job[w] EXCEPT !.pc = "valid"]
  <2>1. Set(w, j)
    BY <1>5, Zenon DEF CheckVisible, Put
  <2>2. accepted' \in Gens \X Gens
    <3>1. accepted' = accepted \/ accepted' = <<accepted[1], job[w].visible>>
      BY <1>5, Zenon DEF CheckVisible
    <3>2. accepted \in Gens \X Gens
      BY Zenon DEF IInv, TypeOK
    <3> QED
      BY <1>3, <3>1, <3>2
  <2>3. "valid" \in Pcs
    BY DEF Pcs
  <2>4. j \in Jobs /\ j.op = job[w].op /\ j.pc = "valid" /\ j.scan = job[w].scan
    BY <1>3, <2>3, PutFacts, Zenon
  <2> HIDE DEF j
  <2>5. j.op # "final" /\ j.scan # "hash"
    BY <1>2, <1>5, <2>4 DEF RequiresHash, Verify
  <2> QED
    BY <1>1, <1>3, <2>1, <2>2, <2>4, <2>5, PlainKeeps, Zenon
<1> QED
  BY <1>4, <1>5, Zenon

LEMMA ReadBeginsKeeps ==
  ASSUME Constants, IInv, NEW w \in Workers, ReadBegins(w)
  PROVE  IInv'
<1>1. /\ job[w].pc = "valid" /\ job[w].pc \in {"begin", "handle", "path", "visible", "valid", "read"}
      /\ job[w].pc \in {"begin", "handle", "path", "visible", "valid", "read", "done"}
      /\ job[w].pc # "done"
  BY DEF ReadBegins
<1>2. job[w].op # "none" /\ job[w].scan # "hash" /\ job[w] \in Jobs
  BY <1>1, RunsJob, JobFields, Zenon
<1>3. CASE job[w].block > snap.len
  BY <1>1, <1>2, <1>3, FailsKeeps, Zenon DEF ReadBegins
<1>4. CASE ~(job[w].block > snap.len)
  <2> DEFINE j == [job[w] EXCEPT !.pc = "begin", !.then = "read"]
  <2>1. /\ Set(w, j)
        /\ UNCHANGED <<disk, path, snap, open, accepted, lock, run, sent, seen, ever, spent, guard>>
    BY <1>4, Zenon DEF ReadBegins
  <2>2. j \in Jobs /\ j.op = job[w].op /\ j.pc = "begin" /\ j.scan = job[w].scan
    BY <1>2, ThenFacts, Zenon
  <2> HIDE DEF j
  <2>3. j.pc \in {"begin", "handle", "path", "visible", "read"}
    BY <2>2
  <2>4. accepted' \in Gens \X Gens /\ lock' \subseteq Workers
    BY <2>1, Zenon DEF IInv, TypeOK
  <2> QED
    BY <1>1, <1>2, <2>1, <2>2, <2>3, <2>4, PlainKeeps, Zenon
<1> QED
  BY <1>3, <1>4, Zenon

LEMMA CompleteKeeps ==
  ASSUME Constants, IInv, NEW w \in Workers, Complete(w)
  PROVE  IInv'
<1> DEFINE j == [job[w] EXCEPT !.pc = "done"]
<1>1. /\ job[w].pc = "valid" /\ job[w].op = "final" /\ run' = "complete" /\ job' = [job EXCEPT ![w] = j]
      /\ UNCHANGED <<disk, path, snap, open, accepted, lock, sent, seen, ever, spent, guard>>
  BY Zenon DEF Complete, Put, Set
<1>2. job[w] \in Jobs /\ "done" \in Pcs
  BY JobFields DEF Pcs
<1>3. j \in Jobs /\ j.op = "final" /\ j.pc = "done" /\ j.scan = job[w].scan
  BY <1>1, <1>2, PutFacts, Zenon
<1> HIDE DEF j
<1>4. job'[w] = j
  BY <1>1, Zenon DEF IInv, TypeOK
<1>5. ScanInv(w) /\ RunsInv(w) /\ FinalInv(w)
  BY Zenon DEF IInv, WorkerInv
<1>6. WorkerInv(w)'
  <2>1. ScanInv(w)'
    BY <1>1, <1>3, <1>4, <1>5 DEF ScanInv
  <2>2. HashInv(w)'
    BY <1>3, <1>4 DEF HashInv
  <2>3. Current(w)' <=> Current(w)
    BY <1>1, Zenon DEF Current, Whole, Holds
  <2>4. RunsInv(w)'
    BY <1>1, <1>3, <1>4, <1>5, <2>3 DEF RunsInv
  <2>5. (WasRead(w)' <=> WasRead(w)) /\ Missing' = Missing
    BY <1>1, Zenon DEF WasRead, Missing
  <2>6. FinalInv(w)'
    BY <1>1, <1>3, <1>4, <1>5, <2>5 DEF FinalInv
  <2> QED
    BY <2>1, <2>2, <2>4, <2>6, Zenon DEF WorkerInv
<1>7. job[w].op # "none" /\ job[w].pc # "done" /\ run' \in Runs
  BY <1>1 DEF Runs
<1>8. open' \in Singles /\ accepted' \in Gens \X Gens /\ lock' \subseteq Workers /\ RunGoesOn(w)
  BY <1>1, <1>3, <1>4, Zenon DEF IInv, TypeOK, RunGoesOn
<1> QED
  BY <1>1, <1>3, <1>6, <1>7, <1>8, QuietKeeps, Zenon

-----------------------------------------------------------------------------
(* The hash                                                                *)

\* A step of the worker that hashes: nobody else works, and nothing was sent.
LEMMA HashStep ==
  ASSUME Constants, IInv, NEW w \in Workers, job[w].op = "hash",
         NEW j \in Jobs, job' = [job EXCEPT ![w] = j],
         snap' \in Snaps, snap'.ready => OneContent',
         UNCHANGED <<disk, path, open, accepted, lock, run, sent, seen, ever, spent, guard>>,
         WorkerInv(w)'
  PROVE  IInv'
<1>1. ~snap.ready /\ run = "none" /\ \A v \in Workers \ {w} : job[v].op = "none"
  BY Zenon DEF IInv, WorkerInv, HashInv
<1>2. /\ job' \in [Workers -> Jobs] /\ job'[w] = j
      /\ \A v \in Workers \ {w} : job'[v] = job[v]
  BY JobSet, Zenon DEF IInv, TypeOK
<1>3. TypeOK'
  BY <1>2, Zenon DEF IInv, TypeOK
<1>4. ASSUME NEW v \in Workers PROVE WorkerInv(v)'
  <2>1. CASE v = w
    BY <2>1, Zenon
  <2>2. CASE v # w
    BY <1>1, <1>2, <2>2, IdleKeeps, Zenon
  <2> QED
    BY <2>1, <2>2, Zenon
<1>5. \A b \in Blocks : sent[b] = Nothing
  BY <1>1, Zenon DEF IInv, TaskInv
<1>6. SentIsSigned' /\ \A b \in Blocks : sent'[b] = Nothing
  BY <1>5, Zenon DEF SentIsSigned, Blocks
<1>7. run' \notin {"prepare", "running", "paused", "complete"} /\ run' # "complete"
  BY <1>1
<1>8. TaskInv'
  BY <1>6, <1>7, Zenon DEF TaskInv
<1> QED
  BY <1>3, <1>4, <1>8, Zenon DEF IInv

LEMMA StatKeeps ==
  ASSUME Constants, IInv, NEW w \in Workers, Stat(w)
  PROVE  IInv'
<1>1. job[w].pc = "stat" /\ job[w].pc # "done" /\ job[w].op # "none" /\ job[w].pos = 1
      /\ job[w].scan # "none" /\ (job[w].scan = "hash" => job[w].op = "hash")
  BY DEF Stat, IInv, WorkerInv, ScanInv
<1>2. CASE job[w].file = {} \/ (job[w].scan # "hash" /\ disk[File(w)].len # snap.len)
  BY <1>1, <1>2, FailsKeeps, Zenon DEF Stat
<1>3. CASE ~(job[w].file = {} \/ (job[w].scan # "hash" /\ disk[File(w)].len # snap.len))
  <2>1. job[w] \in Jobs /\ job[w].file \in Singles /\ job[w].file # {}
    BY <1>3, JobFields, Zenon
  <2>2. PICK i \in Inodes : job[w].file = {i}
    BY <2>1, Zenon DEF Singles
  <2>3. File(w) = i
    BY <2>2, FileIs, Zenon
  <2>4. Gen(i) \in Gens /\ disk[i].gen \in Nat /\ disk[i].len \in 0..(Size + 1)
    BY GenType, Zenon
  <2> DEFINE j == [job[w] EXCEPT !.pc = "scan", !.gen = Gen(i)]
  <2>5. /\ job' = [job EXCEPT ![w] = j]
        /\ snap' = IF job[w].scan = "hash" THEN [NoSnap EXCEPT !.len = disk[i].len] ELSE snap
        /\ UNCHANGED <<disk, path, open, accepted, lock, run, sent, seen, ever, spent, guard>>
    BY <1>3, <2>3, Zenon DEF Stat, Set
  <2>6. /\ j \in Jobs /\ j.op = job[w].op /\ j.pc = "scan" /\ j.scan = job[w].scan /\ j.file = {i}
        /\ j.gen = <<i, disk[i].gen>> /\ j.pos = 1
    <3>1. /\ j \in Jobs /\ j.op = job[w].op /\ j.pc = "scan" /\ j.scan = job[w].scan
          /\ j.file = job[w].file /\ j.gen = Gen(i) /\ j.pos = job[w].pos
      BY <2>1, <2>4, StatFacts, ZenonT(60)
    <3> QED
      BY <1>1, <2>2, <3>1, Zenon DEF Gen
  <2> HIDE DEF j
  <2>7. job'[w] = j /\ File(w)' = i
    <3>1. job'[w] = j
      BY <2>5, Zenon DEF IInv, TypeOK
    <3> QED
      BY <2>6, <3>1 DEF File
  <2>8. ScanInv(w)'
    <3>1. disk[i].gen \in 0..disk[i].gen
      BY <2>4
    <3>2. \E h \in Inodes : job'[w].file = {h} /\ \E g \in 0..disk'[h].gen : job'[w].gen = <<h, g>>
      BY <2>5, <2>6, <2>7, <3>1, Zenon
    <3>3. job'[w].op # "none" /\ job'[w].pc = "scan" /\ (job'[w].scan = "hash" => job'[w].op = "hash")
          /\ job'[w].scan # "none"
      BY <1>1, <2>6, <2>7
    <3> QED
      BY <3>2, <3>3 DEF ScanInv
  <2>9. CASE job[w].scan = "hash"
    <3>1. snap' = [NoSnap EXCEPT !.len = disk[i].len] /\ job[w].op = "hash"
      BY <1>1, <2>5, <2>9
    <3>2. snap' \in Snaps /\ ~snap'.ready /\ snap'.len = disk[i].len
      <4> DEFINE blank == [b \in Blocks |-> Nothing]
      <4>1. blank \in Grids /\ NoGen \in Gens
        BY BlankGrid DEF Gens
      <4>2. NoSnap = [ready |-> FALSE, body |-> blank, len |-> 0, gen |-> NoGen]
        BY Zenon DEF NoSnap
      <4> HIDE DEF blank
      <4> QED
        BY <2>4, <3>1, <4>1, <4>2, Zenon DEF Snaps
    <3>3. HashInv(w)'
      <4>1. HashInv(w)
        BY Zenon DEF IInv, WorkerInv
      <4>2. /\ run = "none" /\ (\A v \in Workers \ {w} : job[v].op = "none") /\ Contents(disk) \subseteq ever
        BY <3>1, <4>1, Zenon DEF HashInv
      <4>3. run' = "none" /\ (\A v \in Workers \ {w} : job'[v].op = "none") /\ Contents(disk') \subseteq ever'
        BY <2>5, <4>2, Zenon DEF IInv, TypeOK
      <4>4. \A b \in 1..snap'.len : b < job'[w].pos => job'[w].body[b] = disk'[File(w)'].body[b]
        BY <2>6, <2>7
      <4>5. snap'.len = disk'[File(w)'].len
        BY <2>5, <2>7, <3>2
      <4>6. job'[w].pc = "scan" /\ job'[w].scan = "hash"
        BY <2>6, <2>7, <2>9
      <4> QED
        BY <3>2, <4>3, <4>4, <4>5, <4>6 DEF HashInv
    <3>4. RunsInv(w)' /\ FinalInv(w)'
      BY <2>6, <2>7, <3>1 DEF RunsInv, FinalInv
    <3>5. WorkerInv(w)'
      BY <2>8, <3>3, <3>4, Zenon DEF WorkerInv
    <3> QED
      BY <2>5, <2>6, <3>1, <3>2, <3>5, HashStep, Zenon
  <2>10. CASE job[w].scan # "hash"
    <3>1. snap' = snap /\ disk[i].len = snap.len
      BY <1>3, <2>3, <2>5, <2>10, Zenon
    <3>2. HashInv(w) /\ RunsInv(w) /\ FinalInv(w)
      BY Zenon DEF IInv, WorkerInv
    <3>3. HashInv(w)'
      <4>1. SUFFICES ASSUME job[w].op = "hash" PROVE HashInv(w)'
        BY <2>6, <2>7 DEF HashInv
      <4>2. /\ ~snap.ready /\ run = "none" /\ (\A v \in Workers \ {w} : job[v].op = "none")
            /\ Contents(disk) \subseteq ever /\ job[w].scan = "visible" /\ OneContent
        BY <2>10, <3>2, <4>1 DEF HashInv
      <4>3. /\ run' = "none" /\ (\A v \in Workers \ {w} : job'[v].op = "none") /\ Contents(disk') \subseteq ever'
            /\ ~snap'.ready
        BY <2>5, <3>1, <4>2, Zenon DEF IInv, TypeOK
      <4>5. OneContent'
        BY <2>5, <3>1, <4>2, Zenon DEF OneContent, Hashed
      <4>4. job'[w].pc = "scan" /\ job'[w].scan = "visible"
        BY <2>6, <2>7, <4>2
      <4> QED
        BY <4>3, <4>4, <4>5 DEF HashInv
    <3>4. RunsInv(w)'
      <4>1. Current(w)' <=> Current(w)
        BY <2>5, <3>1, Zenon DEF Current, Whole, Holds
      <4> QED
        BY <2>6, <2>7, <3>1, <3>2, <4>1, Zenon DEF RunsInv
    <3>5. FinalInv(w)'
      <4>1. Missing' = Missing
        BY <2>5, Zenon DEF Missing
      <4>2. job'[w].pc = "scan" /\ job'[w].pos = 1 /\ job'[w].op = job[w].op /\ job'[w].scan = job[w].scan
            /\ job'[w].file = job[w].file /\ disk'[File(w)'].len = snap'.len
        BY <2>2, <2>5, <2>6, <2>7, <3>1
      <4>3. \A b \in 1..snap'.len : ~(b < job'[w].pos)
        BY <4>2
      <4>4. job[w].op = "final" => /\ Missing = {}
                                   /\ job[w].scan = "visible" => job[w].file \subseteq seen[w].named
        BY <1>1, <3>2 DEF FinalInv
      <4> QED
        BY <2>5, <4>1, <4>2, <4>3, <4>4 DEF FinalInv
    <3>6. WorkerInv(w)'
      BY <2>8, <3>3, <3>4, <3>5, Zenon DEF WorkerInv
    <3>7. open' \in Singles /\ accepted' \in Gens \X Gens /\ lock' \subseteq Workers /\ run' \in Runs
          /\ RunGoesOn(w)
      BY <2>5, Zenon DEF IInv, TypeOK, RunGoesOn
    <3> QED
      BY <1>1, <2>5, <2>6, <3>1, <3>6, <3>7, QuietKeeps, Zenon
  <2> QED
    BY <2>9, <2>10, Zenon
<1> QED
  BY <1>2, <1>3, Zenon

LEMMA ScanFile ==
  ASSUME IInv, NEW w \in Workers, job[w].pc = "scan"
  PROVE  /\ job[w].op # "none" /\ job[w].scan \in {"hash", "open", "handle", "visible"}
         /\ job[w].scan = "hash" => job[w].op = "hash"
         /\ \E i \in Inodes : job[w].file = {i} /\ File(w) = i
<1>1. ScanInv(w) /\ job[w] \in Jobs
  BY Zenon DEF IInv, WorkerInv, TypeOK
<1>2. job[w].scan \in Scans
  BY <1>1 DEF Jobs
<1>3. job[w].op # "none" /\ job[w].scan \in {"hash", "open", "handle", "visible"}
  BY <1>1, <1>2 DEF ScanInv, Scans
<1>4. PICK i \in Inodes : job[w].file = {i}
  BY <1>1, Zenon DEF ScanInv
<1>5. File(w) = i
  BY <1>4, FileIs, Zenon
<1>6. job[w].scan = "hash" => job[w].op = "hash"
  BY <1>1, Zenon DEF ScanInv
<1> QED
  BY <1>3, <1>4, <1>5, <1>6, Zenon

LEMMA ScanKeeps ==
  ASSUME Constants, IInv, NEW w \in Workers, Scan(w)
  PROVE  IInv'
<1>1. job[w].pc = "scan" /\ job[w].pc # "done" /\ job[w].pos <= snap.len
  BY DEF Scan
<1>2. /\ job[w].op # "none" /\ job[w].scan \in {"hash", "open", "handle", "visible"}
      /\ \E i \in Inodes : job[w].file = {i} /\ File(w) = i
  BY <1>1, ScanFile, Zenon
<1>3. PICK i \in Inodes : job[w].file = {i} /\ File(w) = i
  BY <1>2, Zenon
<1>4. PICK at : at = job[w].pos
  BY Zenon
<1>5. CASE at > disk[i].len
  BY <1>1, <1>2, <1>3, <1>4, <1>5, FailsKeeps, Zenon DEF Scan
<1>6. CASE ~(at > disk[i].len)
  <2>1. job[w] \in Jobs /\ at \in Places /\ job[w].ok \in BOOLEAN /\ snap.len \in 0..(Size + 1)
    <3>1. snap \in Snaps
      BY Zenon DEF IInv, TypeOK
    <3>2. snap.len \in 0..(Size + 1)
      BY <3>1 DEF Snaps
    <3> QED
      BY <1>4, <3>2, JobFields, Zenon
  <2>2. at \in Blocks /\ at \in Nat
    BY <1>1, <1>4, <2>1 DEF Blocks, Places, Constants
  <2>3. disk[i].body \in [Blocks -> Values] /\ disk[i].len \in 0..(Size + 1)
    BY GenType, Zenon
  <2>4. PICK v : v = disk[i].body[at]
    BY Zenon
  <2>5. v \in Values
    BY <2>2, <2>3, <2>4, Zenon
  <2>6. PICK c \in BOOLEAN : c <=> job[w].ok /\ (job[w].scan = "hash" \/ v = snap.body[at])
    BY Zenon
  <2> DEFINE j == [job[w] EXCEPT !.pos = at + 1, !.body[at] = v, !.ok = c]
  <2>7. /\ Set(w, [job[w] EXCEPT !.pos = at + 1, !.body[at] = v,
                        !.ok = @ /\ (job[w].scan = "hash" \/ v = snap.body[at])])
        /\ UNCHANGED <<disk, path, snap, open, accepted, lock, run, sent, seen, ever, spent, guard>>
    BY <1>3, <1>4, <1>6, <2>4, Zenon DEF Scan
  <2>8. job' = [job EXCEPT ![w] = j]
    <3>1. c = (job[w].ok /\ (job[w].scan = "hash" \/ v = snap.body[at]))
      BY <2>1, <2>6
    <3> QED
      BY <2>7, <3>1 DEF Set
  <2>9. /\ j \in Jobs /\ j.op = job[w].op /\ j.pc = "scan" /\ j.scan = job[w].scan /\ j.file = {i}
        /\ j.gen = job[w].gen /\ j.pos = at + 1 /\ j.ok = c
        /\ j.body[at] = v /\ \A b \in Blocks \ {at} : j.body[b] = job[w].body[b]
    <3>1. /\ j \in Jobs /\ j.op = job[w].op /\ j.pc = job[w].pc /\ j.scan = job[w].scan
          /\ j.file = job[w].file /\ j.gen = job[w].gen /\ j.pos = at + 1 /\ j.ok = c
          /\ j.body[at] = v /\ \A b \in Blocks \ {at} : j.body[b] = job[w].body[b]
      <4>1. ReadTo(AfterRead(job[w], at, v, c), job[w], at, v, c)
        BY <2>1, <2>2, <2>5, ReadFacts, Zenon
      <4>2. j = AfterRead(job[w], at, v, c)
        BY DEF AfterRead
      <4> HIDE DEF j
      <4>3. ReadTo(j, job[w], at, v, c)
        BY <4>1, <4>2, Zenon
      <4> QED
        BY <4>3, Zenon DEF ReadTo
    <3> QED
      BY <1>1, <1>3, <3>1, Zenon
  <2> HIDE DEF j
  <2>10. job'[w] = j /\ File(w)' = i /\ (Stable(w)' <=> Stable(w))
    <3>1. job'[w] = j
      BY <2>8, Zenon DEF IInv, TypeOK
    <3>2. File(w)' = i
      BY <2>9, <3>1 DEF File
    <3> QED
      BY <1>3, <2>7, <2>9, <3>1, <3>2, Zenon DEF Stable, Gen
  <2>11. ScanInv(w) /\ HashInv(w) /\ RunsInv(w) /\ FinalInv(w)
    BY Zenon DEF IInv, WorkerInv
  <2>12. ScanInv(w)'
    <3>1. job'[w].op = job[w].op /\ job'[w].pc = job[w].pc /\ job'[w].scan = job[w].scan
          /\ job'[w].file = job[w].file /\ job'[w].gen = job[w].gen /\ disk' = disk /\ job'[w].pc # "stat"
      BY <1>1, <1>3, <2>7, <2>9, <2>10
    <3> QED
      BY <2>11, <3>1, Zenon DEF ScanInv
  <2>13. HashInv(w)'
    <3>1. SUFFICES ASSUME job[w].op = "hash" PROVE HashInv(w)'
      BY <2>9, <2>10 DEF HashInv
    <3>2. /\ ~snap.ready /\ run = "none" /\ (\A u \in Workers \ {w} : job[u].op = "none")
          /\ Contents(disk) \subseteq ever /\ job[w].scan \in {"hash", "visible"}
          /\ job[w].scan = "visible" => OneContent
      BY <2>11, <3>1 DEF HashInv
    <3>3. /\ run' = "none" /\ (\A u \in Workers \ {w} : job'[u].op = "none") /\ Contents(disk') \subseteq ever'
          /\ ~snap'.ready
      BY <2>7, <2>8, <3>2, Zenon DEF IInv, TypeOK
    <3>4. OneContent' <=> OneContent
      BY <2>7, Zenon DEF OneContent, Hashed
    <3>5. ASSUME job[w].scan = "hash", spent["hidden"] = 0, Stable(w)
          PROVE  /\ snap.len = disk[i].len
                 /\ \A b \in 1..snap.len : b < at + 1 => j.body[b] = disk[i].body[b]
      <4>1. /\ snap.len = disk[i].len
            /\ \A b \in 1..snap.len : b < at => job[w].body[b] = disk[i].body[b]
        BY <1>1, <1>3, <1>4, <2>11, <3>1, <3>5 DEF HashInv
      <4>2. ASSUME NEW b \in 1..snap.len, b < at + 1 PROVE j.body[b] = disk[i].body[b]
        <5>1. b \in Blocks /\ (b = at \/ b < at)
          BY <2>1, <2>2, <4>2 DEF Blocks, Constants
        <5>2. CASE b = at
          BY <2>4, <2>9, <5>2, Zenon
        <5>3. CASE b # at
          BY <2>9, <4>1, <5>1, <5>3, Zenon
        <5> QED
          BY <5>2, <5>3, Zenon
      <4> QED
        BY <4>1, <4>2, Zenon
    <3>6. job'[w].pc = "scan" /\ job'[w].scan = job[w].scan /\ job'[w].pos = at + 1 /\ job'[w].body = j.body
      BY <2>9, <2>10, Zenon
    <3>7. job'[w].scan = "hash" /\ spent'["hidden"] = 0 /\ Stable(w)' =>
            /\ snap'.len = disk'[File(w)'].len
            /\ \A b \in 1..snap'.len : b < job'[w].pos => job'[w].body[b] = disk'[File(w)'].body[b]
      BY <2>7, <2>10, <3>5, <3>6, Zenon
    <3>8. job'[w].pc # "again" /\ job'[w].pc \in {"stat", "scan", "again"} /\ job'[w].scan \in {"hash", "visible"}
          /\ (job'[w].scan = "visible" => OneContent')
      BY <3>2, <3>4, <3>6
    <3> QED
      BY <3>3, <3>7, <3>8, Zenon DEF HashInv
  <2>14. RunsInv(w)'
    <3>1. Current(w)' <=> Current(w)
      BY <2>7, Zenon DEF Current, Whole, Holds
    <3> QED
      BY <2>7, <2>9, <2>10, <2>11, <3>1, Zenon DEF RunsInv
  <2>15. FinalInv(w)'
    <3>1. SUFFICES ASSUME job[w].op = "final" PROVE FinalInv(w)'
      BY <2>9, <2>10 DEF FinalInv
    <3>2. Missing' = Missing /\ Missing = {} /\ Current(w)
      <4>1. Missing' = Missing
        BY <2>7, Zenon DEF Missing
      <4> QED
        BY <2>11, <3>1, <4>1 DEF FinalInv, RunsInv
    <3>3. job[w].scan = "visible" => job[w].file \subseteq seen[w].named
      BY <1>1, <2>11, <3>1 DEF FinalInv
    <3>4. ASSUME job[w].scan = "visible", c = TRUE
          PROVE  /\ \A b \in 1..snap.len : b < at + 1 => <<i, b>> \in seen[w].blocks
                 /\ spent["hidden"] = 0 /\ Stable(w) =>
                      /\ disk[i].len = snap.len
                      /\ \A b \in 1..snap.len : b < at + 1 => disk[i].body[b] = snap.body[b]
      <4>1. job[w].ok /\ v = snap.body[at]
        BY <2>6, <3>4
      <4>2. /\ \A b \in 1..snap.len : b < at => <<i, b>> \in seen[w].blocks
            /\ spent["hidden"] = 0 /\ Stable(w) =>
                 /\ disk[i].len = snap.len
                 /\ \A b \in 1..snap.len : b < at => disk[i].body[b] = snap.body[b]
        BY <1>1, <1>3, <1>4, <2>11, <3>1, <3>4, <4>1 DEF FinalInv
      <4>3. <<i, at>> \in seen[w].blocks
        <5>1. at <= disk[i].len
          BY <1>6, <2>2, <2>3
        <5>2. Holds(disk, i, at)
          BY <2>4, <4>1, <5>1, Zenon DEF Holds
        <5> QED
          BY <2>2, <3>2, <5>2, Zenon DEF Current
      <4>4. \A b \in 1..snap.len : b < at + 1 => b = at \/ b < at
        BY <2>1, <2>2
      <4> QED
        BY <2>4, <4>1, <4>2, <4>3, <4>4, Zenon
    <3>5. job'[w].pc = "scan" /\ job'[w].scan = job[w].scan /\ job'[w].pos = at + 1 /\ job'[w].ok = c
          /\ job'[w].file = job[w].file
      BY <1>3, <2>9, <2>10, Zenon
    <3>6. job'[w].scan = "visible" /\ job'[w].ok =>
            /\ \A b \in 1..snap'.len : b < job'[w].pos => <<File(w)', b>> \in seen'[w].blocks
            /\ spent'["hidden"] = 0 /\ Stable(w)' =>
                 /\ disk'[File(w)'].len = snap'.len
                 /\ \A b \in 1..snap'.len : b < job'[w].pos => disk'[File(w)'].body[b] = snap'.body[b]
      BY <2>6, <2>7, <2>10, <3>4, <3>5, Zenon
    <3>7. job'[w].pc \notin {"valid", "done"} /\ (job'[w].scan = "visible" => job'[w].file \subseteq seen'[w].named)
      BY <2>7, <3>3, <3>5
    <3> QED
      BY <3>2, <3>6, <3>7, Zenon DEF FinalInv
  <2>16. WorkerInv(w)'
    BY <2>12, <2>13, <2>14, <2>15, Zenon DEF WorkerInv
  <2>17. open' \in Singles /\ accepted' \in Gens \X Gens /\ lock' \subseteq Workers /\ run' \in Runs
         /\ RunGoesOn(w)
    BY <2>7, Zenon DEF IInv, TypeOK, RunGoesOn
  <2> QED
    BY <1>1, <1>2, <2>7, <2>8, <2>9, <2>16, <2>17, QuietKeeps, Zenon
<1> QED
  BY <1>5, <1>6, Zenon

\* The five outcomes of a scan that found what it looked for.
ScannedHash(w) ==
  /\ snap' = [snap EXCEPT !.body = job[w].body, !.gen = job[w].gen]
  /\ Put(w, "again") /\ UNCHANGED <<open, accepted, lock, run>>
ScannedOpen(w) ==
  /\ open' = job[w].file /\ accepted' = <<job[w].gen, job[w].gen>>
  /\ lock' = Unlocked(w) /\ UNCHANGED <<snap, run>>
  /\ Set(w, [job[w] EXCEPT !.pc = job[w].then, !.own = job[w].file])
ScannedHandle(w) ==
  /\ accepted' = <<job[w].handle, accepted[2]>>
  /\ Put(w, "visible") /\ UNCHANGED <<snap, open, lock, run>>
ScannedAgain(w) ==
  /\ snap' = [snap EXCEPT !.ready = TRUE] /\ job' = [job EXCEPT ![w] = NoJob]
  /\ UNCHANGED <<open, accepted, lock, run>>
ScannedVisible(w) ==
  /\ accepted' = <<accepted[1], job[w].visible>>
  /\ Put(w, "valid") /\ UNCHANGED <<snap, open, lock, run>>

LEMMA ScannedSplits ==
  ASSUME IInv, NEW w \in Workers, Scanned(w)
  PROVE  /\ job[w].pc = "scan" /\ job[w].pc # "done" /\ job[w].pos > snap.len /\ job[w].op # "none"
         /\ \/ Fails(w)
            \/ /\ Stable(w) /\ job[w].ok
               /\ UNCHANGED <<disk, path, sent, seen, ever, spent, guard>>
               /\ \/ job[w].scan = "hash" /\ job[w].op = "hash" /\ ScannedHash(w)
                  \/ job[w].scan = "open" /\ job[w].op # "hash" /\ ScannedOpen(w)
                  \/ job[w].scan = "handle" /\ job[w].op # "hash" /\ ScannedHandle(w)
                  \/ job[w].scan = "visible" /\ job[w].op = "hash" /\ ScannedAgain(w)
                  \/ job[w].scan = "visible" /\ job[w].op # "hash" /\ ScannedVisible(w)
<1>1. job[w].pc = "scan" /\ job[w].pc # "done" /\ job[w].pos > snap.len
  BY DEF Scanned
<1>2. /\ job[w].op # "none" /\ job[w].scan \in {"hash", "open", "handle", "visible"}
      /\ job[w].scan = "hash" => job[w].op = "hash"
  BY <1>1, ScanFile, Zenon
<1>3. job[w].op = "hash" => job[w].scan \in {"hash", "visible"}
  BY Zenon DEF IInv, WorkerInv, HashInv
<1>4. CASE ~(Stable(w) /\ Matches(w))
  BY <1>1, <1>2, <1>4, Zenon DEF Scanned
<1>5. CASE Stable(w) /\ Matches(w)
  <2>1. /\ CASE job[w].scan = "hash" -> ScannedHash(w)
             [] job[w].scan = "open" -> ScannedOpen(w)
             [] job[w].scan = "handle" -> ScannedHandle(w)
             [] job[w].scan = "visible" /\ job[w].op = "hash" -> ScannedAgain(w)
             [] OTHER -> ScannedVisible(w)
        /\ UNCHANGED <<disk, path, sent, seen, ever, spent, guard>>
    BY <1>5, Zenon DEF Scanned, ScannedHash, ScannedOpen, ScannedHandle, ScannedAgain, ScannedVisible
  <2>2. job[w].scan = "hash" => ScannedHash(w)
    BY <2>1
  <2>3. job[w].scan = "open" => ScannedOpen(w)
    BY <2>1
  <2>4. job[w].scan = "handle" => ScannedHandle(w)
    BY <2>1
  <2>5. job[w].scan = "visible" /\ job[w].op = "hash" => ScannedAgain(w)
    BY <2>1
  <2>6. job[w].scan = "visible" /\ job[w].op # "hash" => ScannedVisible(w)
    BY <2>1
  <2>7. Stable(w) /\ job[w].ok
    BY <1>5, Zenon DEF Matches
  <2>8. UNCHANGED <<disk, path, sent, seen, ever, spent, guard>>
    BY <2>1
  <2>9. /\ job[w].scan = "open" => job[w].op # "hash"
        /\ job[w].scan = "handle" => job[w].op # "hash"
    BY <1>3
  <2> QED
    BY <1>1, <1>2, <2>2, <2>3, <2>4, <2>5, <2>6, <2>7, <2>8, <2>9, Zenon
<1> QED
  BY <1>4, <1>5, Zenon

LEMMA ScannedHashKeeps ==
  ASSUME Constants, IInv, NEW w \in Workers, job[w].pc = "scan", job[w].pos > snap.len, Stable(w),
         job[w].scan = "hash", job[w].op = "hash", ScannedHash(w),
         UNCHANGED <<disk, path, sent, seen, ever, spent, guard>>
  PROVE  IInv'
<1>1. PICK i \in Inodes : job[w].file = {i} /\ File(w) = i
  BY ScanFile, Zenon
<1>2. job[w] \in Jobs /\ job[w].body \in Grids /\ job[w].gen \in Gens /\ snap \in Snaps
  BY JobFields, Zenon DEF IInv, TypeOK
<1>3. snap' \in Snaps /\ snap'.ready = snap.ready /\ snap'.len = snap.len /\ snap'.body = job[w].body
  <2>1. snap' = [snap EXCEPT !.body = job[w].body, !.gen = job[w].gen]
    BY Zenon DEF ScannedHash
  <2> QED
    BY <1>2, <2>1, ZenonT(60) DEF Snaps
<1> DEFINE j == [job[w] EXCEPT !.pc = "again"]
<1>4. job' = [job EXCEPT ![w] = j] /\ UNCHANGED <<open, accepted, lock, run>>
  BY Zenon DEF ScannedHash, Put, Set
<1>5. j \in Jobs /\ j.op = "hash" /\ j.pc = "again" /\ j.scan = "hash"
  <2>1. "again" \in Pcs
    BY DEF Pcs
  <2> QED
    BY <1>2, <2>1, PutFacts, Zenon
<1> HIDE DEF j
<1>6. job'[w] = j /\ \A v \in Workers \ {w} : job'[v] = job[v]
  BY <1>4, Zenon DEF IInv, TypeOK
<1>7. /\ ~snap.ready /\ run = "none" /\ (\A v \in Workers \ {w} : job[v].op = "none")
      /\ Contents(disk) \subseteq ever
      /\ spent["hidden"] = 0 => /\ snap.len = disk[i].len
                                /\ \A b \in 1..snap.len : b < job[w].pos => job[w].body[b] = disk[i].body[b]
  <2>1. HashInv(w)
    BY Zenon DEF IInv, WorkerInv
  <2> QED
    BY <1>1, <2>1, Zenon DEF HashInv
<1>8. OneContent'
  <2>1. SUFFICES ASSUME spent["hidden"] = 0 PROVE Hashed' \in ever'
    BY Zenon DEF OneContent
  <2>2. snap.len = disk[i].len /\ \A b \in 1..snap.len : job[w].body[b] = disk[i].body[b]
    <3>1. snap.len \in Nat /\ job[w].pos \in Nat
      BY <1>2, JobFields DEF Snaps, Constants, Places
    <3>2. \A b \in 1..snap.len : b < job[w].pos
      BY <3>1
    <3> QED
      BY <1>7, <2>1, <3>2, Zenon
  <2>3. Hashed' = [b \in 1..disk[i].len |-> disk[i].body[b]]
    BY <1>3, <2>2 DEF Hashed
  <2>4. [b \in 1..disk[i].len |-> disk[i].body[b]] \in Contents(disk)
    BY Zenon DEF Contents
  <2> QED
    BY <1>7, <2>3, <2>4, Zenon
<1>9. ScanInv(w)'
  BY <1>5, <1>6 DEF ScanInv
<1>10. HashInv(w)'
  <2>1. ~snap'.ready /\ run' = "none" /\ (\A v \in Workers \ {w} : job'[v].op = "none") /\ Contents(disk') \subseteq ever'
    BY <1>3, <1>4, <1>6, <1>7, Zenon
  <2>2. job'[w].pc = "again" /\ job'[w].scan = "hash"
    BY <1>5, <1>6
  <2> QED
    BY <1>8, <2>1, <2>2 DEF HashInv
<1>11. RunsInv(w)' /\ FinalInv(w)'
  BY <1>5, <1>6, Zenon DEF RunsInv, FinalInv
<1>12. WorkerInv(w)'
  BY <1>9, <1>10, <1>11, Zenon DEF WorkerInv
<1> QED
  BY <1>3, <1>4, <1>5, <1>8, <1>12, HashStep, Zenon

\* The hash is finished: the task has its snapshot.
LEMMA ReadyKeeps ==
  ASSUME Constants, IInv, NEW w \in Workers, job[w].op = "hash",
         job[w].pc = "again" \/ job[w].scan = "visible", ScannedAgain(w),
         UNCHANGED <<disk, path, sent, seen, ever, spent, guard>>
  PROVE  IInv'
<1>1. snap' = [snap EXCEPT !.ready = TRUE] /\ job' = [job EXCEPT ![w] = NoJob] /\ UNCHANGED <<open, accepted, lock, run>>
  BY Zenon DEF ScannedAgain
<1>2. snap \in Snaps
  BY Zenon DEF IInv, TypeOK
<1>3. snap' \in Snaps /\ snap'.len = snap.len /\ snap'.body = snap.body
  BY <1>1, <1>2, Zenon DEF Snaps
<1>4. OneContent
  BY Zenon DEF IInv, WorkerInv, HashInv
<1>5. OneContent'
  BY <1>3, <1>4, Zenon DEF OneContent, Hashed
<1>6. job'[w] = NoJob
  BY <1>1, Zenon DEF IInv, TypeOK
<1>7. WorkerInv(w)' /\ NoJob \in Jobs
  BY <1>6, JobOver, BlankJob, Zenon
<1> QED
  BY <1>1, <1>3, <1>5, <1>7, HashStep, Zenon

\* A scan of a run that is followed by another stage of the validation.
LEMMA StageKeeps ==
  ASSUME Constants, IInv, NEW w \in Workers, NEW j \in Jobs, job' = [job EXCEPT ![w] = j],
         job[w].op # "none", job[w].op # "hash", job[w].pc # "done",
         UNCHANGED <<disk, path, snap, run, sent, seen, ever, spent, guard>>,
         open' \in Singles, accepted' \in Gens \X Gens, lock' \subseteq Workers,
         j.op = job[w].op, j.scan # "hash", j.pc \in {"begin", "handle", "path", "visible", "read"}
  PROVE  IInv'
<1>1. job[w].op \in Ops
  BY JobFields, Zenon
<1>2. j.op \in {"prepare", "read", "final"}
  BY <1>1 DEF Ops
<1>3. job'[w] = j
  BY Zenon DEF IInv, TypeOK
<1>4. WorkerInv(w)'
  BY <1>2, <1>3, PlainJob, Zenon
<1>5. run' \in Runs /\ RunGoesOn(w)
  BY Zenon DEF IInv, TypeOK, RunGoesOn
<1> QED
  BY <1>4, <1>5, QuietKeeps, Zenon

LEMMA ScannedOpenKeeps ==
  ASSUME Constants, IInv, NEW w \in Workers, job[w].op # "none", job[w].op # "hash", job[w].pc # "done",
         job[w].scan = "open", ScannedOpen(w), UNCHANGED <<disk, path, sent, seen, ever, spent, guard>>
  PROVE  IInv'
<1>1. job[w] \in Jobs /\ job[w].then \in {"handle", "read"} /\ job[w].file \in Singles /\ job[w].gen \in Gens
  BY JobFields, Zenon
<1> DEFINE j == [job[w] EXCEPT !.pc = job[w].then, !.own = job[w].file]
<1>2. /\ open' = job[w].file /\ accepted' = <<job[w].gen, job[w].gen>> /\ lock' = lock \ {w}
      /\ UNCHANGED <<snap, run>> /\ job' = [job EXCEPT ![w] = j]
  BY Zenon DEF ScannedOpen, Unlocked, Set
<1>3. j \in Jobs /\ j.op = job[w].op /\ j.pc = job[w].then /\ j.scan = job[w].scan
  BY <1>1, ZenonT(60) DEF Jobs, Pcs
<1> HIDE DEF j
<1>4. j.pc \in {"begin", "handle", "path", "visible", "read"} /\ j.scan # "hash"
  BY <1>1, <1>3
<1>5. open' \in Singles /\ accepted' \in Gens \X Gens /\ lock' \subseteq Workers
  <2>1. lock \subseteq Workers
    BY Zenon DEF IInv, TypeOK
  <2> QED
    BY <1>1, <1>2, <2>1, Zenon
<1> QED
  BY <1>2, <1>3, <1>4, <1>5, StageKeeps, Zenon

LEMMA ScannedHandleKeeps ==
  ASSUME Constants, IInv, NEW w \in Workers, job[w].op # "none", job[w].op # "hash", job[w].pc # "done",
         job[w].scan = "handle", ScannedHandle(w), UNCHANGED <<disk, path, sent, seen, ever, spent, guard>>
  PROVE  IInv'
<1>1. job[w] \in Jobs /\ job[w].handle \in Gens /\ accepted \in Gens \X Gens /\ "visible" \in Pcs
  BY JobFields DEF IInv, TypeOK, Pcs
<1> DEFINE j == [job[w] EXCEPT !.pc = "visible"]
<1>2. /\ accepted' = <<job[w].handle, accepted[2]>> /\ UNCHANGED <<snap, open, lock, run>>
      /\ job' = [job EXCEPT ![w] = j]
  BY Zenon DEF ScannedHandle, Put, Set
<1>3. j \in Jobs /\ j.op = job[w].op /\ j.pc = "visible" /\ j.scan = job[w].scan
  BY <1>1, PutFacts, Zenon
<1> HIDE DEF j
<1>4. j.pc \in {"begin", "handle", "path", "visible", "read"} /\ j.scan # "hash"
  BY <1>3, Zenon
<1>5. accepted' \in Gens \X Gens
  BY <1>1, <1>2
<1>6. open' \in Singles /\ lock' \subseteq Workers
  BY <1>2, Zenon DEF IInv, TypeOK
<1> QED
  BY <1>2, <1>3, <1>4, <1>5, <1>6, StageKeeps, Zenon

LEMMA ScannedVisibleKeeps ==
  ASSUME Constants, IInv, NEW w \in Workers, job[w].op # "none", job[w].op # "hash",
         job[w].pc = "scan", job[w].pos > snap.len, Stable(w), job[w].ok,
         job[w].scan = "visible", ScannedVisible(w), UNCHANGED <<disk, path, sent, seen, ever, spent, guard>>
  PROVE  IInv'
<1>1. job[w] \in Jobs /\ job[w].visible \in Gens /\ accepted \in Gens \X Gens /\ "valid" \in Pcs
  BY JobFields, Zenon DEF IInv, TypeOK, Pcs
<1> DEFINE j == [job[w] EXCEPT !.pc = "valid"]
<1>2. /\ accepted' = <<accepted[1], job[w].visible>> /\ UNCHANGED <<snap, open, lock, run>>
      /\ job' = [job EXCEPT ![w] = j]
  BY Zenon DEF ScannedVisible, Put, Set
<1>3. j \in Jobs /\ j.op = job[w].op /\ j.pc = "valid" /\ j.scan = job[w].scan
  BY <1>1, PutFacts, Zenon
<1> HIDE DEF j
<1>4. job'[w] = j
  BY <1>2, Zenon DEF IInv, TypeOK
<1>5. RunsInv(w) /\ FinalInv(w)
  BY Zenon DEF IInv, WorkerInv
<1>6. PICK i \in Inodes : job[w].file = {i} /\ File(w) = i
  BY ScanFile, Zenon
<1>7. ScanInv(w)' /\ HashInv(w)'
  BY <1>3, <1>4 DEF ScanInv, HashInv
<1>8. RunsInv(w)'
  <2>1. Current(w)' <=> Current(w)
    BY <1>2, Zenon DEF Current, Whole, Holds
  <2> QED
    BY <1>2, <1>3, <1>4, <1>5, <2>1, Zenon DEF RunsInv
<1>9. FinalInv(w)'
  <2>1. SUFFICES ASSUME job[w].op = "final" PROVE FinalInv(w)'
    BY <1>3, <1>4, Zenon DEF FinalInv
  <2>2. Missing' = {}
    <3>1. Missing' = Missing
      BY <1>2, Zenon DEF Missing
    <3> QED
      BY <1>5, <2>1, <3>1 DEF FinalInv
  <2>3. /\ {i} \subseteq seen[w].named
        /\ \A b \in 1..snap.len : b < job[w].pos => <<i, b>> \in seen[w].blocks
        /\ spent["hidden"] = 0 =>
             /\ disk[i].len = snap.len
             /\ \A b \in 1..snap.len : b < job[w].pos => disk[i].body[b] = snap.body[b]
    BY <1>5, <1>6, <2>1 DEF FinalInv
  <2>4. snap.len \in Nat /\ \A b \in 1..snap.len : b < job[w].pos
    <3>1. snap.len \in Nat /\ job[w].pos \in Nat
      <4>1. snap \in Snaps
        BY Zenon DEF IInv, TypeOK
      <4> QED
        BY <4>1, JobFields DEF Snaps, Constants, Places
    <3> QED
      BY <3>1
  <2>5. spent["hidden"] = 0 => i \in seen[w].whole
    <3>1. SUFFICES ASSUME spent["hidden"] = 0 PROVE i \in seen[w].whole
      BY Zenon
    <3>2. \A b \in 1..snap.len : Holds(disk, i, b)
      BY <2>3, <2>4, <3>1 DEF Holds
    <3>3. Whole(disk, i)
      BY <2>3, <3>1, <3>2, Zenon DEF Whole
    <3> QED
      BY <1>5, <2>1, <3>3 DEF RunsInv, Current
  <2>6. WasRead(w)'
    <3>1. \A b \in 1..snap.len : <<i, b>> \in seen[w].blocks
      BY <2>3, <2>4, Zenon
    <3>2. i \in seen[w].named
      BY <2>3, Zenon
    <3> QED
      BY <1>2, <2>5, <3>1, <3>2, Zenon DEF WasRead
  <2>7. job'[w].pc = "valid"
    BY <1>3, <1>4
  <2> QED
    BY <2>2, <2>6, <2>7, ZenonT(60) DEF FinalInv
<1>10. WorkerInv(w)'
  BY <1>7, <1>8, <1>9, Zenon DEF WorkerInv
<1>11. accepted' \in Gens \X Gens /\ job[w].pc # "done"
  BY <1>1, <1>2
<1>12. open' \in Singles /\ lock' \subseteq Workers /\ run' \in Runs /\ RunGoesOn(w)
  BY <1>2, Zenon DEF IInv, TypeOK, RunGoesOn
<1> QED
  BY <1>2, <1>3, <1>10, <1>11, <1>12, QuietKeeps, Zenon

LEMMA ScannedKeeps ==
  ASSUME Constants, IInv, NEW w \in Workers, Scanned(w)
  PROVE  IInv'
  BY ScannedSplits, FailsKeeps, ScannedHashKeeps, ScannedOpenKeeps, ScannedHandleKeeps, ReadyKeeps,
     ScannedVisibleKeeps, Zenon

LEMMA HashAgainKeeps ==
  ASSUME Constants, IInv, NEW w \in Workers, HashAgain(w)
  PROVE  IInv'
<1>1. job[w].pc = "again" /\ job[w].pc # "done" /\ job[w].op = "hash" /\ job[w].op # "none"
  BY DEF HashAgain, IInv, WorkerInv, ScanInv
<1>2. CASE path = {}
  BY <1>1, <1>2, FailsKeeps, Zenon DEF HashAgain
<1>3. CASE path # {} /\ path = {snap.gen[1]} /\ Gen(snap.gen[1]) = snap.gen
  <2>1. ScannedAgain(w) /\ UNCHANGED <<disk, path, sent, seen, ever, spent, guard>>
    BY <1>3, Zenon DEF HashAgain, ScannedAgain
  <2> QED
    BY <1>1, <2>1, ReadyKeeps, Zenon
<1>4. CASE path # {} /\ ~(path = {snap.gen[1]} /\ Gen(snap.gen[1]) = snap.gen)
  <2> DEFINE j == [job[w] EXCEPT !.scan = "visible", !.pc = "stat", !.file = path, !.pos = 1, !.ok = TRUE]
  <2>1. /\ job' = [job EXCEPT ![w] = j]
        /\ UNCHANGED <<disk, path, snap, open, accepted, lock, run, sent, seen, ever, spent, guard>>
    BY <1>4, Zenon DEF HashAgain, Set, Opens
  <2>2. job[w] \in Jobs /\ path \in Singles /\ "visible" \in Scans
    BY JobFields DEF IInv, TypeOK, Scans
  <2>3. j \in Jobs /\ j.op = job[w].op /\ j.pc = "stat" /\ j.scan = "visible" /\ j.pos = 1
    BY <2>2, FirstPlace, Zenon DEF Jobs, Pcs
  <2> HIDE DEF j
  <2>4. job'[w] = j /\ \A v \in Workers \ {w} : job'[v] = job[v]
    BY <2>1, Zenon DEF IInv, TypeOK
  <2>5. ScanInv(w)' /\ RunsInv(w)' /\ FinalInv(w)'
    BY <1>1, <2>3, <2>4 DEF ScanInv, RunsInv, FinalInv
  <2>6. HashInv(w)'
    <3>1. HashInv(w)
      BY Zenon DEF IInv, WorkerInv
    <3>2. /\ ~snap.ready /\ run = "none" /\ (\A v \in Workers \ {w} : job[v].op = "none")
          /\ Contents(disk) \subseteq ever /\ OneContent
      BY <1>1, <3>1, Zenon DEF HashInv
    <3>3. ~snap'.ready /\ run' = "none" /\ (\A v \in Workers \ {w} : job'[v].op = "none") /\ Contents(disk') \subseteq ever'
      BY <2>1, <2>4, <3>2, Zenon
    <3>4. OneContent'
      BY <2>1, <3>2, Zenon DEF OneContent, Hashed
    <3>5. job'[w].pc = "stat" /\ job'[w].scan = "visible"
      BY <2>3, <2>4
    <3> QED
      BY <3>3, <3>4, <3>5 DEF HashInv
  <2>7. WorkerInv(w)'
    BY <2>5, <2>6, Zenon DEF WorkerInv
  <2>8. open' \in Singles /\ accepted' \in Gens \X Gens /\ lock' \subseteq Workers /\ run' \in Runs /\ RunGoesOn(w)
    BY <2>1, Zenon DEF IInv, TypeOK, RunGoesOn
  <2> QED
    BY <1>1, <2>1, <2>3, <2>7, <2>8, QuietKeeps, Zenon
<1> QED
  BY <1>2, <1>3, <1>4, Zenon

LEMMA HashKeeps ==
  ASSUME Constants, IInv, NEW w \in Workers, Hash(w)
  PROVE  IInv'
<1> DEFINE m == [job[w] EXCEPT !.scan = "hash", !.pc = "stat", !.file = path, !.pos = 1, !.ok = TRUE]
           j == [m EXCEPT !.op = "hash"]
<1>1. /\ run = "none" /\ Idle /\ ~snap.ready /\ job' = [job EXCEPT ![w] = j] /\ ever' = Contents(disk)
      /\ UNCHANGED <<disk, path, snap, open, accepted, lock, run, sent, seen, spent, guard>>
  BY Zenon DEF Hash, Opens
<1>2. job[w] \in Jobs /\ path \in Singles /\ "hash" \in Scans
  BY JobFields DEF IInv, TypeOK, Scans
<1>3. m \in Jobs /\ m.pc = "stat" /\ m.scan = "hash" /\ m.pos = 1
  BY <1>2, FirstPlace, Zenon DEF Jobs, Pcs
<1> HIDE DEF m
<1>4. j \in Jobs /\ j.op = "hash" /\ j.pc = "stat" /\ j.scan = "hash" /\ j.pos = 1
  BY <1>3 DEF Jobs, Ops
<1> HIDE DEF j
<1>5. /\ job' \in [Workers -> Jobs] /\ job'[w] = j
      /\ \A v \in Workers \ {w} : job'[v] = job[v]
  BY <1>1, <1>4, JobSet, Zenon DEF IInv, TypeOK
<1>6. TypeOK'
  BY <1>1, <1>5, Zenon DEF IInv, TypeOK
<1>7. \A v \in Workers \ {w} : job[v].op = "none" /\ job'[v].op = "none"
  BY <1>1, <1>5, Zenon DEF Idle
<1>8. WorkerInv(w)'
  <2>1. ScanInv(w)' /\ RunsInv(w)' /\ FinalInv(w)'
    BY <1>4, <1>5 DEF ScanInv, RunsInv, FinalInv
  <2>2. ~snap'.ready /\ run' = "none" /\ (\A v \in Workers \ {w} : job'[v].op = "none") /\ Contents(disk') \subseteq ever'
    BY <1>1, <1>7, Zenon
  <2>3. job'[w].pc = "stat" /\ job'[w].scan = "hash"
    BY <1>4, <1>5
  <2>4. HashInv(w)'
    BY <2>2, <2>3 DEF HashInv
  <2> QED
    BY <2>1, <2>4, Zenon DEF WorkerInv
<1>9. ASSUME NEW v \in Workers PROVE WorkerInv(v)'
  <2>1. CASE v = w
    BY <1>8, <2>1, Zenon
  <2>2. CASE v # w
    BY <1>5, <1>7, <2>2, IdleKeeps, Zenon
  <2> QED
    BY <2>1, <2>2, Zenon
<1>10. TaskInv'
  <2>1. SentIsSigned' /\ \A b \in Blocks : sent'[b] = Nothing
    BY <1>1, Zenon DEF IInv, TaskInv, SentIsSigned
  <2>2. run' \notin {"prepare", "running", "paused", "complete"} /\ run' # "complete" /\ ~snap'.ready
    BY <1>1
  <2> QED
    BY <2>1, <2>2, Zenon DEF TaskInv
<1> QED
  BY <1>6, <1>9, <1>10, Zenon DEF IInv

-----------------------------------------------------------------------------
(* Runs                                                                    *)

LEMMA SpendFacts ==
  ASSUME IInv, NEW k \in Kinds, k # "hidden", NEW max, Spend(k, max)
  PROVE  spent' \in [Kinds -> Nat] /\ spent'["hidden"] = spent["hidden"]
<1>1. spent \in [Kinds -> Nat] /\ spent' = [spent EXCEPT ![k] = @ + 1]
  BY Zenon DEF Spend, IInv, TypeOK
<1>2. "hidden" \in Kinds
  BY DEF Kinds
<1> QED
  BY <1>1, <1>2

\* What was sent and hashed, in a step that sends and hashes nothing.
LEMMA HashedKeeps ==
  ASSUME IInv, UNCHANGED <<snap, sent, ever>>, spent'["hidden"] = spent["hidden"]
  PROVE  /\ SentIsSigned' /\ (~snap'.ready => \A b \in Blocks : sent'[b] = Nothing)
         /\ snap'.ready => OneContent'
         /\ Missing' = Missing
<1>1. OneContent' <=> OneContent
  BY Zenon DEF OneContent, Hashed
<1> QED
  BY <1>1, Zenon DEF IInv, TaskInv, SentIsSigned, Missing

LEMMA StartRunKeeps ==
  ASSUME Constants, IInv, NEW w \in Workers, StartRun(w)
  PROVE  IInv'
<1>1. /\ snap.ready /\ Idle /\ Spend("run", MaxRuns)
      /\ UNCHANGED <<disk, path, snap, open, accepted, lock, sent, seen, ever, guard>>
  BY Zenon DEF StartRun
<1>2. spent' \in [Kinds -> Nat] /\ spent'["hidden"] = spent["hidden"]
  <2>1. "run" \in Kinds /\ "run" # "hidden"
    BY DEF Kinds
  <2> QED
    BY <1>1, <2>1, SpendFacts, Zenon
<1>3. /\ SentIsSigned' /\ (~snap'.ready => \A b \in Blocks : sent'[b] = Nothing)
      /\ snap'.ready => OneContent'
  BY <1>1, <1>2, HashedKeeps, Zenon
<1>4. CASE TotalSizeValid
  <2> DEFINE j == [NoJob EXCEPT !.op = "prepare", !.pc = "begin"]
  <2>1. run' = "prepare" /\ job' = [job EXCEPT ![w] = j]
    BY <1>4, Zenon DEF StartRun, Set
  <2>2. j \in Jobs /\ j.op = "prepare" /\ j.pc = "begin" /\ j.scan = "none"
    <3>1. "prepare" \in Ops /\ 0 \in Nat
      BY DEF Ops
    <3> QED
      BY <3>1, BeginFacts, Zenon
  <2> HIDE DEF j
  <2>3. /\ job' \in [Workers -> Jobs] /\ job'[w] = j
        /\ \A v \in Workers \ {w} : job'[v] = job[v]
    BY <2>1, <2>2, JobSet, Zenon DEF IInv, TypeOK
  <2>4. TypeOK'
    <3>1. run' \in Runs
      BY <2>1 DEF Runs
    <3> QED
      BY <1>1, <1>2, <2>3, <3>1, Zenon DEF IInv, TypeOK
  <2>5. snap'.ready /\ snap'.len <= Size
    BY <1>1, <1>4, Zenon DEF TotalSizeValid
  <2>6. WorkerInv(w)'
    <3>1. ScanInv(w)' /\ HashInv(w)' /\ RunsInv(w)' /\ FinalInv(w)'
      BY <2>2, <2>3, <2>5, Zenon DEF ScanInv, HashInv, RunsInv, FinalInv
    <3> QED
      BY <3>1, Zenon DEF WorkerInv
  <2>7. ASSUME NEW v \in Workers PROVE WorkerInv(v)'
    <3>1. CASE v = w
      BY <2>6, <3>1, Zenon
    <3>2. CASE v # w
      BY <1>1, <2>3, <3>2, IdleKeeps, Zenon DEF Idle
    <3> QED
      BY <3>1, <3>2, Zenon
  <2>8. TaskInv'
    <3>1. run' # "complete"
      BY <2>1
    <3> QED
      BY <1>3, <2>5, <3>1, Zenon DEF TaskInv
  <2> QED
    BY <2>4, <2>7, <2>8, Zenon DEF IInv
<1>5. CASE ~TotalSizeValid
  <2>1. run' = "failed" /\ job' = job
    BY <1>5, Zenon DEF StartRun
  <2>2. TypeOK'
    <3>1. run' \in Runs
      BY <2>1 DEF Runs
    <3> QED
      BY <1>1, <1>2, <2>1, <3>1, Zenon DEF IInv, TypeOK
  <2>3. ASSUME NEW v \in Workers PROVE WorkerInv(v)'
    BY <1>1, <2>1, IdleKeeps, Zenon DEF Idle
  <2>4. TaskInv'
    <3>1. run' # "complete" /\ run' \notin {"prepare", "running", "paused", "complete"}
      BY <2>1
    <3> QED
      BY <1>3, <3>1, Zenon DEF TaskInv
  <2> QED
    BY <2>2, <2>3, <2>4, Zenon DEF IInv
<1> QED
  BY <1>4, <1>5, Zenon

\* A look at the files adds to what was seen, and knows what is there.
LEMMA LookFacts ==
  ASSUME NEW old \in Sights, NEW d, NEW p \in SUBSET Inodes
  PROVE  /\ Look(old, d, p) \in Sights /\ p \subseteq Look(old, d, p).named
         /\ old.named \subseteq Look(old, d, p).named
         /\ old.whole \subseteq Look(old, d, p).whole
         /\ old.blocks \subseteq Look(old, d, p).blocks
         /\ \A i \in Inodes : /\ Whole(d, i) => i \in Look(old, d, p).whole
                              /\ \A b \in Blocks : Holds(d, i, b) => <<i, b>> \in Look(old, d, p).blocks
<1> DEFINE n == old.named \cup p
           h == {i \in Inodes : Whole(d, i)}
           k == {ib \in Inodes \X Blocks : Holds(d, ib[1], ib[2])}
<1>1. old.named \in SUBSET Inodes /\ old.whole \in SUBSET Inodes /\ old.blocks \in SUBSET (Inodes \X Blocks)
  BY DEF Sights
<1>2. \A i \in Inodes : \A b \in Blocks : Holds(d, i, b) => <<i, b>> \in k
  OBVIOUS
<1>3. \A i \in Inodes : Whole(d, i) => i \in h
  BY Zenon
<1>4. n \in SUBSET Inodes /\ (old.whole \cup h) \in SUBSET Inodes /\ (old.blocks \cup k) \in SUBSET (Inodes \X Blocks)
  BY <1>1, Zenon
<1>5. Look(old, d, p) = [named |-> n, whole |-> old.whole \cup h, blocks |-> old.blocks \cup k]
  BY Zenon DEF Look
<1> HIDE DEF n, h, k
<1>6. /\ Look(old, d, p) \in Sights /\ Look(old, d, p).named = n /\ Look(old, d, p).whole = old.whole \cup h
      /\ Look(old, d, p).blocks = old.blocks \cup k
  BY <1>4, <1>5 DEF Sights
<1>7. p \subseteq n /\ old.named \subseteq n
  BY Zenon DEF n
<1> QED
  BY <1>2, <1>3, <1>6, <1>7, Zenon

LEMMA StartJobKeeps ==
  ASSUME Constants, IInv, NEW w \in Workers, StartJob(w)
  PROVE  IInv'
<1>1. /\ run = "running" /\ job[w].op = "none" /\ Spend("job", MaxJobs)
      /\ seen' = [seen EXCEPT ![w] = Look(Unseen, disk, path)]
      /\ UNCHANGED <<disk, path, snap, open, accepted, lock, run, sent, ever, guard>>
  BY Zenon DEF StartJob
<1>2. spent' \in [Kinds -> Nat] /\ spent'["hidden"] = spent["hidden"]
  <2>1. "job" \in Kinds /\ "job" # "hidden"
    BY DEF Kinds
  <2> QED
    BY <1>1, <2>1, SpendFacts, Zenon
<1>3. /\ SentIsSigned' /\ (~snap'.ready => \A b \in Blocks : sent'[b] = Nothing)
      /\ snap'.ready => OneContent'
      /\ Missing' = Missing
  BY <1>1, <1>2, HashedKeeps, Zenon
<1>4. PICK j \in Jobs : /\ job' = [job EXCEPT ![w] = j] /\ j.pc = "begin" /\ j.scan = "none"
                        /\ j.op = "read" \/ (j.op = "final" /\ Missing = {})
  <2>1. CASE \E b \in Missing : Set(w, [NoJob EXCEPT !.op = "read", !.pc = "begin", !.block = b])
    <3>1. PICK b \in Missing : Set(w, [NoJob EXCEPT !.op = "read", !.pc = "begin", !.block = b])
      BY <2>1, Zenon
    <3> DEFINE j == [NoJob EXCEPT !.op = "read", !.pc = "begin", !.block = b]
    <3>2. "read" \in Ops /\ b \in Nat
      <4>1. b \in 1..Size /\ Size \in Nat
        BY Zenon DEF Missing, Constants
      <4> QED
        BY <4>1 DEF Ops
    <3>3. j \in Jobs /\ j.op = "read" /\ j.pc = "begin" /\ j.scan = "none"
      BY <3>2, BeginFacts, ZenonT(60)
    <3>4. job' = [job EXCEPT ![w] = j]
      BY <3>1, Zenon DEF Set
    <3> HIDE DEF j
    <3> QED
      BY <3>3, <3>4, Zenon
  <2>2. CASE Missing = {} /\ Set(w, [NoJob EXCEPT !.op = "final", !.pc = "begin"])
    <3> DEFINE j == [NoJob EXCEPT !.op = "final", !.pc = "begin"]
    <3>1. "final" \in Ops /\ 0 \in Nat
      BY DEF Ops
    <3>2. j \in Jobs /\ j.op = "final" /\ j.pc = "begin" /\ j.scan = "none"
      BY <3>1, BeginFacts, Zenon
    <3>3. job' = [job EXCEPT ![w] = j]
      BY <2>2, Zenon DEF Set
    <3> HIDE DEF j
    <3> QED
      BY <2>2, <3>2, <3>3, Zenon
  <2> QED
    BY <2>1, <2>2, Zenon DEF StartJob
<1>5. /\ job' \in [Workers -> Jobs] /\ job'[w] = j
      /\ \A v \in Workers \ {w} : job'[v] = job[v]
  BY <1>4, JobSet, Zenon DEF IInv, TypeOK
<1>6. Unseen \in Sights /\ path \in SUBSET Inodes
  <2>1. path \in SUBSET Inodes
    BY Zenon DEF IInv, TypeOK, Singles
  <2> QED
    BY <2>1 DEF Unseen, Sights
<1>7. /\ Look(Unseen, disk, path) \in Sights /\ path \subseteq Look(Unseen, disk, path).named
      /\ \A i \in Inodes : /\ Whole(disk, i) => i \in Look(Unseen, disk, path).whole
                           /\ \A b \in Blocks : Holds(disk, i, b) => <<i, b>> \in Look(Unseen, disk, path).blocks
  BY <1>6, LookFacts, Zenon
<1>8. /\ seen' \in [Workers -> Sights] /\ seen'[w] = Look(Unseen, disk, path)
      /\ \A v \in Workers \ {w} : seen'[v] = seen[v]
  BY <1>1, <1>7, Zenon DEF IInv, TypeOK
<1>9. TypeOK'
  BY <1>1, <1>2, <1>5, <1>8, Zenon DEF IInv, TypeOK
<1>10. Current(w)'
  BY <1>1, <1>7, <1>8, Zenon DEF Current, Whole, Holds
<1>11. snap.ready /\ snap.len <= Size
  BY <1>1 DEF IInv, TaskInv
<1>12. WorkerInv(w)'
  <2>1. ScanInv(w)' /\ HashInv(w)'
    BY <1>4, <1>5, Zenon DEF ScanInv, HashInv
  <2>2. RunsInv(w)'
    BY <1>1, <1>10, <1>11, Zenon DEF RunsInv
  <2>3. FinalInv(w)'
    <3>1. job'[w].op = "final" => Missing' = {}
      BY <1>3, <1>4, <1>5
    <3>2. job'[w].scan # "visible" /\ job'[w].pc \notin {"valid", "done"}
      BY <1>4, <1>5
    <3> QED
      BY <3>1, <3>2, Zenon DEF FinalInv
  <2> QED
    BY <2>1, <2>2, <2>3, Zenon DEF WorkerInv
<1>13. ASSUME NEW v \in Workers PROVE WorkerInv(v)'
  <2>1. CASE v = w
    BY <1>12, <2>1, Zenon
  <2>2. CASE v # w
    <3>1. job[v].op # "hash"
      BY <1>11, Zenon DEF IInv, WorkerInv, HashInv
    <3> QED
      BY <1>1, <1>2, <1>3, <1>5, <1>8, <2>2, <3>1, OtherKeeps, Zenon
  <2> QED
    BY <2>1, <2>2, Zenon
<1>14. TaskInv'
  <2>1. run' # "complete"
    BY <1>1
  <2> QED
    BY <1>1, <1>3, <1>11, <2>1, Zenon DEF TaskInv
<1> QED
  BY <1>9, <1>13, <1>14, Zenon DEF IInv

\* A block is handed to the provider: it has the value that was hashed.
LEMMA SentKeeps ==
  ASSUME Constants, IInv, NEW b, NEW v \in Values, b \in Blocks => v = snap.body[b],
         sent' = [sent EXCEPT ![b] = v], snap' = snap, snap.ready
  PROVE  /\ sent' \in Grids /\ SentIsSigned' /\ (Missing = {} => Missing' = {})
<1>1. sent \in [Blocks -> Values \cup {Nothing}] /\ v # Nothing /\ 1..Size \subseteq Blocks
  <2>1. v # Nothing /\ 1..Size \subseteq Blocks
    BY DEF Constants, Nothing, Blocks
  <2> QED
    BY <2>1, Zenon DEF IInv, TypeOK, Grids
<1>2. /\ sent' \in [Blocks -> Values \cup {Nothing}]
      /\ \A c \in Blocks : sent'[c] = IF c = b THEN v ELSE sent[c]
  BY <1>1, ZenonT(60)
<1>3. SentIsSigned'
  <2>1. ASSUME NEW c \in Blocks, sent'[c] # Nothing PROVE sent'[c] = snap'.body[c]
    <3>1. sent[c] # Nothing => sent[c] = snap.body[c]
      BY Zenon DEF IInv, TaskInv, SentIsSigned
    <3> QED
      BY <1>2, <2>1, <3>1
  <2> QED
    BY <2>1, Zenon DEF SentIsSigned
<1>4. Missing = {} => Missing' = {}
  <2>1. ASSUME Missing = {}, NEW c \in 1..Size PROVE sent'[c] # Nothing
    <3>1. sent[c] # Nothing /\ c \in Blocks
      BY <1>1, <2>1, Zenon DEF Missing
    <3> QED
      BY <1>1, <1>2, <3>1
  <2> QED
    BY <2>1, Zenon DEF Missing
<1> QED
  BY <1>2, <1>3, <1>4, Zenon DEF Grids

LEMMA ReadKeeps ==
  ASSUME Constants, IInv, NEW w \in Workers, Read(w)
  PROVE  IInv'
<1>1. job[w].pc = "read" /\ job[w].pc \in {"begin", "handle", "path", "visible", "valid", "read", "done"}
      /\ job[w].pc # "done"
  BY DEF Read
<1>2. job[w].op \in {"prepare", "read", "final"} /\ job[w].op # "none"
  BY <1>1, RunsJob, Zenon
<1>3. PICK i \in job[w].own :
        \/ Fails(w)
        \/ /\ ~(job[w].block > disk[i].len) /\ Verified(job[w].block, disk[i].body[job[w].block])
           /\ sent' = [sent EXCEPT ![job[w].block] = disk[i].body[job[w].block]]
           /\ job' = [job EXCEPT ![w] = NoJob]
           /\ UNCHANGED <<disk, path, snap, open, accepted, lock, run, seen, ever, spent, guard>>
  BY Zenon DEF Read
<1>4. CASE Fails(w)
  BY <1>1, <1>2, <1>4, FailsKeeps, Zenon
<1>5. CASE ~Fails(w)
  <2>1. PICK b : b = job[w].block
    BY Zenon
  <2>2. PICK v : v = disk[i].body[b]
    BY Zenon
  <2>3. /\ ~(b > disk[i].len) /\ v = snap.body[b] /\ sent' = [sent EXCEPT ![b] = v]
        /\ job' = [job EXCEPT ![w] = NoJob]
        /\ UNCHANGED <<disk, path, snap, open, accepted, lock, run, seen, ever, spent, guard>>
    BY <1>3, <1>5, <2>1, <2>2, Zenon DEF Verified
  <2>4. i \in Inodes /\ b \in Nat
    BY <2>1, JobFields, Zenon DEF Singles
  <2>5. snap.ready
    BY <1>2, Zenon DEF IInv, WorkerInv, RunsInv
  <2>6. /\ sent' \in Grids /\ SentIsSigned' /\ (Missing = {} => Missing' = {})
    <3>1. CASE b \in Blocks
      <4>1. v \in Values
        BY <2>2, <2>4, <3>1, GenType, Zenon
      <4> QED
        BY <2>3, <2>5, <4>1, SentKeeps, Zenon
    <3>2. CASE b \notin Blocks
      <4>1. sent \in Grids
        BY Zenon DEF IInv, TypeOK
      <4>2. sent' = sent
        BY <2>3, <3>2, <4>1 DEF Grids
      <4> QED
        BY <2>3, <4>1, <4>2, Zenon DEF IInv, TaskInv, SentIsSigned, Missing
    <3> QED
      BY <3>1, <3>2, Zenon
  <2>7. /\ job' \in [Workers -> Jobs] /\ job'[w] = NoJob
        /\ \A u \in Workers \ {w} : job'[u] = job[u]
    BY <2>3, BlankJob, JobSet, Zenon DEF IInv, TypeOK
  <2>8. TypeOK'
    BY <2>3, <2>6, <2>7, Zenon DEF IInv, TypeOK
  <2>9. ASSUME NEW u \in Workers PROVE WorkerInv(u)'
    <3>1. CASE u = w
      BY <2>7, <3>1, JobOver, Zenon
    <3>2. CASE u # w
      <4>1. job[u].op # "hash"
        BY <1>2, <3>2, NotHashing, Zenon
      <4> QED
        BY <2>3, <2>6, <2>7, <3>2, <4>1, OtherKeeps, Zenon
    <3> QED
      BY <3>1, <3>2, Zenon
  <2>10. TaskInv'
    <3>1. snap'.ready => OneContent'
      <4>1. OneContent' <=> OneContent
        BY <2>3, Zenon DEF OneContent, Hashed
      <4> QED
        BY <2>3, <4>1, Zenon DEF IInv, TaskInv
    <3>2. run' \in {"prepare", "running", "paused", "complete"} => snap'.ready /\ snap'.len <= Size
      BY <2>3, Zenon DEF IInv, TaskInv
    <3>3. ASSUME run' = "complete" PROVE Missing' = {} /\ \E u \in Workers : job'[u].op = "final" /\ job'[u].pc = "done"
      <4>1. Missing = {} /\ \E u \in Workers : job[u].op = "final" /\ job[u].pc = "done"
        BY <2>3, <3>3, Zenon DEF IInv, TaskInv
      <4> QED
        BY <1>1, <2>6, <2>7, <4>1, Zenon
    <3> QED
      BY <2>3, <2>5, <2>6, <3>1, <3>2, <3>3, Zenon DEF TaskInv
  <2> QED
    BY <2>8, <2>9, <2>10, Zenon DEF IInv
<1> QED
  BY <1>4, <1>5, Zenon

LEMMA SameKeeps ==
  ASSUME IInv, NEW v \in Workers,
         UNCHANGED <<disk, path, snap, run, job, sent, seen, ever, spent>>
  PROVE  WorkerInv(v)'
<1>1. (Stable(v)' <=> Stable(v)) /\ File(v)' = File(v)
  BY Zenon DEF Stable, Gen, File
<1>2. (Current(v)' <=> Current(v)) /\ (WasRead(v)' <=> WasRead(v)) /\ (OneContent' <=> OneContent)
  BY Zenon DEF Current, Whole, Holds, WasRead, OneContent, Hashed
<1>3. Missing' = Missing /\ Contents(disk') = Contents(disk)
  BY Zenon DEF Missing
<1>4. ScanInv(v)' /\ RunsInv(v)'
  BY <1>2, Zenon DEF IInv, WorkerInv, ScanInv, RunsInv
<1>5. HashInv(v)'
  BY <1>1, <1>2, <1>3, Zenon DEF IInv, WorkerInv, HashInv
<1>6. FinalInv(v)'
  BY <1>1, <1>2, <1>3, Zenon DEF IInv, WorkerInv, FinalInv
<1> QED
  BY <1>4, <1>5, <1>6, Zenon DEF WorkerInv

\* The handle is released: by the scheduler, or late by the guard of the run.
LEMMA ReleaseKeeps ==
  ASSUME Constants, IInv, PauseRun \/ DropGuard
  PROVE  IInv'
<1>1. /\ open' = {} /\ accepted' = <<NoGen, NoGen>> /\ guard' \in BOOLEAN
      /\ UNCHANGED <<disk, path, snap, lock, job, sent, seen, ever, spent>>
      /\ run' = run \/ (run = "running" /\ run' = "paused" /\ Idle)
  BY ZenonT(60) DEF PauseRun, DropGuard, Released
<1>2. open' \in Singles /\ accepted' \in Gens \X Gens
  BY <1>1 DEF Singles, Gens
<1>3. TypeOK'
  <2>1. run' \in Runs
    BY <1>1 DEF IInv, TypeOK, Runs
  <2> QED
    BY <1>1, <1>2, <2>1, Zenon DEF IInv, TypeOK
<1>4. ASSUME NEW v \in Workers PROVE WorkerInv(v)'
  <2>1. CASE run' = run
    BY <1>1, <2>1, SameKeeps, Zenon
  <2>2. CASE Idle
    BY <1>1, <2>2, IdleKeeps, Zenon DEF Idle
  <2> QED
    BY <1>1, <2>1, <2>2, Zenon
<1>5. TaskInv'
  <2>1. /\ SentIsSigned' /\ (~snap'.ready => \A b \in Blocks : sent'[b] = Nothing)
        /\ snap'.ready => OneContent'
        /\ Missing' = Missing
    BY <1>1, HashedKeeps, Zenon
  <2>2. run' \in {"prepare", "running", "paused", "complete"} => snap'.ready /\ snap'.len <= Size
    BY <1>1 DEF IInv, TaskInv
  <2>3. run' = "complete" => run = "complete"
    BY <1>1
  <2>4. run' = "complete" => Missing' = {} /\ \E w \in Workers : job'[w].op = "final" /\ job'[w].pc = "done"
    BY <1>1, <2>1, <2>3, Zenon DEF IInv, TaskInv
  <2> QED
    BY <2>1, <2>2, <2>4, Zenon DEF TaskInv
<1> QED
  BY <1>3, <1>4, <1>5, Zenon DEF IInv

-----------------------------------------------------------------------------
(* Other programs                                                          *)

\* The metadata only goes forward, and a file with the same metadata is the same
\* file unless a write was hidden.
Moved ==
  /\ disk' \in [Inodes -> Files] /\ path' \in Singles /\ spent' \in [Kinds -> Nat]
  /\ \A i \in Inodes : disk[i].gen <= disk'[i].gen
  /\ spent'["hidden"] = 0 =>
       spent["hidden"] = 0 /\ \A i \in Inodes : disk'[i] = disk[i] \/ disk[i].gen < disk'[i].gen

LEMMA FileSet ==
  ASSUME IInv, NEW i \in Inodes, NEW f \in Files, disk' = [disk EXCEPT ![i] = f], disk[i].gen <= f.gen
  PROVE  /\ disk' \in [Inodes -> Files] /\ disk'[i] = f /\ \A h \in Inodes \ {i} : disk'[h] = disk[h]
         /\ \A h \in Inodes : disk[h].gen <= disk'[h].gen
<1>1. disk \in [Inodes -> Files]
  BY Zenon DEF IInv, TypeOK
<1>2. disk' \in [Inodes -> Files] /\ disk'[i] = f /\ \A h \in Inodes \ {i} : disk'[h] = disk[h]
  BY <1>1, Zenon
<1>3. ASSUME NEW h \in Inodes PROVE disk[h].gen <= disk'[h].gen
  <2>1. disk[h].gen \in Nat
    BY GenType, Zenon
  <2>2. disk[h].gen <= disk[h].gen
    BY <2>1
  <2> QED
    BY <1>2, <2>2, Zenon
<1> QED
  BY <1>2, <1>3, Zenon

\* A write, a cut, and another file at the path.
Written(i, b, v, hidden) ==
  /\ disk' = [disk EXCEPT ![i].body[b] = v, ![i].gen = @ + 1 - hidden]
  /\ spent' = [spent EXCEPT !.change = @ + 1, !.hidden = @ + hidden] /\ UNCHANGED path
Cut(i, len) ==
  /\ disk' = [disk EXCEPT ![i].len = len, ![i].gen = @ + 1]
  /\ spent' = [spent EXCEPT !.change = @ + 1] /\ UNCHANGED path
Replaced(p) ==
  /\ path' = p /\ spent' = [spent EXCEPT !.change = @ + 1] /\ UNCHANGED disk

LEMMA WriteMoves ==
  ASSUME Constants, IInv, NEW i \in Inodes, NEW b \in 1..Size, NEW v \in Values, NEW hidden \in {0, 1},
         Written(i, b, v, hidden)
  PROVE  Moved
<1>1. PICK old \in Files : old = disk[i]
  BY Zenon DEF IInv, TypeOK
<1>2. old.body \in [Blocks -> Values] /\ old.len \in 0..(Size + 1) /\ old.gen \in Nat
  BY DEF Files
<1>3. PICK g : g = old.gen + 1 - hidden
  BY Zenon
<1>4. g \in Nat /\ old.gen <= g /\ (hidden = 0 => old.gen < g)
  BY <1>2, <1>3
<1>5. PICK body \in [Blocks -> Values] : body = [old.body EXCEPT ![b] = v]
  BY <1>2, Zenon
<1> DEFINE f == [[old EXCEPT !.body = body] EXCEPT !.gen = g]
<1>6. disk' = [disk EXCEPT ![i] = f]
  <2>1. disk \in [Inodes -> Files]
    BY Zenon DEF IInv, TypeOK
  <2>2. disk' = [disk EXCEPT ![i].body[b] = v, ![i].gen = @ + 1 - hidden]
    BY Zenon DEF Written
  <2>3. disk' = [[disk EXCEPT ![i] = [old EXCEPT !.body = body]] EXCEPT
                    ![i] = [[disk EXCEPT ![i] = [old EXCEPT !.body = body]][i] EXCEPT !.gen = g]]
    BY <1>1, <1>3, <1>5, <2>2
  <2> HIDE DEF f
  <2>4. [disk EXCEPT ![i] = [old EXCEPT !.body = body]][i] = [old EXCEPT !.body = body]
    BY <2>1, Zenon
  <2>5. disk' = [[disk EXCEPT ![i] = [old EXCEPT !.body = body]] EXCEPT ![i] = f]
    BY <2>3, <2>4, Zenon DEF f
  <2> QED
    BY <2>1, <2>5, Zenon
<1>7. f \in Files /\ f.gen = g
  BY <1>4, Zenon DEF Files
<1> HIDE DEF f
<1>8. /\ disk' \in [Inodes -> Files] /\ disk'[i] = f /\ (\A h \in Inodes \ {i} : disk'[h] = disk[h])
      /\ \A h \in Inodes : disk[h].gen <= disk'[h].gen
  BY <1>1, <1>4, <1>6, <1>7, FileSet, Zenon
<1>9. /\ spent' \in [Kinds -> Nat]
      /\ spent'["hidden"] = 0 => spent["hidden"] = 0 /\ hidden = 0
  <2>1. spent \in [Kinds -> Nat] /\ "hidden" \in Kinds /\ "change" \in Kinds
    BY DEF IInv, TypeOK, Kinds
  <2>2. PICK c \in Nat : c = spent["change"] + 1
    BY <2>1
  <2>3. PICK d \in Nat : d = spent["hidden"] + hidden
    BY <2>1
  <2>4. spent' = [[spent EXCEPT !["change"] = c] EXCEPT !["hidden"] = d]
    BY <2>1, <2>2, <2>3, ZenonT(60) DEF Written
  <2>5. spent' \in [Kinds -> Nat] /\ spent'["hidden"] = d
    BY <2>1, <2>4
  <2> QED
    BY <2>1, <2>3, <2>5
<1>10. path' \in Singles
  BY Zenon DEF IInv, TypeOK, Written
<1>11. hidden = 0 => \A h \in Inodes : disk'[h] = disk[h] \/ disk[h].gen < disk'[h].gen
  BY <1>1, <1>4, <1>7, <1>8, Zenon
<1> QED
  BY <1>8, <1>9, <1>10, <1>11, Zenon DEF Moved

LEMMA CutMoves ==
  ASSUME Constants, IInv, NEW i \in Inodes, NEW len \in {Size - 1, Size} \cap Nat, Cut(i, len)
  PROVE  Moved
<1>1. PICK old \in Files : old = disk[i]
  BY Zenon DEF IInv, TypeOK
<1>2. old.gen \in Nat /\ len \in 0..(Size + 1)
  BY DEF Files, Constants
<1>3. PICK g \in Nat : g = old.gen + 1 /\ old.gen < g /\ old.gen <= g
  BY <1>2
<1> DEFINE f == [[old EXCEPT !.len = len] EXCEPT !.gen = g]
<1>4. disk' = [disk EXCEPT ![i] = f]
  <2>1. disk \in [Inodes -> Files]
    BY Zenon DEF IInv, TypeOK
  <2>2. disk' = [disk EXCEPT ![i].len = len, ![i].gen = @ + 1]
    BY Zenon DEF Cut
  <2>3. disk' = [[disk EXCEPT ![i] = [old EXCEPT !.len = len]] EXCEPT
                    ![i] = [[disk EXCEPT ![i] = [old EXCEPT !.len = len]][i] EXCEPT !.gen = g]]
    BY <1>1, <1>3, <2>2
  <2> HIDE DEF f
  <2>4. [disk EXCEPT ![i] = [old EXCEPT !.len = len]][i] = [old EXCEPT !.len = len]
    BY <2>1, Zenon
  <2>5. disk' = [[disk EXCEPT ![i] = [old EXCEPT !.len = len]] EXCEPT ![i] = f]
    BY <2>3, <2>4, Zenon DEF f
  <2> QED
    BY <2>1, <2>5, Zenon
<1>5. f \in Files /\ f.gen = g
  BY <1>2, Zenon DEF Files
<1> HIDE DEF f
<1>6. /\ disk' \in [Inodes -> Files] /\ disk'[i] = f /\ (\A h \in Inodes \ {i} : disk'[h] = disk[h])
      /\ \A h \in Inodes : disk[h].gen <= disk'[h].gen
  BY <1>1, <1>3, <1>4, <1>5, FileSet, Zenon
<1>7. spent' \in [Kinds -> Nat] /\ spent'["hidden"] = spent["hidden"]
  <2>1. spent \in [Kinds -> Nat] /\ "hidden" \in Kinds /\ "change" \in Kinds
    BY DEF IInv, TypeOK, Kinds
  <2>2. spent' = [spent EXCEPT !.change = @ + 1]
    BY Zenon DEF Cut
  <2> QED
    BY <2>1, <2>2
<1>8. path' \in Singles
  BY Zenon DEF IInv, TypeOK, Cut
<1>9. \A h \in Inodes : disk'[h] = disk[h] \/ disk[h].gen < disk'[h].gen
  BY <1>1, <1>3, <1>5, <1>6, Zenon
<1> QED
  BY <1>6, <1>7, <1>8, <1>9, Zenon DEF Moved

LEMMA ReplaceMoves ==
  ASSUME Constants, IInv, NEW p \in {{i} : i \in Inodes} \cup {{}}, Replaced(p)
  PROVE  Moved
<1>1. path' \in Singles
  BY DEF Singles, Replaced
<1>2. spent' \in [Kinds -> Nat] /\ spent'["hidden"] = spent["hidden"]
  <2>1. spent \in [Kinds -> Nat] /\ "hidden" \in Kinds /\ "change" \in Kinds
    BY DEF IInv, TypeOK, Kinds
  <2>2. spent' = [spent EXCEPT !.change = @ + 1]
    BY Zenon DEF Replaced
  <2> QED
    BY <2>1, <2>2
<1>3. disk' \in [Inodes -> Files] /\ disk' = disk
  BY Zenon DEF IInv, TypeOK, Replaced
<1>4. \A i \in Inodes : disk[i].gen <= disk'[i].gen
  <2>1. \A i \in Inodes : disk[i].gen \in Nat
    BY GenType, Zenon
  <2> QED
    BY <1>3, <2>1
<1> QED
  BY <1>1, <1>2, <1>3, <1>4, Zenon DEF Moved

LEMMA ChangeMoves ==
  ASSUME Constants, IInv, Change
  PROVE  /\ Moved /\ Noticed(disk', path') /\ ever \subseteq ever' /\ (Hashing => Contents(disk') \subseteq ever')
         /\ UNCHANGED <<snap, open, accepted, lock, job, run, sent, guard>>
<1> DEFINE W(i, b, v, hidden) ==
             /\ b <= disk[i].len /\ disk[i].body[b] # v /\ spent.hidden + hidden <= MaxHidden
             /\ disk' = [disk EXCEPT ![i].body[b] = v, ![i].gen = @ + 1 - hidden]
             /\ spent' = [spent EXCEPT !.change = @ + 1, !.hidden = @ + hidden]
             /\ UNCHANGED path
           C(i, len) ==
             /\ disk[i].len # len
             /\ disk' = [disk EXCEPT ![i].len = len, ![i].gen = @ + 1]
             /\ spent' = [spent EXCEPT !.change = @ + 1] /\ UNCHANGED path
           R(p) ==
             /\ p # path /\ path' = p
             /\ spent' = [spent EXCEPT !.change = @ + 1] /\ UNCHANGED disk
<1>1. \/ \E i \in Inodes, b \in 1..Size, v \in Values, hidden \in {0, 1} : W(i, b, v, hidden)
      \/ \E i \in Inodes, len \in {Size - 1, Size} \cap Nat : C(i, len)
      \/ \E p \in {{i} : i \in Inodes} \cup {{}} : R(p)
  BY ZenonT(60) DEF Change
<1>2. Moved
  <2>1. ASSUME NEW i \in Inodes, NEW b \in 1..Size, NEW v \in Values, NEW hidden \in {0, 1}, W(i, b, v, hidden)
        PROVE  Moved
    <3>1. Written(i, b, v, hidden)
      BY <2>1 DEF Written
    <3> QED
      BY <3>1, WriteMoves, Zenon
  <2>2. ASSUME NEW i \in Inodes, NEW len \in {Size - 1, Size} \cap Nat, C(i, len)
        PROVE  Moved
    <3>1. Cut(i, len)
      BY <2>2 DEF Cut
    <3> QED
      BY <3>1, CutMoves, Zenon
  <2>3. ASSUME NEW p \in {{i} : i \in Inodes} \cup {{}}, R(p)
        PROVE  Moved
    <3>1. Replaced(p)
      BY <2>3 DEF Replaced
    <3> QED
      BY <3>1, ReplaceMoves, Zenon
  <2> HIDE DEF W, C, R
  <2> QED
    BY <1>1, <2>1, <2>2, <2>3, Zenon
<1>3. ever' = IF Hashing THEN ever \cup Contents(disk') ELSE ever
  BY Zenon DEF Change
<1>4. ever \subseteq ever' /\ (Hashing => Contents(disk') \subseteq ever')
  BY <1>3, Zenon
<1> QED
  BY <1>2, <1>4, Zenon DEF Change

\* A file whose metadata did not change since a scan of it began did not change.
LEMMA StableFile ==
  ASSUME IInv, Moved, job' = job, NEW w \in Workers, job[w].pc = "scan", Stable(w)', spent'["hidden"] = 0
  PROVE  Stable(w) /\ disk'[File(w)] = disk[File(w)] /\ File(w)' = File(w) /\ spent["hidden"] = 0
<1>1. PICK i \in Inodes : job[w].file = {i} /\ \E g \in 0..disk[i].gen : job[w].gen = <<i, g>>
  BY Zenon DEF IInv, WorkerInv, ScanInv
<1>2. PICK g \in 0..disk[i].gen : job[w].gen = <<i, g>>
  BY <1>1, Zenon
<1>3. File(w) = i /\ File(w)' = i
  <2>1. File(w) = i
    BY <1>1, FileIs, Zenon
  <2> QED
    BY <2>1, Zenon DEF File
<1>4. disk[i].gen \in Nat
  BY GenType, Zenon
<1>5. <<i, disk'[i].gen>> = <<i, g>>
  BY <1>2, <1>3, Zenon DEF Stable, Gen
<1>6. ~(disk[i].gen < disk'[i].gen)
  BY <1>2, <1>4, <1>5
<1>7. disk'[i] = disk[i] /\ spent["hidden"] = 0
  BY <1>6, Zenon DEF Moved
<1>8. Stable(w)
  BY <1>2, <1>3, <1>5, <1>7, Zenon DEF Stable, Gen
<1> QED
  BY <1>3, <1>7, <1>8, Zenon

LEMMA HashSurvives ==
  ASSUME IInv, Moved, ever \subseteq ever', UNCHANGED snap, OneContent
  PROVE  OneContent'
  BY Zenon DEF OneContent, Hashed, Moved

LEMMA ChangeLeavesHash ==
  ASSUME IInv, Moved, ever \subseteq ever', Hashing => Contents(disk') \subseteq ever',
         UNCHANGED <<snap, job, run>>, NEW w \in Workers
  PROVE  HashInv(w)'
<1>1. SUFFICES ASSUME job[w].op = "hash" PROVE HashInv(w)'
  BY Zenon DEF HashInv
<1>2. HashInv(w)
  BY Zenon DEF IInv, WorkerInv
<1>3. ~snap'.ready /\ run' = "none" /\ (\A v \in Workers \ {w} : job'[v].op = "none")
      /\ job'[w].pc \in {"stat", "scan", "again"} /\ job'[w].scan \in {"hash", "visible"}
  BY <1>1, <1>2, Zenon DEF HashInv
<1>4. Contents(disk') \subseteq ever'
  BY <1>1, Zenon DEF Hashing
<1>5. job'[w].pc = "again" \/ job'[w].scan = "visible" => OneContent'
  BY <1>1, <1>2, HashSurvives, Zenon DEF HashInv
<1>6. ASSUME job'[w].scan = "hash", job'[w].pc = "scan", spent'["hidden"] = 0, Stable(w)'
      PROVE  /\ snap'.len = disk'[File(w)'].len
             /\ \A b \in 1..snap'.len : b < job'[w].pos => job'[w].body[b] = disk'[File(w)'].body[b]
  <2>1. Stable(w) /\ disk'[File(w)] = disk[File(w)] /\ File(w)' = File(w) /\ spent["hidden"] = 0
    BY <1>6, StableFile, Zenon
  <2>2. /\ snap.len = disk[File(w)].len
        /\ \A b \in 1..snap.len : b < job[w].pos => job[w].body[b] = disk[File(w)].body[b]
    BY <1>1, <1>2, <1>6, <2>1, Zenon DEF HashInv
  <2> QED
    BY <2>1, <2>2, Zenon
<1> QED
  BY <1>3, <1>4, <1>5, <1>6, Zenon DEF HashInv

\* What was seen is still seen, and what is there now is seen.
LEMMA NoticedFacts ==
  ASSUME IInv, Moved, Noticed(disk', path'), UNCHANGED <<snap, job>>, NEW w \in Workers
  PROVE  /\ seen'[w] \in Sights /\ seen[w].named \subseteq seen'[w].named
         /\ seen[w].whole \subseteq seen'[w].whole /\ seen[w].blocks \subseteq seen'[w].blocks
         /\ job[w].op \in {"read", "final"} => Current(w)'
<1>1. seen[w] \in Sights /\ path' \in SUBSET Inodes
  BY Zenon DEF IInv, TypeOK, Moved, Singles
<1>2. seen'[w] = IF job[w].op \in {"read", "final"} THEN Look(seen[w], disk', path') ELSE seen[w]
  BY Zenon DEF Noticed
<1>3. CASE job[w].op \in {"read", "final"}
  <2>1. seen'[w] = Look(seen[w], disk', path')
    BY <1>2, <1>3, Zenon
  <2>2. /\ Look(seen[w], disk', path') \in Sights /\ path' \subseteq Look(seen[w], disk', path').named
        /\ seen[w].named \subseteq Look(seen[w], disk', path').named
        /\ seen[w].whole \subseteq Look(seen[w], disk', path').whole
        /\ seen[w].blocks \subseteq Look(seen[w], disk', path').blocks
        /\ \A i \in Inodes : /\ Whole(disk', i) => i \in Look(seen[w], disk', path').whole
                             /\ \A b \in Blocks : Holds(disk', i, b) => <<i, b>> \in Look(seen[w], disk', path').blocks
    BY <1>1, LookFacts, Zenon
  <2>3. Current(w)'
    BY <2>1, <2>2, Zenon DEF Current, Whole, Holds
  <2> QED
    BY <2>1, <2>2, <2>3, Zenon
<1>4. CASE job[w].op \notin {"read", "final"}
  BY <1>1, <1>2, <1>4, Zenon
<1> QED
  BY <1>3, <1>4, Zenon

LEMMA ChangeLeavesFinal ==
  ASSUME IInv, Moved, Noticed(disk', path'), UNCHANGED <<snap, job, sent>>, NEW w \in Workers
  PROVE  FinalInv(w)'
<1>1. SUFFICES ASSUME job[w].op = "final" PROVE FinalInv(w)'
  BY Zenon DEF FinalInv
<1>2. FinalInv(w)
  BY Zenon DEF IInv, WorkerInv
<1>3. /\ seen[w].named \subseteq seen'[w].named
      /\ seen[w].whole \subseteq seen'[w].whole /\ seen[w].blocks \subseteq seen'[w].blocks
  BY NoticedFacts, Zenon
<1>4. Missing' = {}
  BY <1>1, <1>2, Zenon DEF FinalInv, Missing
<1>5. job'[w].scan = "visible" /\ job'[w].pc \in {"stat", "scan"} => job'[w].file \subseteq seen'[w].named
  BY <1>1, <1>2, <1>3, Zenon DEF FinalInv
<1>6. File(w)' = File(w)
  BY Zenon DEF File
<1>7. ASSUME job'[w].scan = "visible", job'[w].pc = "scan", job'[w].ok
      PROVE  /\ \A b \in 1..snap'.len : b < job'[w].pos => <<File(w)', b>> \in seen'[w].blocks
             /\ spent'["hidden"] = 0 /\ Stable(w)' =>
                  /\ disk'[File(w)'].len = snap'.len
                  /\ \A b \in 1..snap'.len : b < job'[w].pos => disk'[File(w)'].body[b] = snap'.body[b]
  <2>1. /\ \A b \in 1..snap.len : b < job[w].pos => <<File(w), b>> \in seen[w].blocks
        /\ spent["hidden"] = 0 /\ Stable(w) =>
             /\ disk[File(w)].len = snap.len
             /\ \A b \in 1..snap.len : b < job[w].pos => disk[File(w)].body[b] = snap.body[b]
    BY <1>1, <1>2, <1>7, Zenon DEF FinalInv
  <2>2. spent'["hidden"] = 0 /\ Stable(w)' => Stable(w) /\ disk'[File(w)] = disk[File(w)] /\ spent["hidden"] = 0
    BY <1>7, StableFile, Zenon
  <2> QED
    BY <1>3, <1>6, <2>1, <2>2, Zenon
<1>8. WasRead(w) => WasRead(w)'
  <2>1. spent'["hidden"] = 0 => spent["hidden"] = 0
    BY Zenon DEF Moved
  <2> QED
    BY <1>3, <2>1, Zenon DEF WasRead
<1>9. job'[w].pc \in {"valid", "done"} => WasRead(w)'
  BY <1>1, <1>2, <1>8, Zenon DEF FinalInv
<1> QED
  BY <1>4, <1>5, <1>7, <1>9, Zenon DEF FinalInv

LEMMA ChangeKeeps ==
  ASSUME Constants, IInv, Change
  PROVE  IInv'
<1>1. /\ Moved /\ Noticed(disk', path') /\ ever \subseteq ever' /\ (Hashing => Contents(disk') \subseteq ever')
      /\ UNCHANGED <<snap, open, accepted, lock, job, run, sent, guard>>
  BY ChangeMoves, Zenon
<1>2. TypeOK'
  <2>1. \A w \in Workers : seen'[w] \in Sights
    BY <1>1, NoticedFacts, Zenon
  <2>2. seen' \in [Workers -> Sights]
    BY <1>1, <2>1, Zenon DEF Noticed
  <2> QED
    BY <1>1, <2>2, Zenon DEF IInv, TypeOK, Moved
<1>3. ASSUME NEW w \in Workers PROVE WorkerInv(w)'
  <2>1. ScanInv(w)'
    <3>1. ScanInv(w)
      BY Zenon DEF IInv, WorkerInv
    <3>2. ASSUME job[w].pc = "scan"
          PROVE  \E i \in Inodes : job'[w].file = {i} /\ \E g \in 0..disk'[i].gen : job'[w].gen = <<i, g>>
      <4>1. PICK i \in Inodes : job[w].file = {i} /\ \E g \in 0..disk[i].gen : job[w].gen = <<i, g>>
        BY <3>1, <3>2, Zenon DEF ScanInv
      <4>2. PICK g \in 0..disk[i].gen : job[w].gen = <<i, g>>
        BY <4>1, Zenon
      <4>3. disk[i].gen \in Nat /\ disk'[i].gen \in Nat /\ disk[i].gen <= disk'[i].gen
        <5>1. disk[i].gen \in Nat /\ disk[i].gen <= disk'[i].gen /\ disk'[i] \in Files
          BY <1>1, GenType, Zenon DEF Moved
        <5> QED
          BY <5>1 DEF Files
      <4>4. g \in 0..disk'[i].gen
        BY <4>2, <4>3
      <4> QED
        BY <1>1, <4>1, <4>2, <4>4, Zenon
    <3> QED
      BY <1>1, <3>1, <3>2, Zenon DEF ScanInv
  <2>2. HashInv(w)' /\ FinalInv(w)'
    BY <1>1, ChangeLeavesHash, ChangeLeavesFinal, Zenon
  <2>3. RunsInv(w)'
    <3>1. job[w].op \in {"read", "final"} => Current(w)'
      BY <1>1, NoticedFacts, Zenon
    <3> QED
      BY <1>1, <3>1, Zenon DEF IInv, WorkerInv, RunsInv
  <2> QED
    BY <2>1, <2>2, <2>3, Zenon DEF WorkerInv
<1>4. TaskInv'
  <2>1. SentIsSigned' /\ (~snap'.ready => \A b \in Blocks : sent'[b] = Nothing) /\ Missing' = Missing
    BY <1>1, Zenon DEF IInv, TaskInv, SentIsSigned, Missing
  <2>2. snap'.ready => OneContent'
    BY <1>1, HashSurvives, Zenon DEF IInv, TaskInv
  <2> QED
    BY <1>1, <2>1, <2>2, Zenon DEF IInv, TaskInv
<1> QED
  BY <1>2, <1>3, <1>4, Zenon DEF IInv

-----------------------------------------------------------------------------
(* The invariant                                                           *)

LEMMA SpentType ==
  ASSUME NEW s, s = [change |-> 0, hidden |-> 0, run |-> 0, job |-> 0]
  PROVE  s \in [Kinds -> Nat] /\ s["hidden"] = 0
  BY DEF Kinds

LEMMA InitHolds ==
  ASSUME Constants, Init
  PROVE  IInv
<1>1. /\ snap = NoSnap /\ open = {} /\ accepted = <<NoGen, NoGen>> /\ lock = {}
      /\ job = [w \in Workers |-> NoJob] /\ run = "none" /\ guard = FALSE
      /\ sent = [b \in Blocks |-> Nothing] /\ ever = {}
      /\ seen = [w \in Workers |-> [named |-> {}, whole |-> {}, blocks |-> {}]]
      /\ spent = [change |-> 0, hidden |-> 0, run |-> 0, job |-> 0]
  BY Zenon DEF Init
<1>2. disk \in [Inodes -> Files]
  <2>1. PICK body \in [Inodes -> {f \in [Blocks -> Values] : f[Size + 1] = f[1]}], len \in Lengths :
          disk = [i \in Inodes |-> [body |-> body[i], len |-> len, gen |-> 0]]
    BY Zenon DEF Init
  <2>2. ASSUME NEW i \in Inodes PROVE [body |-> body[i], len |-> len, gen |-> 0] \in Files
    <3>1. body[i] \in [Blocks -> Values]
      BY Zenon
    <3>2. len \in 0..(Size + 1)
      BY Zenon DEF Constants
    <3> QED
      BY <3>1, <3>2 DEF Files
  <2> QED
    BY <2>1, <2>2, Zenon
<1>3. path \in Singles
  <2>1. PICK i \in Inodes : path = {i}
    BY Zenon DEF Init
  <2> QED
    BY <2>1 DEF Singles
<1>4. snap \in Snaps /\ ~snap.ready
  <2> DEFINE blank == [b \in Blocks |-> Nothing]
  <2>1. blank \in Grids /\ NoGen \in Gens
    BY BlankGrid DEF Gens
  <2>2. snap = [ready |-> FALSE, body |-> blank, len |-> 0, gen |-> NoGen]
    BY <1>1, Zenon DEF NoSnap
  <2> HIDE DEF blank
  <2>3. 0 \in 0..(Size + 1)
    BY DEF Constants
  <2> QED
    BY <2>1, <2>2, <2>3 DEF Snaps
<1>5. open \in Singles /\ accepted \in Gens \X Gens /\ lock \subseteq Workers /\ guard \in BOOLEAN /\ run \in Runs
  BY <1>1, Zenon DEF Singles, Gens, Runs
<1>6. job \in [Workers -> Jobs] /\ \A w \in Workers : job[w] = NoJob
  BY <1>1, BlankJob, Zenon
<1>7. sent \in Grids /\ \A b \in Blocks : sent[b] = Nothing
  BY <1>1, BlankGrid, Zenon
<1>8. seen \in [Workers -> Sights]
  <2>1. [named |-> {}, whole |-> {}, blocks |-> {}] \in Sights
    BY DEF Sights
  <2> QED
    BY <1>1, <2>1, Zenon
<1>9. spent \in [Kinds -> Nat]
  BY <1>1, SpentType, Zenon
<1>10. TypeOK
  BY <1>2, <1>3, <1>4, <1>5, <1>6, <1>7, <1>8, <1>9, Zenon DEF TypeOK
<1>11. TaskInv
  <2>1. run \notin {"prepare", "running", "paused", "complete"} /\ run # "complete"
    BY <1>1
  <2> QED
    BY <1>4, <1>7, <2>1, Zenon DEF TaskInv, SentIsSigned
<1>12. ASSUME NEW w \in Workers PROVE WorkerInv(w)
  <2>1. job[w].op = "none" /\ job[w].pc = "idle" /\ job[w].scan = "none"
    BY <1>6, BlankJob, Zenon
  <2>2. ScanInv(w) /\ HashInv(w) /\ RunsInv(w) /\ FinalInv(w)
    BY <2>1, ZenonT(60) DEF ScanInv, HashInv, RunsInv, FinalInv
  <2> QED
    BY <2>2, Zenon DEF WorkerInv
<1> QED
  BY <1>10, <1>11, <1>12, Zenon DEF IInv

LEMMA NextKeeps ==
  ASSUME Constants, IInv, [Next]_vars
  PROVE  IInv'
<1>1. CASE UNCHANGED vars
  <2>1. /\ UNCHANGED <<disk, path, snap, run, job, sent, seen, ever, spent>>
        /\ UNCHANGED <<open, accepted, lock, guard>>
    BY <1>1, Zenon DEF vars
  <2>2. \A w \in Workers : WorkerInv(w)'
    BY <2>1, SameKeeps, Zenon
  <2>3. TypeOK'
    BY <2>1, Zenon DEF IInv, TypeOK
  <2>4. /\ SentIsSigned' /\ (~snap'.ready => \A b \in Blocks : sent'[b] = Nothing)
        /\ snap'.ready => OneContent'
        /\ Missing' = Missing
    BY <2>1, HashedKeeps, Zenon
  <2>5. TaskInv'
    BY <2>1, <2>4, Zenon DEF IInv, TaskInv
  <2> QED
    BY <2>2, <2>3, <2>5, Zenon DEF IInv
<1>2. CASE Change
  BY <1>2, ChangeKeeps, Zenon
<1>3. CASE PauseRun \/ DropGuard
  BY <1>3, ReleaseKeeps, Zenon
<1>4. ASSUME NEW w \in Workers, WorkerStep(w) PROVE IInv'
  BY <1>4, HashKeeps, HashAgainKeeps, StartRunKeeps, PreparedKeeps, StartJobKeeps, BeginKeeps, StatKeeps,
     ScanKeeps, ScannedKeeps, StatHandleKeeps, StatPathKeeps, CheckVisibleKeeps, ReadBeginsKeeps, ReadKeeps,
     CompleteKeeps, Zenon DEF WorkerStep
<1> QED
  BY <1>1, <1>2, <1>3, <1>4, Zenon DEF Next

\* What was sent and what was hashed.
LEMMA SentSuffices ==
  ASSUME Constants, IInv
  PROVE  SentIsSigned /\ SentWhole
<1>1. SentIsSigned
  BY Zenon DEF IInv, TaskInv
<1>2. ASSUME run = "complete", NEW b \in 1..snap.len PROVE sent[b] = snap.body[b]
  <2>1. snap.len <= Size /\ Missing = {}
    BY <1>2, Zenon DEF IInv, TaskInv
  <2>2. snap \in Snaps
    BY Zenon DEF IInv, TypeOK
  <2>3. b \in 1..Size /\ b \in Blocks
    BY <2>1, <2>2 DEF Snaps, Constants, Blocks
  <2>4. sent[b] # Nothing
    BY <2>1, <2>3, Zenon DEF Missing
  <2> QED
    BY <1>1, <2>3, <2>4, Zenon DEF SentIsSigned
<1> QED
  BY <1>1, <1>2, Zenon DEF SentWhole

\* What the completion has read, and what the hash was taken of.
LEMMA ReadSuffices ==
  ASSUME Constants, IInv
  PROVE  CompletionReadsVisible /\ CompletionSawOneGeneration /\ SnapshotIsOneContent
<1>1. ASSUME run = "complete"
      PROVE  \E w \in Workers : job[w].pc = "done" /\ WasRead(w)
  <2>1. PICK w \in Workers : job[w].op = "final" /\ job[w].pc = "done"
    BY <1>1, Zenon DEF IInv, TaskInv
  <2>2. FinalInv(w)
    BY Zenon DEF IInv, WorkerInv
  <2>3. WasRead(w)
    BY <2>1, <2>2 DEF FinalInv
  <2> QED
    BY <2>1, <2>3, Zenon
<1>2. spent.hidden = spent["hidden"]
  OBVIOUS
<1>3. CompletionReadsVisible
  BY <1>1, Zenon DEF CompletionReadsVisible, WasRead
<1>4. CompletionSawOneGeneration
  BY <1>1, <1>2, Zenon DEF CompletionSawOneGeneration, WasRead
<1>5. SnapshotIsOneContent
  BY <1>2, Zenon DEF SnapshotIsOneContent, IInv, TaskInv, OneContent, Hashed
<1> QED
  BY <1>3, <1>4, <1>5, Zenon

-----------------------------------------------------------------------------
(* Theorems                                                                *)

\* The inductive invariant: what a scan has read agrees with the file for as
\* long as its metadata stands, and a block is sent only after it was hashed.
THEOREM SourceInvariant ==
  ASSUME Constants
  PROVE  Spec => []IInv
<1>1. Init => IInv
  BY InitHolds, Zenon
<1>2. IInv /\ [Next]_vars => IInv'
  BY NextKeeps, Zenon
<1> QED
  BY <1>1, <1>2, PTL DEF Spec

\* read_verified_range_blocking: every block handed to the provider is the one
\* that was hashed, and a completed upload handed over all of them, whatever
\* other programs wrote and whether or not the metadata shows it.
THEOREM UploadSendsTheHash ==
  ASSUME Constants
  PROVE  Spec => [](SentIsSigned /\ SentWhole)
<1>1. IInv => SentIsSigned /\ SentWhole
  BY SentSuffices, Zenon
<1> QED
  BY <1>1, SourceInvariant, PTL

\* validate_generation_blocking before the completion, and
\* open_and_hash_blocking: the visible file was read again, block by block; if
\* every write shows in the metadata it held the hashed content at one moment of
\* that validation, and the hash is of one content the file had.
THEOREM CompletionIsChecked ==
  ASSUME Constants
  PROVE  Spec => [](CompletionReadsVisible /\ CompletionSawOneGeneration /\ SnapshotIsOneContent)
<1>1. IInv => CompletionReadsVisible /\ CompletionSawOneGeneration /\ SnapshotIsOneContent
  BY ReadSuffices, Zenon
<1> QED
  BY <1>1, SourceInvariant, PTL
=============================================================================
