----------------------- MODULE ParallelDownloadProofs -----------------------
(***************************************************************************)
(* Proofs about a download in parallel parts: what it leaves when it       *)
(* completes, and what a crash leaves of its checkpoints, for any number   *)
(* of parts, generations, runs, faults and crashes.                        *)
(***************************************************************************)
EXTENDS ParallelDownload, TLAPS

Phases == {"idle", "headed", "loaded", "running", "draining", "settling", "done"}
States == {"todo", "asked", "body", "writing", "ok", "failed"}
StepNames == {"none", "write", "stage", "sync", "persist", "publish", "release", "abandon",
              "validate"}
Kinds == {"run", "retry", "fault", "crash", "tamper", "change"}
Cells == 0..(MaxGen + 1)
Grids == [Parts -> Cells]
Ids == {Unverified} \cup Gen
Files == [len : Nat, body : Grids]
Sides == [id : {NoIdentity} \cup Ids, done : Grids]
Progs == [id : Ids, done : Grids, pending : Grids, armed : BOOLEAN, validator : Ids]

TypeOK ==
  /\ remote \in Gen /\ file \in Files /\ safe \in Files /\ orphan \in Files
  /\ side \in Sides /\ safeSide \in Sides /\ kept \in Sides
  /\ phase \in Phases /\ start \in Nat /\ want \in Ids /\ prog \in Progs
  /\ pc \in [Parts -> States] /\ got \in Grids
  /\ holder \in Parts \cup {Nobody, Timer, Settler, Finisher} /\ step \in StepNames
  /\ timers \in Nat /\ spent \in [Kinds -> Nat]

Working == phase \in {"running", "draining"}
Flying(i) == pc[i] \in {"asked", "body", "writing"}

\* Who holds the barrier, and what for: a part that is writing, a timer, or
\* the end of a run, when no part is in flight and no timer armed.
BarrierInv ==
  /\ holder = Nobody <=> step = "none"
  /\ holder \in Parts => step \in {"write", "stage", "sync", "persist", "publish"}
  /\ holder = Timer => step \in {"sync", "persist", "publish"}
  /\ holder = Settler => step \in {"sync", "persist", "publish", "release"} /\ Ending
  /\ holder = Finisher => /\ step \in {"sync", "persist", "publish", "validate", "abandon"}
                          /\ \A i \in Parts : pc[i] = "ok"
  /\ \A i \in Parts : pc[i] = "writing" <=> holder = i
  /\ holder \in {Settler, Finisher} => ~prog.armed /\ \A i \in Parts : ~Flying(i)
  /\ ~Working => /\ ~prog.armed /\ \A i \in Parts : ~Flying(i)
                 /\ holder = Nobody \/ (holder = Settler /\ phase = "settling" /\ step = "release")
  /\ phase \in {"loaded", "settling"} => prog.pending = NoParts

\* A part that is asked for, or not staged yet, has no bit, and one that was not
\* asked for is not pending.
Unstaged(i) == pc[i] \in {"asked", "body"} \/ (holder = i /\ step \in {"write", "stage"})
StagedInv ==
  \A i \in Parts : /\ Unstaged(i) => prog.done[i] = Hole /\ prog.pending[i] = Hole
                   /\ pc[i] = "todo" => prog.pending[i] = Hole

\* A digest in the progress p is that of the generation p is bound to, if the
\* server sends validators, and otherwise that of the only part.
Bound(v, p) == v \in Gen /\ IF Etags THEN v = p.validator ELSE Total <= Chunk
ProgInv(p) ==
  /\ p.id # Unverified => Etags /\ p.validator = p.id
  /\ ~Etags => p.validator = Unverified
  /\ \A i \in Parts : /\ p.done[i] # Hole => Bound(p.done[i], p)
                      /\ p.pending[i] # Hole => Bound(p.pending[i], p)
GotInv == \A i \in Parts : pc[i] \in {"body", "writing"} => Bound(got[i], prog)

\* A sidecar with a strong identity has digests of that generation only.
SideInv(s) == s.id \in Gen => \A i \in Parts : s.done[i] \in {Hole, s.id}

GenInv ==
  /\ want # Unverified => Etags
  /\ ProgInv(prog) /\ GotInv
  /\ SideInv(side) /\ SideInv(safeSide) /\ SideInv(kept)
  /\ step = "publish" => side = Encode(prog.id, Snapshot(prog))
  /\ Working \/ phase = "settling" => kept.id \in {NoIdentity, prog.id}

\* The file f has the bytes of the bits of a grid.
Has(f, grid) == \A i \in Parts : grid[i] # Hole => f.body[i] = grid[i]
Covers(a, b) == \A i \in Parts : a[i] # Hole => b[i] # Hole

\* What is on the disk as long as no other program changes the target.
DiskInv ==
  /\ orphan = NoFile
  /\ phase = "loaded" => Has(file, prog.done) /\ (prog.done # NoParts => file.len = Total)
  /\ Working => /\ file.len = Total /\ safe.len = Total
                /\ Has(file, prog.done) /\ Has(safe, prog.done) /\ Has(file, prog.pending)
                /\ step \in {"persist", "publish"} => Has(safe, prog.pending)
                /\ step = "stage" => file.body[holder] = got[holder]

\* What a checkpoint that was reported done has left: two sidecars of its
\* identity, the visible and the durable one, about bytes that are durable.
KeptInv ==
  kept.id \in Gen =>
    /\ file.len = Total /\ safe.len = Total /\ side.id = kept.id /\ safeSide.id = kept.id
    /\ Has(file, side.done) /\ Has(safe, side.done)
    /\ Has(file, safeSide.done) /\ Has(safe, safeSide.done)
    /\ Covers(kept.done, safeSide.done) /\ Covers(safeSide.done, side.done)
    /\ phase = "loaded" /\ prog.id = kept.id => Covers(side.done, prog.done)
    /\ Working => Covers(side.done, Snapshot(prog))

IInv ==
  /\ TypeOK /\ BarrierInv /\ StagedInv /\ GenInv /\ CompletesWhole
  /\ spent["tamper"] = 0 => DiskInv /\ KeptInv
-----------------------------------------------------------------------------
(* The constants and the operators of DownloadProgress                     *)

LEMMA PartsAreNats == Parts \subseteq Nat
  BY DEF Parts

LEMMA HolderNames ==
  /\ Nobody \notin Parts /\ Timer \notin Parts /\ Settler \notin Parts /\ Finisher \notin Parts
  /\ Nobody # Timer /\ Nobody # Settler /\ Nobody # Finisher
  /\ Timer # Settler /\ Timer # Finisher /\ Settler # Finisher
  BY PartsAreNats DEF Nobody, Timer, Settler, Finisher

LEMMA GenNames ==
  ASSUME Constants
  PROVE  /\ Hole \notin Gen /\ Unverified = Hole /\ NoIdentity \notin Ids
         /\ Gen \subseteq Cells /\ Hole \in Cells /\ Foreign \in Cells /\ 1 \in Gen
  BY DEF Constants, Hole, Gen, Unverified, NoIdentity, Ids, Cells, Foreign

LEMMA NoPartsType ==
  ASSUME Constants
  PROVE  NoParts \in Grids /\ \A i \in Parts : NoParts[i] = Hole
  BY GenNames, Zenon DEF NoParts, Grids

\* Without validators a download is of one part.
LEMMA OnePart ==
  ASSUME Constants, Total <= Chunk
  PROVE  Parts \subseteq {0}
<1>1. Total + Chunk - 1 < 2 * Chunk /\ Total + Chunk - 1 \in Nat
  BY DEF Constants
<1>2. (Total + Chunk - 1) \div Chunk <= 1
  BY <1>1 DEF Constants
<1> QED
  BY <1>1, <1>2 DEF Parts, PartCount, DivCeil, Constants

LEMMA PartEnds ==
  ASSUME Constants, NEW i \in Parts
  PROVE  PartEnd(i) <= Total
<1>1. (i + 1) * Chunk \in Int /\ Total \in Int
  BY PartsAreNats DEF Constants
<1> QED
  BY <1>1 DEF PartEnd

\* A progress with the bits and the generation of another one.
SameBits(q, p) ==
  q.id = p.id /\ q.done = p.done /\ q.pending = p.pending /\ q.validator = p.validator

LEMMA FreshFacts ==
  ASSUME Constants, NEW id \in Ids
  PROVE  /\ Fresh(id) \in Progs /\ Fresh(id).id = id /\ Fresh(id).validator = id
         /\ Fresh(id).done = NoParts /\ Fresh(id).pending = NoParts /\ ~Fresh(id).armed
  BY NoPartsType DEF Fresh, Progs

LEMMA BegunFacts ==
  ASSUME NEW p \in Progs
  PROVE  Begun(p) \in Progs /\ SameBits(Begun(p), p) /\ ~Begun(p).armed
  BY Zenon DEF Begun, Progs, SameBits

LEMMA SnapshotFacts ==
  ASSUME NEW p \in Progs
  PROVE  /\ Snapshot(p) \in Grids
         /\ \A i \in Parts : Snapshot(p)[i] = IF p.pending[i] # Hole THEN p.pending[i] ELSE p.done[i]
<1>1. p.pending \in [Parts -> Cells] /\ p.done \in [Parts -> Cells]
  BY DEF Progs, Grids
<1> QED
  BY <1>1, Zenon DEF Snapshot, Grids

LEMMA CommittedFacts ==
  ASSUME Constants, NEW p \in Progs
  PROVE  /\ Committed(p) \in Progs /\ Committed(p).id = p.id /\ Committed(p).validator = p.validator
         /\ Committed(p).done = Snapshot(p) /\ Committed(p).pending = NoParts
         /\ Committed(p).armed = p.armed
<1>1. Snapshot(p) \in Grids /\ NoParts \in Grids
  BY SnapshotFacts, NoPartsType, Zenon
<1> QED
  BY <1>1, Zenon DEF Committed, Progs

LEMMA StagedFacts ==
  ASSUME NEW p \in Progs, NEW i \in Parts, NEW d \in Cells, NEW e \in BOOLEAN
  PROVE  /\ Staged(p, i, d, e) \in Progs /\ Staged(p, i, d, e).id = p.id
         /\ Staged(p, i, d, e).validator = p.validator /\ Staged(p, i, d, e).done = p.done
         /\ Staged(p, i, d, e).pending \in {p.pending, [p.pending EXCEPT ![i] = d]}
<1>1. CASE IsDone(p, i) \/ p.pending[i] # Hole
  BY <1>1 DEF Staged, Progs
<1>2. CASE ~(IsDone(p, i) \/ p.pending[i] # Hole)
  <2> DEFINE arm == p.armed \/ (~CheckpointDue(p, i, e) /\ PartCount <= TimerParts)
             new == [p.pending EXCEPT ![i] = d]
  <2>1. arm \in BOOLEAN /\ new \in Grids
    <3>1. p.pending \in [Parts -> Cells]
      BY DEF Progs, Grids
    <3> QED
      BY <3>1, Zenon DEF Grids
  <2>2. Staged(p, i, d, e) = [p EXCEPT !.pending = new, !.armed = arm]
    BY <1>2 DEF Staged, Progs
  <2> HIDE DEF arm, new
  <2>3. /\ Staged(p, i, d, e) \in Progs /\ Staged(p, i, d, e).id = p.id
        /\ Staged(p, i, d, e).validator = p.validator /\ Staged(p, i, d, e).done = p.done
        /\ Staged(p, i, d, e).pending = new
    BY <2>1, <2>2, Zenon DEF Progs
  <2> QED
    BY <2>3, Zenon DEF new
<1> QED
  BY <1>1, <1>2, Zenon

LEMMA SetLenFacts ==
  ASSUME Constants, NEW f \in Files, NEW n \in Nat
  PROVE  /\ SetLen(f, n) \in Files /\ SetLen(f, n).len = n
         /\ f.len = Total /\ n = Total => SetLen(f, n).body = f.body
<1> DEFINE grid == [i \in Parts |-> IF PartEnd(i) <= n /\ PartEnd(i) <= f.len THEN f.body[i]
                                    ELSE Hole]
<1>1. SetLen(f, n) = [len |-> n, body |-> grid]
  BY DEF SetLen
<1>2. f.body \in [Parts -> Cells] /\ Hole \in Cells
  BY GenNames DEF Files, Grids
<1>3. grid \in Grids
  BY <1>2, Zenon DEF Grids
<1>4. ASSUME f.len = Total, n = Total PROVE grid = f.body
  <2>1. \A i \in Parts : PartEnd(i) <= n /\ PartEnd(i) <= f.len
    BY <1>4, PartEnds, Zenon
  <2>2. grid = [i \in Parts |-> f.body[i]]
    BY <2>1, Zenon
  <2> QED
    BY <1>2, <2>2, Zenon
<1> HIDE DEF grid
<1> QED
  BY <1>1, <1>3, <1>4 DEF Files

LEMMA NoFileFacts ==
  ASSUME Constants
  PROVE  NoFile \in Files /\ NoSidecar \in Sides /\ NoSidecar.id = NoIdentity
  BY NoPartsType DEF NoFile, Files, NoSidecar, Sides, Encode

LEMMA EncodeFacts ==
  ASSUME NEW id \in Ids, NEW grid \in Grids
  PROVE  Encode(id, grid) \in Sides /\ Encode(id, grid).id = id /\ Encode(id, grid).done = grid
  BY DEF Encode, Sides

\* load_or_create: a bit it returns is one of the sidecar, and true of the file.
LEMMA LoadFacts ==
  ASSUME Constants, TypeOK, NEW id \in Ids
  PROVE  /\ LoadProgress(id) \in Progs /\ LoadProgress(id).id = id /\ LoadProgress(id).validator = id
         /\ LoadProgress(id).pending = NoParts /\ ~LoadProgress(id).armed
         /\ \A i \in Parts : LoadProgress(id).done[i] # Hole =>
              /\ id # Unverified /\ file.len = Total /\ side.id = id
              /\ LoadProgress(id).done[i] = side.done[i] /\ LoadProgress(id).done[i] = file.body[i]
         /\ id # Unverified /\ file.len = Total /\ side.id = id =>
              \A i \in Parts : side.done[i] = file.body[i] => LoadProgress(id).done[i] = side.done[i]
<1>1. /\ Fresh(id) \in Progs /\ Fresh(id).id = id /\ Fresh(id).validator = id
      /\ Fresh(id).done = NoParts /\ Fresh(id).pending = NoParts /\ ~Fresh(id).armed
      /\ NoParts \in Grids /\ \A i \in Parts : NoParts[i] = Hole
  BY FreshFacts, NoPartsType, Zenon
<1>2. CASE id = Unverified \/ file.len # Total
  <2>1. LoadProgress(id) = Fresh(id)
    BY <1>2, Zenon DEF LoadProgress, LoadOrCreate
  <2> QED
    BY <1>1, <1>2, <2>1, Zenon
<1>3. CASE id # Unverified /\ file.len = Total
  <2> DEFINE have == Decode(side, id)
             good == Verified(have, file, Total)
  <2>1. LoadProgress(id) = [Fresh(id) EXCEPT !.done = good]
    BY <1>3, Zenon DEF LoadProgress, LoadOrCreate
  <2>2. have = (IF side.id = id THEN side.done ELSE NoParts)
    BY Zenon DEF Decode
  <2>3. have \in [Parts -> Cells] /\ Hole \in Cells
    BY <1>1, <2>2, GenNames DEF TypeOK, Sides, Grids
  <2> HIDE DEF have
  <2>4. good = [i \in Parts |-> IF PartEnd(i) > Total \/ file.body[i] # have[i] THEN Hole ELSE have[i]]
    BY Zenon DEF Verified
  <2>5. \A i \in Parts : ~(PartEnd(i) > Total)
    <3> SUFFICES ASSUME NEW i \in Parts PROVE ~(PartEnd(i) > Total)
      BY Zenon
    <3>1. (i + 1) * Chunk \in Int /\ Total \in Int
      BY PartsAreNats DEF Constants
    <3> QED
      BY <3>1 DEF PartEnd
  <2> HIDE DEF good
  <2>6. /\ good \in Grids
        /\ \A i \in Parts : good[i] = IF file.body[i] # have[i] THEN Hole ELSE have[i]
    BY <2>3, <2>4, <2>5, Zenon DEF Grids
  <2>7. /\ LoadProgress(id) \in Progs /\ LoadProgress(id).id = id /\ LoadProgress(id).validator = id
        /\ LoadProgress(id).pending = NoParts /\ ~LoadProgress(id).armed
        /\ LoadProgress(id).done = good
    BY <1>1, <2>1, <2>6 DEF Progs
  <2>8. \A i \in Parts : good[i] # Hole => side.id = id /\ good[i] = side.done[i] /\ good[i] = file.body[i]
    BY <1>1, <2>2, <2>6, Zenon
  <2>9. side.id = id => \A i \in Parts : side.done[i] = file.body[i] => good[i] = side.done[i]
    BY <2>2, <2>6, Zenon
  <2> QED
    BY <1>3, <2>7, <2>8, <2>9, Zenon
<1> QED
  BY <1>2, <1>3, Zenon

-----------------------------------------------------------------------------
(* What a step does not touch is kept                                      *)

LEMMA SpentSame ==
  ASSUME TypeOK, UNCHANGED spent
  PROVE  spent' \in [Kinds -> Nat] /\ spent'["tamper"] = spent["tamper"]
  BY Zenon DEF TypeOK

LEMMA SpentMore ==
  ASSUME TypeOK, NEW k \in Kinds, Spend(k)
  PROVE  /\ spent' \in [Kinds -> Nat] /\ (k # "tamper" => spent'["tamper"] = spent["tamper"])
         /\ k = "tamper" => spent'["tamper"] # 0
<1>1. spent \in [Kinds -> Nat] /\ spent' = [spent EXCEPT ![k] = spent[k] + 1]
  BY Zenon DEF TypeOK, Spend
<1>2. spent[k] + 1 \in Nat /\ spent[k] + 1 # 0 /\ "tamper" \in Kinds
  BY <1>1 DEF Kinds
<1> QED
  BY <1>1, <1>2, Zenon

LEMMA BitsKept ==
  ASSUME NEW p, NEW q, SameBits(q, p)
  PROVE  (ProgInv(p) => ProgInv(q)) /\ Snapshot(q) = Snapshot(p) /\ \A v : Bound(v, p) => Bound(v, q)
<1>1. q.id = p.id /\ q.done = p.done /\ q.pending = p.pending /\ q.validator = p.validator
  BY Zenon DEF SameBits
<1>2. \A v : Bound(v, p) => Bound(v, q)
  BY <1>1, Zenon DEF Bound
<1>3. ProgInv(p) => ProgInv(q)
  BY <1>1, <1>2, Zenon DEF ProgInv
<1> QED
  BY <1>1, <1>2, <1>3, Zenon DEF Snapshot

LEMMA GenKept ==
  ASSUME GenInv, UNCHANGED <<side, safeSide, kept>>, SameBits(prog', prog),
         want' = want \/ want' = Unverified \/ Etags,
         \A i \in Parts : pc'[i] \in {"body", "writing"} =>
            pc[i] \in {"body", "writing"} /\ got'[i] = got[i],
         step' = "publish" => step = "publish",
         Working' \/ phase' = "settling" => Working \/ phase = "settling"
  PROVE  GenInv'
<1>1. ProgInv(prog') /\ Snapshot(prog') = Snapshot(prog) /\ prog'.id = prog.id
      /\ \A v : Bound(v, prog) => Bound(v, prog')
  BY BitsKept, Zenon DEF GenInv, SameBits
<1>2. GotInv'
  BY <1>1, Zenon DEF GenInv, GotInv
<1>3. SideInv(side') /\ SideInv(safeSide') /\ SideInv(kept')
  BY Zenon DEF GenInv
<1>4. step' = "publish" => side' = Encode(prog'.id, Snapshot(prog'))
  BY <1>1, Zenon DEF GenInv
<1>5. (Working \/ phase = "settling")' => kept'.id \in {NoIdentity, prog'.id}
  BY <1>1, Zenon DEF GenInv
<1> QED
  BY <1>1, <1>2, <1>3, <1>4, <1>5, Zenon DEF GenInv

LEMMA DiskKept ==
  ASSUME DiskInv, UNCHANGED <<file, safe, orphan>>, SameBits(prog', prog),
         phase' = "loaded" => phase = "loaded", Working' => Working,
         step' \in {"persist", "publish"} => step \in {"persist", "publish"},
         step' = "stage" => step = "stage" /\ holder' = holder /\ got'[holder] = got[holder]
  PROVE  DiskInv'
<1>1. prog'.done = prog.done /\ prog'.pending = prog.pending
  BY Zenon DEF SameBits
<1>2. orphan' = NoFile
  BY Zenon DEF DiskInv
<1>3. phase' = "loaded" =>
         Has(file', prog'.done) /\ (prog'.done # NoParts => file'.len = Total)
  BY <1>1, Zenon DEF DiskInv
<1>4. Working' => /\ file'.len = Total /\ safe'.len = Total
                  /\ Has(file', prog'.done) /\ Has(safe', prog'.done) /\ Has(file', prog'.pending)
                  /\ step' \in {"persist", "publish"} => Has(safe', prog'.pending)
                  /\ step' = "stage" => file'.body[holder'] = got'[holder']
  BY <1>1, Zenon DEF DiskInv
<1> QED
  BY <1>2, <1>3, <1>4, Zenon DEF DiskInv

LEMMA KeptKept ==
  ASSUME KeptInv, UNCHANGED <<file, safe, side, safeSide, kept>>, SameBits(prog', prog),
         phase' = "loaded" => phase = "loaded", Working' => Working
  PROVE  KeptInv'
<1>1. Snapshot(prog') = Snapshot(prog) /\ prog'.done = prog.done /\ prog'.id = prog.id
  BY BitsKept, Zenon DEF SameBits
<1> QED
  BY <1>1, Zenon DEF KeptInv

LEMMA Same == SameBits(prog, prog)
  BY Zenon DEF SameBits

\* A step that leaves the disk and the bits alone.
LEMMA QuietKeeps ==
  ASSUME IInv, TypeOK', BarrierInv', StagedInv',
         UNCHANGED <<side, safeSide, kept, file, safe, orphan>>, SameBits(prog', prog),
         want' = want \/ want' = Unverified \/ Etags,
         \A i \in Parts : pc'[i] \in {"body", "writing"} =>
            pc[i] \in {"body", "writing"} /\ got'[i] = got[i],
         step' \in {"persist", "publish", "stage"} => step' = step /\ holder' = holder,
         Working' => Working, phase' = "settling" => phase = "settling" \/ Working,
         phase' = "loaded" => phase = "loaded", phase' = "done" => phase = "done",
         spent'["tamper"] = spent["tamper"]
  PROVE  IInv'
<1>1. GenInv'
  <2>1. Working' \/ phase' = "settling" => Working \/ phase = "settling"
    BY Zenon
  <2>2. step' = "publish" => step = "publish"
    BY Zenon
  <2>3. GenInv
    BY Zenon DEF IInv
  <2> QED
    BY <2>1, <2>2, <2>3, GenKept, Zenon
<1>2. CompletesWhole'
  BY Zenon DEF IInv, CompletesWhole
<1>3. ASSUME spent["tamper"] = 0 PROVE DiskInv' /\ KeptInv'
  <2>1. DiskInv /\ KeptInv
    BY <1>3, Zenon DEF IInv
  <2>2. step' \in {"persist", "publish"} => step \in {"persist", "publish"}
    BY Zenon
  <2>3. step' = "stage" => step = "stage" /\ holder' = holder /\ got'[holder] = got[holder]
    <3>1. step' = "stage" => holder' \in Parts /\ pc'[holder'] = "writing"
      BY HolderNames DEF BarrierInv, TypeOK
    <3> QED
      BY <3>1, Zenon
  <2> QED
    BY <2>1, <2>2, <2>3, DiskKept, KeptKept, Zenon
<1> QED
  BY <1>1, <1>2, <1>3, Zenon DEF IInv

-----------------------------------------------------------------------------
(* Prepare                                                                 *)

LEMMA HeadKeeps ==
  ASSUME Constants, IInv, Head
  PROVE  IInv'
<1>1. /\ phase \in {"idle", "done"} /\ phase' = "headed" /\ start' = file.len
      /\ want' = IF Heads /\ Etags THEN remote ELSE Unverified
      /\ UNCHANGED <<remote, file, safe, side, safeSide, orphan, kept, prog, pc, got, holder, step,
                     timers>>
  BY Zenon DEF Head, diskVars
<1>2. spent' \in [Kinds -> Nat] /\ spent'["tamper"] = spent["tamper"]
  <2>1. "run" \in Kinds /\ "run" # "tamper" /\ Spend("run")
    BY DEF Kinds, Head
  <2> QED
    BY <2>1, SpentMore, Zenon DEF IInv
<1>3. TypeOK'
  <2>1. phase' \in Phases /\ start' \in Nat /\ want' \in Ids
    BY <1>1 DEF Phases, IInv, TypeOK, Files, Ids
  <2> QED
    BY <1>1, <1>2, <2>1, Zenon DEF IInv, TypeOK
<1>4. ~Working /\ ~Working' /\ phase' # "settling" /\ phase # "settling" /\ phase' # "loaded"
      /\ phase' # "done"
  BY <1>1 DEF Working
<1>5. BarrierInv'
  BY <1>1, <1>4, HolderNames, Zenon DEF IInv, BarrierInv, Flying
<1>6. StagedInv'
  BY <1>1, Zenon DEF IInv, StagedInv, Unstaged
<1>7. SameBits(prog', prog)
  BY <1>1, Zenon DEF SameBits
<1> QED
  BY <1>1, <1>2, <1>3, <1>4, <1>5, <1>6, <1>7, QuietKeeps, Zenon

\* Loading makes a progress of the sidecar that is true of the file.
LEMMA LoadKeeps ==
  ASSUME Constants, IInv, Load
  PROVE  IInv'
<1>1. /\ phase = "headed" /\ phase' = "loaded" /\ prog' = LoadProgress(want)
      /\ UNCHANGED <<remote, file, safe, side, safeSide, orphan, kept, start, want, pc, got, holder,
                     step, timers, spent>>
  BY Zenon DEF Load, diskVars
<1>2. want \in Ids /\ TypeOK
  BY Zenon DEF IInv, TypeOK
<1> DEFINE q == LoadProgress(want)
<1>3. /\ q \in Progs /\ q.id = want /\ q.validator = want /\ q.pending = NoParts /\ ~q.armed
      /\ \A i \in Parts : q.done[i] # Hole =>
            /\ want # Unverified /\ file.len = Total /\ side.id = want
            /\ q.done[i] = side.done[i] /\ q.done[i] = file.body[i]
      /\ want # Unverified /\ file.len = Total /\ side.id = want =>
            \A i \in Parts : side.done[i] = file.body[i] => q.done[i] = side.done[i]
  BY <1>2, LoadFacts, Zenon
<1> HIDE DEF q
<1>4. prog' = q
  BY <1>1, Zenon DEF q
<1>5. TypeOK'
  <2>1. phase' \in Phases
    BY <1>1 DEF Phases
  <2> QED
    BY <1>1, <1>2, <1>3, <1>4, <2>1, Zenon DEF TypeOK
<1>6. /\ ~Working /\ ~Working' /\ phase' # "settling" /\ phase # "settling" /\ phase' # "done"
      /\ \A i \in Parts : ~Flying(i)
      /\ holder = Nobody
  BY <1>1 DEF Working, IInv, BarrierInv
<1>7. BarrierInv'
  BY <1>1, <1>3, <1>4, <1>6, HolderNames, Zenon DEF IInv, BarrierInv, Flying
<1>8. StagedInv'
  BY <1>1, <1>3, <1>4, <1>6, HolderNames, NoPartsType, Zenon DEF StagedInv, Unstaged, Flying
<1>9. GenInv'
  <2>1. want # Unverified => Etags /\ want \in Gen
    BY <1>2, Zenon DEF IInv, GenInv, Ids
  <2>2. ProgInv(q)
    <3>1. ASSUME NEW i \in Parts, q.done[i] # Hole PROVE Bound(q.done[i], q)
      <4>1. q.done[i] = want /\ want \in Gen /\ Etags
        BY <1>3, <2>1, <3>1, Zenon DEF IInv, GenInv, SideInv
      <4> QED
        BY <1>3, <4>1, Zenon DEF Bound
    <3>2. \A i \in Parts : q.pending[i] = Hole
      BY <1>3, NoPartsType, Zenon
    <3> QED
      BY <1>3, <2>1, <3>1, <3>2, Zenon DEF ProgInv
  <2>3. GotInv'
    BY <1>1, <1>6, Zenon DEF GotInv, Flying
  <2>4. step # "publish"
    BY <1>6 DEF IInv, BarrierInv
  <2> QED
    BY <1>1, <1>4, <1>6, <2>1, <2>2, <2>3, <2>4, Zenon DEF IInv, GenInv
<1>10. CompletesWhole'
  BY <1>6, Zenon DEF CompletesWhole
<1>11. ASSUME spent["tamper"] = 0 PROVE DiskInv' /\ KeptInv'
  <2>1. DiskInv /\ KeptInv
    BY <1>11, Zenon DEF IInv
  <2>2. Has(file, q.done)
    BY <1>3, Zenon DEF Has
  <2>3. q.done # NoParts => file.len = Total
    <3>1. q.done \in [Parts -> Cells]
      BY <1>3 DEF Progs, Grids
    <3>2. ASSUME \A i \in Parts : q.done[i] = Hole PROVE q.done = NoParts
      BY <3>1, <3>2, Zenon DEF NoParts
    <3> QED
      BY <1>3, <3>2, Zenon
  <2>4. DiskInv'
    BY <1>1, <1>4, <1>6, <2>1, <2>2, <2>3, Zenon DEF DiskInv
  <2>5. KeptInv'
    <3>1. ASSUME kept.id \in Gen, want = kept.id PROVE Covers(side.done, q.done)
      <4>1. /\ file.len = Total /\ side.id = kept.id /\ Has(file, side.done) /\ want # Unverified
        BY <2>1, <3>1, GenNames, Zenon DEF KeptInv
      <4> QED
        BY <1>3, <3>1, <4>1, Zenon DEF Covers, Has
    <3> QED
      BY <1>1, <1>3, <1>4, <1>6, <2>1, <3>1, Zenon DEF KeptInv
  <2> QED
    BY <2>4, <2>5
<1> QED
  BY <1>1, <1>5, <1>7, <1>8, <1>9, <1>10, <1>11, Zenon DEF IInv

\* Nothing is bound to a grid without bits.
LEMMA NoBits ==
  ASSUME Constants, NEW f
  PROVE  Has(f, NoParts)
  BY NoPartsType, Zenon DEF Has

\* The lock makes the file that was looked at the target of the run, and
\* forgets the checkpoint of another generation.
LEMMA LockTargetKeeps ==
  ASSUME Constants, IInv, LockTarget
  PROVE  IInv'
<1>1. /\ phase = "loaded" /\ phase' \in {"running", "settling"}
      /\ orphan' = NoFile /\ kept' = (IF prog.id = kept.id THEN kept ELSE NoSidecar)
      /\ pc' = [i \in Parts |-> "todo"] /\ got' = NoParts
      /\ UNCHANGED <<remote, side, safeSide, start, want, prog, holder, step, timers>>
  BY Zenon DEF LockTarget
<1>2. /\ file' \in {file, SetLen(file, Total)}
      /\ safe' = safe \/ (file' = SetLen(file, Total) /\ safe' = SetLen(file, Total))
      /\ phase' = "running" => file' = SetLen(file, Total) /\ safe' = SetLen(file, Total)
  BY DEF LockTarget
<1>3. spent' \in [Kinds -> Nat] /\ spent'["tamper"] = spent["tamper"]
  <2>1. "fault" \in Kinds /\ "fault" # "tamper"
    BY DEF Kinds
  <2>2. UNCHANGED spent \/ Spend("fault")
    BY Zenon DEF LockTarget
  <2> QED
    BY <2>1, <2>2, SpentSame, SpentMore, Zenon DEF IInv
<1>4. /\ SetLen(file, Total) \in Files /\ SetLen(file, Total).len = Total
      /\ file.len = Total => SetLen(file, Total).body = file.body
  BY SetLenFacts, Zenon DEF IInv, TypeOK, Constants
<1>5. kept' \in Sides /\ kept'.id \in {NoIdentity, prog.id} /\ (kept'.id \in Gen => kept' = kept /\ prog.id = kept.id)
  <2>1. NoSidecar \in Sides /\ NoSidecar.id = NoIdentity /\ NoIdentity \notin Gen
    BY NoFileFacts, GenNames, Zenon DEF Ids
  <2> QED
    BY <1>1, <2>1, Zenon DEF IInv, TypeOK
<1>6. /\ \A i \in Parts : pc'[i] = "todo"
      /\ pc' \in [Parts -> States] /\ got' \in Grids /\ phase' \in Phases
  <2>1. "todo" \in States /\ phase' \in Phases
    BY <1>1 DEF States, Phases
  <2> QED
    BY <1>1, <2>1, NoPartsType, Zenon
<1>7. TypeOK'
  <2>1. file' \in Files /\ safe' \in Files /\ orphan' \in Files
    BY <1>1, <1>2, <1>4, NoFileFacts, Zenon DEF IInv, TypeOK
  <2> QED
    BY <1>1, <1>3, <1>5, <1>6, <2>1, Zenon DEF IInv, TypeOK
<1>8. /\ ~Working /\ holder = Nobody /\ step = "none" /\ ~prog.armed /\ prog.pending = NoParts
  BY <1>1 DEF Working, IInv, BarrierInv
<1>9. \A i \in Parts : ~Flying(i)' /\ ~Unstaged(i)' /\ pc'[i] \notin {"writing", "body"}
  BY <1>1, <1>6, <1>8, HolderNames DEF Flying, Unstaged
<1>10. BarrierInv'
  BY <1>1, <1>6, <1>8, <1>9, HolderNames, Zenon DEF BarrierInv
<1>11. StagedInv'
  BY <1>1, <1>8, <1>9, NoPartsType, Zenon DEF StagedInv
<1>12. GenInv'
  <2>1. ProgInv(prog') /\ (want' # Unverified => Etags) /\ SideInv(side') /\ SideInv(safeSide')
    BY <1>1, Zenon DEF IInv, GenInv
  <2>2. SideInv(kept')
    BY <1>5, Zenon DEF SideInv, IInv, GenInv
  <2>3. GotInv'
    BY <1>9, Zenon DEF GotInv
  <2>4. step' # "publish"
    BY <1>1, <1>8
  <2> QED
    BY <1>1, <1>5, <2>1, <2>2, <2>3, <2>4, Zenon DEF GenInv
<1>13. CompletesWhole'
  BY <1>1 DEF CompletesWhole
<1>14. ASSUME spent["tamper"] = 0 PROVE DiskInv' /\ KeptInv'
  <2>1. DiskInv /\ KeptInv
    BY <1>14, Zenon DEF IInv
  <2>2. ASSUME prog.done # NoParts PROVE file.len = Total
    BY <1>1, <2>1, <2>2, Zenon DEF DiskInv
  <2>3. ASSUME NEW f \in {file, SetLen(file, Total)} PROVE Has(f, prog.done)
    <3>1. CASE prog.done = NoParts
      BY <3>1, NoBits, Zenon
    <3>2. CASE prog.done # NoParts
      BY <1>1, <1>4, <2>1, <2>2, <2>3, <3>2, Zenon DEF DiskInv, Has
    <3> QED
      BY <3>1, <3>2, Zenon
  <2>4. Has(file', NoParts)
    BY NoBits, Zenon
  <2>5. ASSUME Working'
        PROVE  /\ file'.len = Total /\ safe'.len = Total
               /\ Has(file', prog.done) /\ Has(safe', prog.done) /\ Has(file', prog.pending)
    <3>1. phase' = "running"
      BY <1>1, <2>5 DEF Working
    <3> QED
      BY <1>2, <1>4, <1>8, <2>3, <2>4, <3>1, Zenon
  <2>6. step' \notin {"persist", "publish", "stage"} /\ phase' # "loaded"
    BY <1>1, <1>8
  <2>7. DiskInv'
    BY <1>1, <2>5, <2>6, Zenon DEF DiskInv
  <2>8. KeptInv'
    <3> SUFFICES ASSUME kept'.id \in Gen PROVE KeptInv'
      BY Zenon DEF KeptInv
    <3>1. /\ kept' = kept /\ prog.id = kept.id /\ kept.id \in Gen
          /\ file.len = Total /\ safe.len = Total /\ side.id = kept.id /\ safeSide.id = kept.id
          /\ Has(file, side.done) /\ Has(safe, side.done)
          /\ Has(file, safeSide.done) /\ Has(safe, safeSide.done)
          /\ Covers(kept.done, safeSide.done) /\ Covers(safeSide.done, side.done)
          /\ Covers(side.done, prog.done)
      BY <1>1, <1>5, <2>1, Zenon DEF KeptInv
    <3>2. /\ file'.len = Total /\ safe'.len = Total
          /\ file'.body = file.body /\ safe'.body \in {safe.body, file.body}
      BY <1>2, <1>4, <3>1, Zenon
    <3>3. /\ Has(file', side.done) /\ Has(safe', side.done)
          /\ Has(file', safeSide.done) /\ Has(safe', safeSide.done)
      BY <3>1, <3>2, Zenon DEF Has
    <3>4. Covers(side.done, Snapshot(prog))
      BY <3>1, SnapshotFacts, Zenon DEF Covers, IInv, TypeOK
    <3> QED
      BY <1>1, <2>6, <3>1, <3>2, <3>3, <3>4, Zenon DEF KeptInv
  <2> QED
    BY <2>7, <2>8
<1> QED
  BY <1>3, <1>7, <1>10, <1>11, <1>12, <1>13, <1>14, Zenon DEF IInv

-----------------------------------------------------------------------------
(* Parts                                                                   *)

\* The other parts stay as they are.
LEMMA PartMoves ==
  ASSUME TypeOK, NEW i \in Parts, NEW s \in States, pc' = [pc EXCEPT ![i] = s]
  PROVE  pc' \in [Parts -> States] /\ pc'[i] = s /\ \A j \in Parts \ {i} : pc'[j] = pc[j]
  BY Zenon DEF TypeOK

LEMMA DispatchKeeps ==
  ASSUME Constants, IInv, Dispatch
  PROVE  IInv'
<1>1. PICK i \in Todo : pc' = [pc EXCEPT ![i] = IF IsDone(prog, i) THEN "ok" ELSE "asked"]
  BY Zenon DEF Dispatch
<1>2. /\ phase = "running" /\ ~Ending
      /\ UNCHANGED <<remote, file, safe, side, safeSide, orphan, kept, phase, start, want, prog, got,
                     holder, step, timers, spent>>
  BY Zenon DEF Dispatch, diskVars
<1>3. i \in Parts /\ pc[i] = "todo"
  BY <1>1, Zenon DEF Todo
<1>4. PICK s \in {"ok", "asked"} : s = (IF IsDone(prog, i) THEN "ok" ELSE "asked")
  BY Zenon
<1>5. s \in States
  BY <1>4 DEF States
<1>6. pc' \in [Parts -> States] /\ pc'[i] = s /\ \A j \in Parts \ {i} : pc'[j] = pc[j]
  BY <1>1, <1>3, <1>4, <1>5, PartMoves, Zenon DEF IInv
<1>7. TypeOK'
  BY <1>2, <1>6, Zenon DEF IInv, TypeOK
<1>8. Working /\ holder # Settler /\ holder # Finisher /\ Working'
  BY <1>2, <1>3 DEF Working, IInv, BarrierInv
<1>9. \A j \in Parts : pc'[j] = "writing" <=> pc[j] = "writing"
  BY <1>3, <1>4, <1>6
<1>10. BarrierInv'
  BY <1>2, <1>8, <1>9, Zenon DEF IInv, BarrierInv, Working
<1>11. StagedInv'
  <2>1. holder # i
    BY <1>3 DEF IInv, BarrierInv
  <2>2. prog.pending[i] = Hole /\ (s = "asked" => prog.done[i] = Hole)
    <3>1. prog.pending[i] = Hole
      BY <1>3, Zenon DEF IInv, StagedInv
    <3> QED
      BY <1>4, <3>1 DEF IsDone
  <2>3. ASSUME NEW j \in Parts
        PROVE  /\ Unstaged(j)' => prog.done[j] = Hole /\ prog.pending[j] = Hole
               /\ pc'[j] = "todo" => prog.pending[j] = Hole
    <3>1. CASE j = i
      BY <1>2, <1>4, <1>6, <2>1, <2>2, <3>1 DEF Unstaged
    <3>2. CASE j # i
      <4>1. (Unstaged(j)' <=> Unstaged(j)) /\ pc'[j] = pc[j]
        BY <1>2, <1>6, <3>2, Zenon DEF Unstaged
      <4> QED
        BY <4>1, Zenon DEF IInv, StagedInv
    <3> QED
      BY <3>1, <3>2, Zenon
  <2> QED
    BY <1>2, <2>3, Zenon DEF StagedInv
<1>12. \A j \in Parts : pc'[j] \in {"body", "writing"} => pc[j] \in {"body", "writing"}
  BY <1>4, <1>6
<1> QED
  BY <1>2, <1>7, <1>8, <1>10, <1>11, <1>12, Same, QuietKeeps, Zenon

\* The first response binds a download without a generation to its own.
LEMMA RespondKeeps ==
  ASSUME Constants, IInv, NEW i \in Parts, Respond(i)
  PROVE  IInv'
<1>1. /\ pc[i] = "asked"
      /\ UNCHANGED <<remote, file, safe, side, safeSide, orphan, kept, phase, start, want, holder, step,
                     timers, spent>>
  BY Zenon DEF Respond, diskVars
<1>2. Working /\ Working' /\ holder # i /\ holder # Settler /\ holder # Finisher
  BY <1>1 DEF IInv, BarrierInv, Flying, Working
<1>3. prog.done[i] = Hole /\ prog.pending[i] = Hole
  <2>1. Unstaged(i)
    BY <1>1 DEF Unstaged
  <2> QED
    BY <2>1, Zenon DEF IInv, StagedInv
<1>4. CASE ~Acceptable(remote)
  <2>1. pc' = [pc EXCEPT ![i] = "failed"] /\ got' = got /\ prog' = prog /\ "failed" \in States
    BY <1>4 DEF Respond, States
  <2>2. pc' \in [Parts -> States] /\ pc'[i] = "failed" /\ \A j \in Parts \ {i} : pc'[j] = pc[j]
    BY <2>1, PartMoves, Zenon DEF IInv
  <2>3. TypeOK'
    BY <1>1, <2>1, <2>2, Zenon DEF IInv, TypeOK
  <2>4. \A j \in Parts : pc'[j] = "writing" <=> pc[j] = "writing"
    BY <1>1, <2>2
  <2>5. BarrierInv'
    BY <1>1, <1>2, <2>1, <2>4, Zenon DEF IInv, BarrierInv, Working
  <2>6. StagedInv'
    BY <1>1, <1>2, <1>3, <2>1, <2>2, Zenon DEF IInv, StagedInv, Unstaged
  <2>7. \A j \in Parts : pc'[j] \in {"body", "writing"} => pc[j] \in {"body", "writing"}
    BY <2>2
  <2>8. SameBits(prog', prog)
    BY <2>1, Zenon DEF SameBits
  <2> QED
    BY <1>1, <1>2, <2>1, <2>3, <2>5, <2>6, <2>7, <2>8, QuietKeeps, Zenon
<1>5. CASE Acceptable(remote)
  <2>1. /\ pc' = [pc EXCEPT ![i] = "body"] /\ got' = [got EXCEPT ![i] = remote] /\ "body" \in States
        /\ prog' = [prog EXCEPT !.validator = IF Etags THEN remote ELSE prog.validator]
    BY <1>5 DEF Respond, States
  <2>2. pc' \in [Parts -> States] /\ pc'[i] = "body" /\ \A j \in Parts \ {i} : pc'[j] = pc[j]
    BY <2>1, PartMoves, Zenon DEF IInv
  <2>3. remote \in Gen /\ remote \in Cells /\ remote \in Ids
    BY GenNames, Zenon DEF IInv, TypeOK, Ids
  <2>4. got' \in Grids /\ got'[i] = remote /\ \A j \in Parts \ {i} : got'[j] = got[j]
    <3>1. got \in [Parts -> Cells]
      BY Zenon DEF IInv, TypeOK, Grids
    <3> QED
      BY <2>1, <2>3, <3>1, Zenon DEF Grids
  <2>5. /\ prog' \in Progs /\ prog'.id = prog.id /\ prog'.done = prog.done
        /\ prog'.pending = prog.pending /\ prog'.armed = prog.armed
        /\ prog'.validator = IF Etags THEN remote ELSE prog.validator
    BY <2>1, <2>3 DEF IInv, TypeOK, Progs
  <2>6. TypeOK'
    BY <1>1, <2>2, <2>4, <2>5, Zenon DEF IInv, TypeOK
  <2>7. \A j \in Parts : pc'[j] = "writing" <=> pc[j] = "writing"
    BY <1>1, <2>2
  <2>8. BarrierInv'
    BY <1>1, <1>2, <2>5, <2>7, Zenon DEF IInv, BarrierInv, Working
  <2>9. StagedInv'
    BY <1>1, <1>2, <1>3, <2>2, <2>5, Zenon DEF IInv, StagedInv, Unstaged
  <2>10. Etags => prog.validator = Unverified \/ prog.validator = remote
    BY <1>5, Zenon DEF Acceptable
  <2>11. \A v : Bound(v, prog) => Bound(v, prog')
    <3>1. Unverified \notin Gen
      BY GenNames, Zenon
    <3> QED
      BY <2>5, <2>10, <3>1, Zenon DEF Bound
  <2>12. ProgInv(prog')
    <3>1. prog.id # Unverified => Etags /\ prog'.validator = prog.id
      BY <2>5, <2>10, Zenon DEF IInv, GenInv, ProgInv
    <3>2. ~Etags => prog'.validator = Unverified
      BY <2>5, Zenon DEF IInv, GenInv, ProgInv
    <3> QED
      BY <2>5, <2>11, <3>1, <3>2, Zenon DEF IInv, GenInv, ProgInv
  <2>13. GotInv'
    <3>1. Bound(remote, prog')
      BY <1>5, <2>3, <2>5, Zenon DEF Bound, Acceptable
    <3> QED
      BY <2>2, <2>4, <2>11, <3>1, Zenon DEF IInv, GenInv, GotInv
  <2>14. Snapshot(prog') = Snapshot(prog)
    BY <2>5, Zenon DEF Snapshot
  <2>15. GenInv'
    BY <1>1, <1>2, <2>5, <2>12, <2>13, <2>14, Zenon DEF IInv, GenInv, Working
  <2>16. CompletesWhole'
    BY <1>1, Zenon DEF IInv, CompletesWhole
  <2>17. ASSUME spent["tamper"] = 0 PROVE DiskInv' /\ KeptInv'
    <3>1. DiskInv /\ KeptInv
      BY <2>17, Zenon DEF IInv
    <3>2. DiskInv'
      <4>1. step = "stage" => holder \in Parts
        BY HolderNames DEF IInv, BarrierInv, TypeOK
      <4>2. step = "stage" => got'[holder] = got[holder]
        BY <1>2, <2>4, <4>1, Zenon
      <4> QED
        BY <1>1, <1>2, <2>5, <3>1, <4>2, Zenon DEF DiskInv, Working
    <3>3. KeptInv'
      BY <1>1, <2>5, <2>14, <3>1, Zenon DEF KeptInv, Working
    <3> QED
      BY <3>2, <3>3
  <2> QED
    BY <1>1, <2>6, <2>8, <2>9, <2>15, <2>16, <2>17, Zenon DEF IInv
<1> QED
  BY <1>4, <1>5, Zenon

\* A body that breaks off is forgotten.
LEMMA BodyFailsKeeps ==
  ASSUME Constants, IInv, NEW i \in Parts, BodyFails(i)
  PROVE  IInv'
<1>1. /\ pc[i] = "body" /\ Spend("retry")
      /\ pc' = [pc EXCEPT ![i] = "asked"] /\ got' = [got EXCEPT ![i] = Hole]
      /\ UNCHANGED <<remote, file, safe, side, safeSide, orphan, kept, phase, start, want, prog, holder,
                     step, timers>>
  BY Zenon DEF BodyFails, diskVars
<1>2. spent' \in [Kinds -> Nat] /\ spent'["tamper"] = spent["tamper"]
  <2>1. "retry" \in Kinds /\ "retry" # "tamper"
    BY DEF Kinds
  <2> QED
    BY <1>1, <2>1, SpentMore, Zenon DEF IInv
<1>3. "asked" \in States
  BY DEF States
<1>4. pc' \in [Parts -> States] /\ pc'[i] = "asked" /\ \A j \in Parts \ {i} : pc'[j] = pc[j]
  BY <1>1, <1>3, PartMoves, Zenon DEF IInv
<1>5. got' \in Grids /\ \A j \in Parts \ {i} : got'[j] = got[j]
  <2>1. got \in [Parts -> Cells] /\ Hole \in Cells
    BY GenNames, Zenon DEF IInv, TypeOK, Grids
  <2> QED
    BY <1>1, <2>1, Zenon DEF Grids
<1>6. TypeOK'
  BY <1>1, <1>2, <1>4, <1>5, Zenon DEF IInv, TypeOK
<1>7. Working /\ Working' /\ holder # i /\ holder # Settler /\ holder # Finisher
  BY <1>1 DEF IInv, BarrierInv, Flying, Working
<1>8. \A j \in Parts : pc'[j] = "writing" <=> pc[j] = "writing"
  BY <1>1, <1>4
<1>9. BarrierInv'
  BY <1>1, <1>7, <1>8, Zenon DEF IInv, BarrierInv, Working
<1>10. \A j \in Parts : (Unstaged(j)' => Unstaged(j)) /\ (pc'[j] = "todo" => pc[j] = "todo")
  BY <1>1, <1>4 DEF Unstaged
<1>11. StagedInv'
  BY <1>1, <1>10, Zenon DEF IInv, StagedInv
<1>12. \A j \in Parts : pc'[j] \in {"body", "writing"} =>
          pc[j] \in {"body", "writing"} /\ got'[j] = got[j]
  BY <1>4, <1>5
<1> QED
  BY <1>1, <1>2, <1>6, <1>7, <1>9, <1>11, <1>12, Same, QuietKeeps, Zenon

LEMMA TakeBarrierKeeps ==
  ASSUME Constants, IInv, NEW i \in Parts, TakeBarrier(i)
  PROVE  IInv'
<1>1. /\ pc[i] = "body" /\ holder = Nobody /\ pc' = [pc EXCEPT ![i] = "writing"]
      /\ holder' = i /\ step' = "write"
      /\ UNCHANGED <<remote, file, safe, side, safeSide, orphan, kept, phase, start, want, prog, got,
                     timers, spent>>
  BY Zenon DEF TakeBarrier, diskVars
<1>2. "writing" \in States /\ "write" \in StepNames
  BY DEF States, StepNames
<1>3. pc' \in [Parts -> States] /\ pc'[i] = "writing" /\ \A j \in Parts \ {i} : pc'[j] = pc[j]
  BY <1>1, <1>2, PartMoves, Zenon DEF IInv
<1>4. TypeOK'
  BY <1>1, <1>2, <1>3, Zenon DEF IInv, TypeOK
<1>5. Working /\ Working' /\ \A j \in Parts : pc[j] # "writing"
  BY <1>1, HolderNames DEF IInv, BarrierInv, Flying, Working
<1>6. \A j \in Parts : pc'[j] = "writing" <=> holder' = j
  BY <1>1, <1>3, <1>5, Zenon
<1>7. BarrierInv'
  BY <1>1, <1>5, <1>6, HolderNames DEF BarrierInv, Working
<1>8. \A j \in Parts : (Unstaged(j)' => Unstaged(j)) /\ (pc'[j] = "todo" => pc[j] = "todo")
  BY <1>1, <1>3 DEF Unstaged
<1>9. StagedInv'
  BY <1>1, <1>8, Zenon DEF IInv, StagedInv
<1>10. \A j \in Parts : pc'[j] \in {"body", "writing"} =>
          pc[j] \in {"body", "writing"} /\ got'[j] = got[j]
  BY <1>1, <1>3
<1>11. step' \notin {"persist", "publish", "stage"}
  BY <1>1
<1> QED
  BY <1>1, <1>4, <1>5, <1>7, <1>9, <1>10, <1>11, Same, QuietKeeps, Zenon

LEMMA StopKeeps ==
  ASSUME Constants, IInv, Stop
  PROVE  IInv'
<1>1. /\ phase = "running" /\ phase' = "draining"
      /\ UNCHANGED <<remote, file, safe, side, safeSide, orphan, kept, start, want, prog, pc, got,
                     holder, step, timers, spent>>
  BY Zenon DEF Stop, diskVars
<1>2. Working /\ Working' /\ Ending' /\ phase' \in Phases /\ phase' # "settling"
      /\ phase' # "loaded" /\ phase' # "done"
  BY <1>1 DEF Working, Ending, Phases
<1>3. TypeOK'
  BY <1>1, <1>2, Zenon DEF IInv, TypeOK
<1>4. BarrierInv'
  BY <1>1, <1>2, Zenon DEF IInv, BarrierInv, Flying
<1>5. StagedInv'
  BY <1>1, Zenon DEF IInv, StagedInv, Unstaged
<1> QED
  BY <1>1, <1>2, <1>3, <1>4, <1>5, Same, QuietKeeps, Zenon

LEMMA ChangeKeeps ==
  ASSUME Constants, IInv, Change
  PROVE  IInv'
<1>1. /\ Spend("change") /\ remote' \in Gen
      /\ UNCHANGED <<file, safe, side, safeSide, orphan, kept, phase, start, want, prog, pc, got,
                     holder, step, timers>>
  BY Zenon DEF Change, diskVars, runVars
<1>2. spent' \in [Kinds -> Nat] /\ spent'["tamper"] = spent["tamper"]
  <2>1. "change" \in Kinds /\ "change" # "tamper"
    BY DEF Kinds
  <2> QED
    BY <1>1, <2>1, SpentMore, Zenon DEF IInv
<1>3. TypeOK'
  BY <1>1, <1>2, Zenon DEF IInv, TypeOK
<1>4. BarrierInv' /\ StagedInv' /\ (Working' <=> Working)
  BY <1>1, Zenon DEF IInv, BarrierInv, StagedInv, Unstaged, Flying, Working, Ending
<1> QED
  BY <1>1, <1>2, <1>3, <1>4, Same, QuietKeeps, Zenon

\* A timer of an earlier run finds nothing armed.
LEMMA TimerFiresKeeps ==
  ASSUME Constants, IInv, TimerFires
  PROVE  IInv'
<1>1. /\ timers > 0 /\ holder = Nobody /\ timers' = timers - 1
      /\ UNCHANGED <<remote, file, safe, side, safeSide, orphan, kept, phase, start, want, pc, got,
                     spent>>
  BY Zenon DEF TimerFires, diskVars
<1>2. /\ prog' = IF prog.armed THEN Begun(prog) ELSE prog
      /\ \/ prog.armed /\ holder' = Timer /\ step' = "sync"
         \/ holder' = holder /\ step' = step
  BY Zenon DEF TimerFires
<1>3. prog' \in Progs /\ SameBits(prog', prog) /\ ~prog'.armed
  BY <1>2, BegunFacts, Same, Zenon DEF IInv, TypeOK
<1>4. timers' \in Nat /\ holder' \in Parts \cup {Nobody, Timer, Settler, Finisher} /\ step' \in StepNames
  <2>1. timers' \in Nat
    BY <1>1 DEF IInv, TypeOK
  <2>2. "sync" \in StepNames
    BY DEF StepNames
  <2> QED
    BY <1>2, <2>1, <2>2, Zenon DEF IInv, TypeOK
<1>5. TypeOK'
  BY <1>1, <1>3, <1>4, Zenon DEF IInv, TypeOK
<1>6. prog.armed => Working
  BY DEF IInv, BarrierInv
<1>7. /\ Working' <=> Working
      /\ \A i \in Parts : Flying(i)' <=> Flying(i)
      /\ prog'.pending = prog.pending /\ prog'.done = prog.done
  BY <1>1, <1>3, Zenon DEF Working, Flying, SameBits
<1>8. BarrierInv'
  <2>1. CASE prog.armed /\ holder' = Timer /\ step' = "sync"
    <3>1. \A i \in Parts : pc'[i] # "writing"
      BY <1>1, HolderNames, Zenon DEF IInv, BarrierInv
    <3>2. Working' /\ (phase' \in {"loaded", "settling"} => prog'.pending = NoParts)
      BY <1>1, <1>6, <1>7, <2>1, Zenon DEF IInv, BarrierInv
    <3> QED
      BY <2>1, <3>1, <3>2, HolderNames DEF BarrierInv
  <2>2. CASE holder' = holder /\ step' = step
    BY <1>1, <1>3, <1>7, <2>2, HolderNames, Zenon DEF IInv, BarrierInv
  <2> QED
    BY <1>2, <2>1, <2>2, Zenon
<1>9. StagedInv'
  <2>1. \A i \in Parts : Unstaged(i)' => Unstaged(i)
    BY <1>1, <1>2, HolderNames DEF Unstaged
  <2> QED
    BY <1>1, <1>7, <2>1, Zenon DEF IInv, StagedInv
<1>10. step' \in {"persist", "publish", "stage"} => step' = step /\ holder' = holder
  BY <1>2
<1> QED
  BY <1>1, <1>3, <1>5, <1>7, <1>8, <1>9, <1>10, QuietKeeps, Zenon

-----------------------------------------------------------------------------
(* The holder of the barrier                                               *)

\* The group takes the barrier when no part is in flight.
LEMMA LastCheckpointKeeps ==
  ASSUME Constants, IInv, NEW who \in {Settler, Finisher}, NEW next \in {"release", "validate"},
         LastCheckpoint(who, next), who = Settler => Ending /\ next = "release",
         who = Finisher => Working /\ next = "validate" /\ \A i \in Parts : pc[i] = "ok"
  PROVE  IInv'
<1>1. /\ InFlight = {} /\ holder = Nobody /\ holder' = who /\ prog' = Begun(prog)
      /\ step' = IF Set(prog.pending) # {} THEN "sync" ELSE next
      /\ UNCHANGED <<remote, file, safe, side, safeSide, orphan, kept, phase, start, want, pc, got,
                     timers, spent>>
  BY Zenon DEF LastCheckpoint, diskVars
<1>2. prog' \in Progs /\ SameBits(prog', prog) /\ ~prog'.armed
  BY <1>1, BegunFacts, Zenon DEF IInv, TypeOK
<1>3. step' \in {"sync", next} /\ step' \in StepNames
  BY <1>1 DEF StepNames
<1>4. TypeOK'
  BY <1>1, <1>2, <1>3, Zenon DEF IInv, TypeOK
<1>5. /\ Working' <=> Working
      /\ Ending' <=> Ending
      /\ \A i \in Parts : ~Flying(i)' /\ pc'[i] # "writing"
      /\ prog'.pending = prog.pending /\ prog'.done = prog.done
  <2>1. \A i \in Parts : ~Flying(i)
    BY <1>1, Zenon DEF InFlight, Flying
  <2>2. \A i \in Parts : pc[i] # "writing"
    BY <2>1 DEF Flying
  <2> QED
    BY <1>1, <1>2, <2>1, <2>2, Zenon DEF Working, Flying, Ending, SameBits
<1>6. BarrierInv'
  <2>1. ASSUME ~Working PROVE phase = "settling" /\ who = Settler /\ step' = "release"
    <3>1. who = Settler /\ phase = "settling" /\ next = "release"
      BY <2>1, HolderNames DEF Ending, Working
    <3>2. Set(prog.pending) = {}
      <4>1. prog.pending = NoParts
        BY <3>1 DEF IInv, BarrierInv
      <4> QED
        BY <4>1, NoPartsType, Zenon DEF Set
    <3> QED
      BY <1>1, <3>1, <3>2, Zenon
  <2>2. phase' \in {"loaded", "settling"} => prog'.pending = NoParts
    BY <1>1, <1>5, Zenon DEF IInv, BarrierInv
  <2>3. who \notin Parts /\ who # Nobody /\ who # Timer /\ Settler # Finisher
    BY HolderNames, Zenon
  <2>4. who = Settler => step' \in {"sync", "persist", "publish", "release"} /\ Ending'
    BY <1>3, <1>5
  <2>5. who = Finisher => /\ step' \in {"sync", "persist", "publish", "validate", "abandon"}
                          /\ \A i \in Parts : pc'[i] = "ok"
    BY <1>1, <1>3
  <2>6. step' # "none"
    BY <1>3
  <2> QED
    BY <1>1, <1>2, <1>5, <2>1, <2>2, <2>3, <2>4, <2>5, <2>6, Zenon DEF BarrierInv
<1>7. StagedInv'
  <2>1. \A i \in Parts : Unstaged(i)' => Unstaged(i)
    BY <1>1, HolderNames, Zenon DEF Unstaged
  <2> QED
    BY <1>1, <1>5, <2>1, Zenon DEF IInv, StagedInv
<1>8. step' \notin {"persist", "publish", "stage"}
  BY <1>3
<1> QED
  BY <1>1, <1>2, <1>4, <1>5, <1>6, <1>7, <1>8, QuietKeeps, Zenon

LEMMA EndKeeps ==
  ASSUME Constants, IInv, Settle \/ Finalize
  PROVE  IInv'
<1>1. CASE Settle
  <2>1. Ending /\ LastCheckpoint(Settler, "release")
    BY <1>1, Zenon DEF Settle
  <2> QED
    BY <2>1, HolderNames, LastCheckpointKeeps, Zenon
<1>2. CASE Finalize
  <2>1. (\A i \in Parts : pc[i] = "ok") /\ LastCheckpoint(Finisher, "validate") /\ Working
    BY <1>2 DEF Finalize, Working
  <2> QED
    BY <2>1, HolderNames, LastCheckpointKeeps, Zenon
<1> QED
  BY <1>1, <1>2, Zenon

\* Whoever works under the barrier works for a run.
LEMMA Held ==
  ASSUME IInv
  PROVE  /\ step \in {"write", "stage", "sync", "persist", "publish", "abandon", "validate"} =>
              Working /\ holder # Nobody
         /\ step \in {"write", "stage"} => holder \in Parts /\ pc[holder] = "writing"
  BY HolderNames DEF IInv, BarrierInv, TypeOK

LEMMA ReleaseFacts ==
  ASSUME Constants, IInv, Working, NEW o \in {"ok", "failed"}, Release(o), phase' = phase
  PROVE  /\ pc' \in [Parts -> States] /\ holder' = Nobody /\ step' = "none" /\ BarrierInv'
         /\ holder' \in Parts \cup {Nobody, Timer, Settler, Finisher} /\ step' \in StepNames
         /\ \A j \in Parts : /\ pc'[j] \in {pc[j], "ok", "failed"} /\ pc'[j] # "writing"
                             /\ Unstaged(j)' => Unstaged(j)
<1>1. /\ holder' = Nobody /\ step' = "none"
      /\ pc' = IF holder \in Parts THEN [pc EXCEPT ![holder] = o] ELSE pc
  BY Zenon DEF Release
<1>2. "none" \in StepNames /\ o \in States
  BY DEF StepNames, States
<1>3. /\ pc' \in [Parts -> States]
      /\ \A j \in Parts : pc'[j] = IF j = holder THEN o ELSE pc[j]
  BY <1>1, <1>2, Zenon DEF IInv, TypeOK
<1>4. \A j \in Parts : pc'[j] # "writing" /\ pc'[j] \in {pc[j], "ok", "failed"}
  BY <1>3 DEF IInv, BarrierInv
<1>5. BarrierInv'
  BY <1>1, <1>4, HolderNames DEF BarrierInv, Working
<1>6. \A j \in Parts : Unstaged(j)' => Unstaged(j)
  BY <1>1, <1>3, HolderNames DEF Unstaged
<1> QED
  BY <1>1, <1>2, <1>3, <1>4, <1>5, <1>6, Zenon

LEMMA WriteFacts ==
  ASSUME NEW f \in Files, NEW i \in Parts, NEW c \in Cells
  PROVE  /\ WritePart(f, i, c) \in Files /\ WritePart(f, i, c).len = f.len
         /\ WritePart(f, i, c).body[i] = c
         /\ \A j \in Parts \ {i} : WritePart(f, i, c).body[j] = f.body[j]
<1> DEFINE new == [f.body EXCEPT ![i] = c]
<1>1. f.body \in [Parts -> Cells]
  BY DEF Files, Grids
<1>2. new \in Grids /\ new[i] = c /\ \A j \in Parts \ {i} : new[j] = f.body[j]
  BY <1>1, Zenon DEF Grids
<1>3. WritePart(f, i, c) = [f EXCEPT !.body = new]
  BY DEF WritePart, Files
<1> HIDE DEF new
<1>4. WritePart(f, i, c) \in Files /\ WritePart(f, i, c).len = f.len /\ WritePart(f, i, c).body = new
  BY <1>2, <1>3 DEF Files
<1> QED
  BY <1>2, <1>4, Zenon

LEMMA HasWrite ==
  ASSUME NEW f \in Files, NEW i \in Parts, NEW c \in Cells, NEW grid, grid[i] = Hole, Has(f, grid)
  PROVE  Has(WritePart(f, i, c), grid)
<1>1. \A j \in Parts \ {i} : WritePart(f, i, c).body[j] = f.body[j]
  BY WriteFacts, Zenon
<1> QED
  BY <1>1, Zenon DEF Has

\* A part writes where no bit is set, so it disturbs no bit.
LEMMA WrittenKeeps ==
  ASSUME Constants, IInv, step = "write", NEW c \in Cells,
         SetHeld(WritePart(HeldFile, holder, c)),
         UNCHANGED <<safe, side, safeSide, kept, phase, want, prog, got>>,
         step' \in {"stage", "none"}, step' = "stage" => holder' = holder /\ c = got[holder],
         \A i \in Parts : pc'[i] \in {"body", "writing"} => pc[i] \in {"body", "writing"},
         spent'["tamper"] = spent["tamper"], TypeOK', BarrierInv', StagedInv'
  PROVE  IInv'
<1>1. Working /\ Working' /\ holder \in Parts /\ phase # "loaded" /\ phase # "done"
  BY Held DEF Working
<1>2. GenInv'
  <2>1. step' # "publish" /\ SameBits(prog', prog) /\ GenInv
    BY DEF SameBits, IInv
  <2>2. \A i \in Parts : pc'[i] \in {"body", "writing"} =>
           pc[i] \in {"body", "writing"} /\ got'[i] = got[i]
    BY Zenon
  <2> QED
    BY <1>1, <2>1, <2>2, GenKept, Zenon
<1>3. CompletesWhole'
  BY <1>1, Zenon DEF CompletesWhole
<1>4. ASSUME spent["tamper"] = 0 PROVE DiskInv' /\ KeptInv'
  <2>1. DiskInv /\ KeptInv /\ file \in Files
    BY <1>4, Zenon DEF IInv, TypeOK
  <2>2. orphan' = NoFile /\ file' = WritePart(file, holder, c)
    BY <2>1, Zenon DEF SetHeld, HeldFile, DiskInv
  <2>3. file'.len = file.len /\ file'.body[holder] = c
    BY <1>1, <2>1, <2>2, WriteFacts, Zenon
  <2>4. \A grid : grid[holder] = Hole /\ Has(file, grid) => Has(file', grid)
    BY <1>1, <2>1, <2>2, HasWrite, Zenon
  <2>5. prog.done[holder] = Hole /\ prog.pending[holder] = Hole
    <3>1. Unstaged(holder)
      BY DEF Unstaged
    <3> QED
      BY <1>1, <3>1, Zenon DEF IInv, StagedInv
  <2>6. step' \notin {"persist", "publish"} /\ (step' = "stage" => file'.body[holder'] = got'[holder'])
    BY <2>3
  <2>7. DiskInv'
    BY <1>1, <2>1, <2>2, <2>3, <2>4, <2>5, <2>6, Zenon DEF DiskInv
  <2>8. KeptInv'
    <3> SUFFICES ASSUME kept.id \in Gen PROVE KeptInv'
      BY Zenon DEF KeptInv
    <3>1. Snapshot(prog)[holder] = Hole
      BY <1>1, <2>5, SnapshotFacts, Zenon DEF IInv, TypeOK
    <3>2. side.done[holder] = Hole /\ safeSide.done[holder] = Hole
      BY <1>1, <2>1, <3>1, Zenon DEF KeptInv, Covers
    <3>3. Has(file', side.done) /\ Has(file', safeSide.done)
      BY <2>1, <2>4, <3>2, Zenon DEF KeptInv
    <3> QED
      BY <1>1, <2>1, <2>3, <3>3, Zenon DEF KeptInv
  <2> QED
    BY <2>7, <2>8
<1> QED
  BY <1>2, <1>3, <1>4, Zenon DEF IInv

LEMMA HeldFileType ==
  ASSUME IInv, NEW i \in Parts, NEW c \in Cells, SetHeld(WritePart(HeldFile, i, c))
  PROVE  file' \in Files /\ orphan' \in Files
<1>1. HeldFile \in Files /\ file \in Files /\ orphan \in Files
  BY Zenon DEF HeldFile, IInv, TypeOK
<1>2. WritePart(HeldFile, i, c) \in Files
  BY <1>1, WriteFacts, Zenon
<1> QED
  BY <1>1, <1>2, Zenon DEF SetHeld

LEMMA WriteKeeps ==
  ASSUME Constants, IInv, Write
  PROVE  IInv'
<1>1. /\ step = "write"
      /\ UNCHANGED <<remote, safe, side, safeSide, kept, phase, start, want, prog, got, timers>>
  BY Zenon DEF Write
<1>2. Working /\ Working' /\ holder \in Parts /\ pc[holder] = "writing"
  BY <1>1, Held DEF Working
<1>3. got[holder] \in Cells /\ Foreign \in Cells
  BY <1>2, GenNames, Zenon DEF IInv, TypeOK, Grids
<1>4. CASE Release("failed") /\ UNCHANGED <<file, orphan, spent>>
  <2>1. /\ pc' \in [Parts -> States] /\ step' = "none" /\ BarrierInv'
        /\ holder' \in Parts \cup {Nobody, Timer, Settler, Finisher} /\ step' \in StepNames
        /\ \A j \in Parts : /\ pc'[j] \in {pc[j], "ok", "failed"} /\ pc'[j] # "writing"
                            /\ Unstaged(j)' => Unstaged(j)
    BY <1>1, <1>2, <1>4, ReleaseFacts, Zenon
  <2>2. TypeOK'
    BY <1>1, <1>4, <2>1, Zenon DEF IInv, TypeOK
  <2>3. \A j \in Parts : /\ pc'[j] = "todo" => pc[j] = "todo"
                         /\ pc'[j] \in {"body", "writing"} => pc[j] \in {"body", "writing"} /\ got'[j] = got[j]
    BY <1>1, <2>1
  <2>4. StagedInv'
    BY <1>1, <2>1, <2>3, Zenon DEF IInv, StagedInv
  <2>5. step' \notin {"persist", "publish", "stage"}
    BY <2>1
  <2>6. SameBits(prog', prog) /\ spent'["tamper"] = spent["tamper"]
    BY <1>1, <1>4, Zenon DEF SameBits
  <2> QED
    BY <1>1, <1>2, <1>4, <2>1, <2>2, <2>3, <2>4, <2>5, <2>6, QuietKeeps, Zenon
<1>5. CASE /\ SetHeld(WritePart(HeldFile, holder, got[holder]))
           /\ step' = "stage" /\ UNCHANGED <<pc, holder, spent>>
  <2>1. TypeOK'
    <3>1. "stage" \in StepNames
      BY DEF StepNames
    <3>2. file' \in Files /\ orphan' \in Files
      BY <1>2, <1>3, <1>5, HeldFileType, Zenon
    <3> QED
      BY <1>1, <1>5, <3>1, <3>2, Zenon DEF IInv, TypeOK
  <2>2. BarrierInv'
    BY <1>1, <1>2, <1>5, HolderNames DEF IInv, BarrierInv, Working
  <2>3. StagedInv'
    <3>1. \A j \in Parts : Unstaged(j)' => Unstaged(j)
      BY <1>1, <1>5 DEF Unstaged
    <3> QED
      BY <1>1, <1>5, <3>1, Zenon DEF IInv, StagedInv
  <2>4. spent'["tamper"] = spent["tamper"]
    BY <1>5, Zenon
  <2> QED
    BY <1>1, <1>3, <1>5, <2>1, <2>2, <2>3, <2>4, WrittenKeeps, Zenon
<1>6. CASE /\ SetHeld(WritePart(HeldFile, holder, Foreign))
           /\ Spend("fault") /\ Release("failed")
  <2>1. /\ pc' \in [Parts -> States] /\ step' = "none" /\ BarrierInv'
        /\ holder' \in Parts \cup {Nobody, Timer, Settler, Finisher} /\ step' \in StepNames
        /\ \A j \in Parts : /\ pc'[j] \in {pc[j], "ok", "failed"} /\ pc'[j] # "writing"
                            /\ Unstaged(j)' => Unstaged(j)
    BY <1>1, <1>2, <1>6, ReleaseFacts, Zenon
  <2>2. spent' \in [Kinds -> Nat] /\ spent'["tamper"] = spent["tamper"]
    <3>1. "fault" \in Kinds /\ "fault" # "tamper"
      BY DEF Kinds
    <3> QED
      BY <1>6, <3>1, SpentMore, Zenon DEF IInv
  <2>3. TypeOK'
    <3>1. file' \in Files /\ orphan' \in Files
      BY <1>2, <1>3, <1>6, HeldFileType, Zenon
    <3> QED
      BY <1>1, <2>1, <2>2, <3>1, Zenon DEF IInv, TypeOK
  <2>4. \A j \in Parts : /\ pc'[j] = "todo" => pc[j] = "todo"
                         /\ pc'[j] \in {"body", "writing"} => pc[j] \in {"body", "writing"}
    BY <2>1
  <2>5. StagedInv'
    BY <1>1, <2>1, <2>4, Zenon DEF IInv, StagedInv
  <2>6. step' \in {"stage", "none"} /\ step' # "stage"
    BY <2>1
  <2> QED
    BY <1>1, <1>3, <1>6, <2>1, <2>2, <2>3, <2>4, <2>5, <2>6, WrittenKeeps, Zenon
<1> QED
  BY <1>4, <1>5, <1>6, Zenon DEF Write

\* Staging adds the bit of the part that was written, as pending.
LEMMA StagedKeeps ==
  ASSUME Constants, IInv, step = "stage",
         UNCHANGED <<remote, file, safe, side, safeSide, orphan, kept, phase, start, want, got, spent>>,
         prog' \in Progs, prog'.id = prog.id, prog'.validator = prog.validator, prog'.done = prog.done,
         prog'.pending \in {prog.pending, [prog.pending EXCEPT ![holder] = got[holder]]},
         TypeOK', BarrierInv', step' \in {"sync", "none"},
         \A i \in Parts : pc'[i] \in {"body", "writing"} => pc[i] \in {"body", "writing"},
         \A i \in Parts : pc'[i] = "todo" => pc[i] = "todo",
         \A i \in Parts : Unstaged(i)' => Unstaged(i) /\ i # holder
  PROVE  IInv'
<1>1. /\ Working /\ Working' /\ holder \in Parts /\ pc[holder] = "writing"
      /\ phase # "loaded" /\ phase # "done" /\ step' \notin {"persist", "publish", "stage"}
  BY Held DEF Working
<1>2. /\ \A j \in Parts \ {holder} : prog'.pending[j] = prog.pending[j]
      /\ prog'.pending[holder] \in {prog.pending[holder], got[holder]}
  <2>1. prog.pending \in [Parts -> Cells]
    BY DEF IInv, TypeOK, Progs, Grids
  <2> QED
    BY <1>1, <2>1, Zenon
<1>3. prog.done[holder] = Hole /\ prog.pending[holder] = Hole
  <2>1. Unstaged(holder)
    BY Zenon DEF Unstaged
  <2> QED
    BY <1>1, <2>1, Zenon DEF IInv, StagedInv
<1>4. StagedInv'
  <2>1. pc[holder] # "todo"
    BY <1>1
  <2> QED
    BY <1>2, <2>1, Zenon DEF IInv, StagedInv
<1>5. GenInv'
  <2>1. \A v : Bound(v, prog) => Bound(v, prog')
    BY Zenon DEF Bound
  <2>2. Bound(got[holder], prog)
    BY <1>1, Zenon DEF IInv, GenInv, GotInv
  <2>3. ProgInv(prog')
    BY <1>2, <2>1, <2>2, Zenon DEF IInv, GenInv, ProgInv
  <2>4. GotInv'
    BY <2>1, Zenon DEF IInv, GenInv, GotInv
  <2> QED
    BY <1>1, <2>3, <2>4, Zenon DEF IInv, GenInv
<1>6. CompletesWhole'
  BY <1>1, Zenon DEF CompletesWhole
<1>7. ASSUME spent["tamper"] = 0 PROVE DiskInv' /\ KeptInv'
  <2>1. DiskInv /\ KeptInv
    BY <1>7, Zenon DEF IInv
  <2>2. Has(file, prog'.pending)
    BY <1>1, <1>2, <2>1, ZenonT(60) DEF DiskInv, Has
  <2>3. DiskInv'
    BY <1>1, <2>1, <2>2, Zenon DEF DiskInv
  <2>4. ASSUME Covers(side.done, Snapshot(prog)) PROVE Covers(side.done, Snapshot(prog'))
    <3>0. \A j \in Parts :
            /\ Snapshot(prog)[j] = IF prog.pending[j] # Hole THEN prog.pending[j] ELSE prog.done[j]
            /\ Snapshot(prog')[j] = IF prog'.pending[j] # Hole THEN prog'.pending[j] ELSE prog'.done[j]
      <4>1. prog \in Progs
        BY Zenon DEF IInv, TypeOK
      <4> QED
        BY <4>1, SnapshotFacts, Zenon
    <3>1. Snapshot(prog)[holder] = Hole
      BY <1>1, <1>3, <3>0, Zenon
    <3>2. ASSUME NEW j \in Parts \ {holder} PROVE Snapshot(prog')[j] = Snapshot(prog)[j]
      <4>1. prog'.pending[j] = prog.pending[j] /\ prog'.done[j] = prog.done[j] /\ j \in Parts
        BY <1>2, Zenon
      <4> QED
        BY <3>0, <4>1, Zenon
    <3> QED
      BY <2>4, <3>1, <3>2, Zenon DEF Covers
  <2>5. KeptInv'
    BY <1>1, <2>1, <2>4, Zenon DEF KeptInv
  <2> QED
    BY <2>3, <2>5
<1> QED
  BY <1>4, <1>5, <1>6, <1>7, Zenon DEF IInv

LEMMA StageKeeps ==
  ASSUME Constants, IInv, Stage
  PROVE  IInv'
<1>1. /\ step = "stage"
      /\ UNCHANGED <<remote, file, safe, side, safeSide, orphan, kept, phase, start, want, got, spent>>
  BY Zenon DEF Stage, diskVars
<1>2. Working /\ Working' /\ holder \in Parts /\ pc[holder] = "writing"
  BY <1>1, Held DEF Working
<1>3. PICK e \in BOOLEAN :
        LET staged == Staged(prog, holder, got[holder], e) IN
        IF CheckpointDue(prog, holder, e)
        THEN prog' = Begun(staged) /\ step' = "sync" /\ UNCHANGED <<pc, holder, timers>>
        ELSE /\ prog' = staged
             /\ timers' = timers + (IF ArmsTimer(prog, holder, e) THEN 1 ELSE 0)
             /\ Release("ok")
  BY Zenon DEF Stage
<1> DEFINE q == Staged(prog, holder, got[holder], e)
<1>4. /\ q \in Progs /\ q.id = prog.id /\ q.validator = prog.validator /\ q.done = prog.done
      /\ q.pending \in {prog.pending, [prog.pending EXCEPT ![holder] = got[holder]]}
  <2>1. got[holder] \in Cells /\ prog \in Progs
    BY <1>2, Zenon DEF IInv, TypeOK, Grids
  <2> QED
    BY <1>2, <2>1, StagedFacts
<1> HIDE DEF q
<1>5. CASE CheckpointDue(prog, holder, e)
  <2>1. prog' = Begun(q) /\ step' = "sync" /\ UNCHANGED <<pc, holder, timers>>
    BY <1>3, <1>5, Zenon DEF q
  <2>2. prog' \in Progs /\ SameBits(prog', q) /\ ~prog'.armed
    BY <1>4, <2>1, BegunFacts, Zenon
  <2>3. /\ prog'.id = prog.id /\ prog'.validator = prog.validator /\ prog'.done = prog.done
        /\ prog'.pending \in {prog.pending, [prog.pending EXCEPT ![holder] = got[holder]]}
    BY <1>4, <2>2, Zenon DEF SameBits
  <2>4. TypeOK'
    <3>1. "sync" \in StepNames
      BY DEF StepNames
    <3> QED
      BY <1>1, <2>1, <2>2, <3>1, Zenon DEF IInv, TypeOK
  <2>5. BarrierInv'
    BY <1>1, <1>2, <2>1, HolderNames DEF IInv, BarrierInv, Working
  <2>6. \A i \in Parts : Unstaged(i)' => Unstaged(i) /\ i # holder
    BY <1>2, <2>1 DEF Unstaged
  <2>7. step' \in {"sync", "none"}
    BY <2>1
  <2> QED
    BY <1>1, <2>1, <2>2, <2>3, <2>4, <2>5, <2>6, <2>7, StagedKeeps, Zenon
<1>6. CASE ~CheckpointDue(prog, holder, e)
  <2>1. /\ prog' = q /\ Release("ok")
        /\ timers' = timers + (IF ArmsTimer(prog, holder, e) THEN 1 ELSE 0)
    BY <1>3, <1>6, Zenon DEF q
  <2>2. timers' \in Nat
    BY <2>1 DEF IInv, TypeOK
  <2>3. /\ pc' \in [Parts -> States] /\ step' = "none" /\ holder' = Nobody /\ BarrierInv'
        /\ holder' \in Parts \cup {Nobody, Timer, Settler, Finisher} /\ step' \in StepNames
        /\ \A j \in Parts : /\ pc'[j] \in {pc[j], "ok", "failed"} /\ pc'[j] # "writing"
                            /\ Unstaged(j)' => Unstaged(j)
    BY <1>1, <1>2, <2>1, ReleaseFacts, Zenon
  <2>4. TypeOK'
    BY <1>1, <1>4, <2>1, <2>2, <2>3, Zenon DEF IInv, TypeOK
  <2>5. \A j \in Parts : /\ pc'[j] = "todo" => pc[j] = "todo"
                         /\ pc'[j] \in {"body", "writing"} => pc[j] \in {"body", "writing"}
    BY <2>3
  <2>6. \A i \in Parts : Unstaged(i)' => Unstaged(i) /\ i # holder
    <3> SUFFICES ASSUME NEW i \in Parts, Unstaged(i)' PROVE i # holder
      BY <2>3, Zenon
    <3>1. pc'[i] \in {"asked", "body"} \/ holder' = i
      BY Zenon DEF Unstaged
    <3> QED
      BY <1>2, <2>3, <3>1, HolderNames
  <2>7. step' \in {"sync", "none"}
    BY <2>3
  <2> QED
    BY <1>1, <1>4, <2>1, <2>3, <2>4, <2>5, <2>6, <2>7, StagedKeeps, Zenon
<1> QED
  BY <1>5, <1>6, Zenon

-----------------------------------------------------------------------------
(* Checkpoints                                                             *)

\* Where a checkpoint leaves the holder of the barrier, whether it failed or not.
LEMMA CheckpointEnds ==
  ASSUME Constants, IInv, step \in {"sync", "persist", "publish"}, CheckpointDone \/ CheckpointFails,
         phase' = phase, prog'.armed = prog.armed
  PROVE  /\ Working /\ Working' /\ pc' \in [Parts -> States]
         /\ holder' \in Parts \cup {Nobody, Timer, Settler, Finisher}
         /\ step' \in StepNames /\ step' \notin {"persist", "publish", "stage"} /\ BarrierInv'
         /\ \A j \in Parts : /\ pc'[j] \in {pc[j], "ok", "failed"}
                             /\ Unstaged(j)' => Unstaged(j)
<1>1. Working /\ Working' /\ holder # Nobody
  BY Held DEF Working
<1>2. /\ holder \in {Settler, Finisher} =>
            UNCHANGED <<holder, pc>> /\ step' \in {"release", "abandon", "validate"}
      /\ holder = Settler => step' = "release"
      /\ holder = Finisher => step' \in {"abandon", "validate"}
      /\ holder \notin {Settler, Finisher} => \E o \in {"ok", "failed"} : Release(o)
  BY HolderNames DEF CheckpointDone, CheckpointFails
<1>3. CASE holder \in {Settler, Finisher}
  <2>1. UNCHANGED <<holder, pc>> /\ step' \in {"release", "abandon", "validate"}
    BY <1>2, <1>3, Zenon
  <2>2. step' \in StepNames /\ step' \notin {"persist", "publish", "stage", "write", "none"}
    BY <2>1 DEF StepNames
  <2>3. holder \notin Parts
    BY <1>3, HolderNames
  <2>4. Ending' <=> Ending
    BY <2>1 DEF Ending
  <2>5. BarrierInv'
    <3>1. \A j \in Parts : Flying(j)' <=> Flying(j)
      BY <2>1, Zenon DEF Flying
    <3>2. /\ (holder' = Nobody <=> step' = "none") /\ holder' # Timer /\ holder' \notin Parts
          /\ holder' = Settler => step' = "release" /\ Ending'
          /\ holder' = Finisher => /\ step' \in {"abandon", "validate"}
                                   /\ \A i \in Parts : pc'[i] = "ok"
      BY <1>1, <1>2, <1>3, <2>1, <2>2, <2>3, <2>4, HolderNames DEF IInv, BarrierInv
    <3>3. \A i \in Parts : pc'[i] = "writing" <=> holder' = i
      BY <2>1, Zenon DEF IInv, BarrierInv
    <3>4. holder' \in {Settler, Finisher} => ~prog'.armed /\ \A i \in Parts : ~Flying(i)'
      BY <2>1, <3>1, Zenon DEF IInv, BarrierInv
    <3>5. phase' \notin {"loaded", "settling"}
      BY <1>1 DEF Working
    <3> QED
      BY <1>1, <3>2, <3>3, <3>4, <3>5 DEF BarrierInv
  <2>6. \A j \in Parts : Unstaged(j)' => Unstaged(j)
    BY <2>1, <2>2, Zenon DEF Unstaged
  <2>7. holder' \in Parts \cup {Nobody, Timer, Settler, Finisher} /\ pc' \in [Parts -> States]
    BY <2>1, Zenon DEF IInv, TypeOK
  <2> QED
    BY <1>1, <2>1, <2>2, <2>5, <2>6, <2>7, Zenon
<1>4. CASE holder \notin {Settler, Finisher}
  <2>1. PICK o \in {"ok", "failed"} : Release(o)
    BY <1>2, <1>4, Zenon
  <2>2. /\ pc' \in [Parts -> States] /\ holder' = Nobody /\ step' = "none" /\ BarrierInv'
        /\ holder' \in Parts \cup {Nobody, Timer, Settler, Finisher} /\ step' \in StepNames
        /\ \A j \in Parts : /\ pc'[j] \in {pc[j], "ok", "failed"} /\ pc'[j] # "writing"
                            /\ Unstaged(j)' => Unstaged(j)
    BY <1>1, <2>1, ReleaseFacts, Zenon
  <2>3. step' \notin {"persist", "publish", "stage"}
    BY <2>2
  <2> QED
    BY <1>1, <2>2, <2>3, Zenon
<1> QED
  BY <1>3, <1>4, Zenon

LEMMA CheckpointFailsKeeps ==
  ASSUME Constants, IInv, step \in {"sync", "persist", "publish"}, CheckpointFails,
         UNCHANGED <<remote, file, safe, side, safeSide, orphan, kept, phase, start, want, prog, got, timers>>
  PROVE  IInv'
<1>1. /\ Working /\ Working' /\ pc' \in [Parts -> States]
      /\ holder' \in Parts \cup {Nobody, Timer, Settler, Finisher}
      /\ step' \in StepNames /\ step' \notin {"persist", "publish", "stage"} /\ BarrierInv'
      /\ \A j \in Parts : /\ pc'[j] \in {pc[j], "ok", "failed"}
                          /\ Unstaged(j)' => Unstaged(j)
  BY CheckpointEnds, Zenon
<1>2. spent' \in [Kinds -> Nat] /\ spent'["tamper"] = spent["tamper"]
  <2>1. Spend("fault") /\ TypeOK
    BY Zenon DEF CheckpointFails, IInv
  <2>2. "fault" \in Kinds /\ "fault" # "tamper"
    BY DEF Kinds
  <2> QED
    BY <2>1, <2>2, SpentMore, Zenon
<1>3. TypeOK'
  BY <1>1, <1>2, Zenon DEF IInv, TypeOK
<1>4. \A j \in Parts : /\ pc'[j] = "todo" => pc[j] = "todo"
                       /\ pc'[j] \in {"body", "writing"} => pc[j] \in {"body", "writing"}
  BY <1>1
<1>5. StagedInv'
  BY <1>1, <1>4, Zenon DEF IInv, StagedInv
<1>6. /\ Working' => Working
      /\ phase' = "settling" => phase = "settling" \/ Working
      /\ phase' = "loaded" => phase = "loaded"
      /\ phase' = "done" => phase = "done"
  BY Zenon DEF Working
<1>7. SameBits(prog', prog) /\ want' = want
  BY Zenon DEF SameBits
<1>8. \A i \in Parts : pc'[i] \in {"body", "writing"} =>
            pc[i] \in {"body", "writing"} /\ got'[i] = got[i]
  BY <1>4, Zenon
<1>9. step' \in {"persist", "publish", "stage"} => step' = step /\ holder' = holder
  BY <1>1, Zenon
<1> QED
  BY <1>1, <1>2, <1>3, <1>5, <1>6, <1>7, <1>8, <1>9, QuietKeeps, Zenon

LEMMA SyncKeeps ==
  ASSUME Constants, IInv, Sync
  PROVE  IInv'
<1>1. /\ step = "sync"
      /\ UNCHANGED <<remote, file, side, safeSide, orphan, kept, phase, start, want, prog, got, timers>>
  BY Zenon DEF Sync
<1>2. CASE CheckpointFails /\ UNCHANGED safe
  <2>1. step \in {"sync", "persist", "publish"}
    BY <1>1
  <2> QED
    BY <1>1, <1>2, <2>1, CheckpointFailsKeeps, Zenon
<1>3. CASE safe' = SyncedFile /\ step' = "persist" /\ UNCHANGED <<pc, holder, spent>>
  <2>1. Working /\ Working' /\ holder # Nobody
    BY <1>1, Held DEF Working
  <2>2. TypeOK'
    <3>1. safe' \in Files
      BY <1>3, Zenon DEF SyncedFile, IInv, TypeOK
    <3>2. step' \in StepNames
      BY <1>3 DEF StepNames
    <3> QED
      BY <1>1, <1>3, <3>1, <3>2, Zenon DEF IInv, TypeOK
  <2>3. BarrierInv'
    <3>1. \A j \in Parts : Flying(j)' <=> Flying(j)
      BY <1>3, Zenon DEF Flying
    <3>2. Ending' <=> Ending
      BY <1>1, <1>3 DEF Ending
    <3> QED
      BY <1>1, <1>3, <2>1, <3>1, <3>2 DEF IInv, BarrierInv
  <2>4. StagedInv'
    <3>1. \A j \in Parts : Unstaged(j)' => Unstaged(j)
      BY <1>3 DEF Unstaged
    <3> QED
      BY <1>1, <1>3, <3>1, Zenon DEF IInv, StagedInv
  <2>5. GenInv'
    <3>1. SameBits(prog', prog)
      BY <1>1, Zenon DEF SameBits
    <3>2. step' # "publish" /\ GenInv
      BY <1>3 DEF IInv
    <3> QED
      BY <1>1, <1>3, <2>1, <3>1, <3>2, GenKept, Zenon
  <2>6. CompletesWhole'
    <3>1. phase' # "done"
      BY <2>1 DEF Working
    <3> QED
      BY <3>1, Zenon DEF CompletesWhole
  <2>7. ASSUME spent'["tamper"] = 0 PROVE DiskInv' /\ KeptInv'
    <3>1. DiskInv /\ KeptInv
      BY <1>3, <2>7, Zenon DEF IInv
    <3>2. safe' = file
      BY <1>3, <3>1, Zenon DEF SyncedFile, DiskInv
    <3>3. phase # "loaded" /\ step' # "stage"
      BY <1>3, <2>1 DEF Working
    <3>4. DiskInv'
      BY <1>1, <2>1, <3>1, <3>2, <3>3, Zenon DEF DiskInv
    <3>5. KeptInv'
      BY <1>1, <2>1, <3>1, <3>2, <3>3, Zenon DEF KeptInv
    <3> QED
      BY <3>4, <3>5
  <2> QED
    BY <2>2, <2>3, <2>4, <2>5, <2>6, <2>7, Zenon DEF IInv
<1> QED
  BY <1>1, <1>2, <1>3, Zenon DEF Sync

\* The snapshot of a checkpoint: bits of one generation, about bytes that are there.
LEMMA SnapshotBound ==
  ASSUME Constants, NEW p \in Progs, ProgInv(p)
  PROVE  /\ \A i \in Parts : Snapshot(p)[i] # Hole => Bound(Snapshot(p)[i], p)
         /\ SideInv(Encode(p.id, Snapshot(p)))
         /\ \A f : Has(f, p.done) /\ Has(f, p.pending) => Has(f, Snapshot(p))
<1>1. /\ Snapshot(p) \in Grids
      /\ \A i \in Parts : Snapshot(p)[i] = p.pending[i] \/ Snapshot(p)[i] = p.done[i]
  BY SnapshotFacts
<1>2. \A i \in Parts : Snapshot(p)[i] # Hole => Bound(Snapshot(p)[i], p)
  BY <1>1, Zenon DEF ProgInv
<1>3. SideInv(Encode(p.id, Snapshot(p)))
  <2>1. p.id \in Ids
    BY DEF Progs
  <2>2. Encode(p.id, Snapshot(p)).id = p.id /\ Encode(p.id, Snapshot(p)).done = Snapshot(p)
    BY <1>1, <2>1, EncodeFacts, Zenon
  <2>3. p.id \in Gen => Etags /\ p.validator = p.id
    BY GenNames, Zenon DEF ProgInv
  <2>4. p.id \in Gen => \A i \in Parts : Snapshot(p)[i] \in {Hole, p.id}
    BY <1>2, <2>3, Zenon DEF Bound
  <2> QED
    BY <2>2, <2>4, Zenon DEF SideInv
<1>4. \A f : Has(f, p.done) /\ Has(f, p.pending) => Has(f, Snapshot(p))
  BY <1>1, Zenon DEF Has
<1> QED
  BY <1>2, <1>3, <1>4, Zenon

LEMMA PersistKeeps ==
  ASSUME Constants, IInv, Persist
  PROVE  IInv'
<1>1. /\ step = "persist"
      /\ UNCHANGED <<remote, file, safe, safeSide, orphan, kept, phase, start, want, prog, got, timers>>
  BY Zenon DEF Persist
<1>2. CASE CheckpointFails /\ UNCHANGED side
  <2>1. step \in {"sync", "persist", "publish"}
    BY <1>1
  <2> QED
    BY <1>1, <1>2, <2>1, CheckpointFailsKeeps, Zenon
<1>3. CASE /\ side' = Encode(prog.id, Snapshot(prog)) /\ step' = "publish"
           /\ UNCHANGED <<pc, holder, spent>>
  <2>1. Working /\ Working' /\ holder # Nobody
    BY <1>1, Held DEF Working
  <2>2. /\ prog \in Progs /\ ProgInv(prog) /\ prog.id \in Ids
        /\ Snapshot(prog) \in Grids
    <3>1. prog \in Progs /\ ProgInv(prog)
      BY Zenon DEF IInv, TypeOK, GenInv
    <3>2. prog.id \in Ids
      BY <3>1 DEF Progs
    <3> QED
      BY <3>1, <3>2, SnapshotFacts, Zenon
  <2>3. side' \in Sides /\ side'.id = prog.id /\ side'.done = Snapshot(prog)
    BY <1>3, <2>2, EncodeFacts, Zenon
  <2>4. TypeOK'
    <3>1. step' \in StepNames
      BY <1>3 DEF StepNames
    <3> QED
      BY <1>1, <1>3, <2>3, <3>1, Zenon DEF IInv, TypeOK
  <2>5. BarrierInv'
    <3>1. \A j \in Parts : Flying(j)' <=> Flying(j)
      BY <1>3, Zenon DEF Flying
    <3>2. Ending' <=> Ending
      BY <1>1, <1>3 DEF Ending
    <3> QED
      BY <1>1, <1>3, <2>1, <3>1, <3>2 DEF IInv, BarrierInv
  <2>6. StagedInv'
    <3>1. \A j \in Parts : Unstaged(j)' => Unstaged(j)
      BY <1>3 DEF Unstaged
    <3> QED
      BY <1>1, <1>3, <3>1, Zenon DEF IInv, StagedInv
  <2>7. GenInv'
    <3>1. SideInv(side')
      BY <1>3, <2>2, SnapshotBound, Zenon
    <3>2. GotInv' /\ ProgInv(prog')
      BY <1>1, <1>3, <2>2, Zenon DEF IInv, GenInv, GotInv, Bound
    <3> QED
      BY <1>1, <1>3, <2>1, <3>1, <3>2, Zenon DEF IInv, GenInv
  <2>8. CompletesWhole'
    <3>1. phase' # "done"
      BY <2>1 DEF Working
    <3> QED
      BY <3>1, Zenon DEF CompletesWhole
  <2>9. ASSUME spent'["tamper"] = 0 PROVE DiskInv' /\ KeptInv'
    <3>1. DiskInv /\ KeptInv
      BY <1>3, <2>9, Zenon DEF IInv
    <3>2. phase # "loaded" /\ step' # "stage"
      BY <1>3, <2>1 DEF Working
    <3>3. Has(safe, prog.pending)
      BY <1>1, <2>1, <3>1 DEF DiskInv
    <3>4. DiskInv'
      BY <1>1, <2>1, <3>1, <3>2, <3>3, Zenon DEF DiskInv
    <3>5. Has(file, Snapshot(prog)) /\ Has(safe, Snapshot(prog))
      BY <2>1, <2>2, <3>1, <3>3, SnapshotBound, Zenon DEF DiskInv
    <3>6. ASSUME kept.id \in Gen PROVE kept.id = prog.id /\ Covers(safeSide.done, Snapshot(prog))
      <4>1. kept.id = prog.id
        <5>1. kept.id # NoIdentity
          BY <3>6, GenNames DEF Ids
        <5> QED
          BY <2>1, <5>1, Zenon DEF IInv, GenInv
      <4>2. Covers(safeSide.done, side.done) /\ Covers(side.done, Snapshot(prog))
        BY <2>1, <3>1, <3>6, Zenon DEF KeptInv
      <4> QED
        BY <4>1, <4>2, Zenon DEF Covers
    <3>7. Covers(Snapshot(prog), Snapshot(prog))
      BY Zenon DEF Covers
    <3>8. KeptInv'
      BY <1>1, <2>1, <2>3, <3>1, <3>2, <3>5, <3>6, <3>7, Zenon DEF KeptInv
    <3> QED
      BY <3>4, <3>8
  <2> QED
    BY <2>4, <2>5, <2>6, <2>7, <2>8, <2>9, Zenon DEF IInv
<1> QED
  BY <1>1, <1>2, <1>3, Zenon DEF Persist

LEMMA PublishKeeps ==
  ASSUME Constants, IInv, Publish
  PROVE  IInv'
<1>1. /\ step = "publish" /\ step \in {"sync", "persist", "publish"}
      /\ UNCHANGED <<remote, file, safe, side, orphan, phase, start, want, got, timers>>
  BY DEF Publish
<1>2. CASE CheckpointFails /\ UNCHANGED <<safeSide, prog, kept>>
  BY <1>1, <1>2, CheckpointFailsKeeps, Zenon
<1>3. CASE /\ safeSide' = SyncedSidecar /\ prog' = Committed(prog)
           /\ kept' = Encode(prog.id, Snapshot(prog))
           /\ CheckpointDone /\ UNCHANGED spent
  <2>1. /\ prog \in Progs /\ ProgInv(prog) /\ Snapshot(prog) \in Grids
        /\ \A i \in Parts : Snapshot(prog)[i] =
             IF prog.pending[i] # Hole THEN prog.pending[i] ELSE prog.done[i]
    BY SnapshotFacts, Zenon DEF IInv, TypeOK, GenInv
  <2>2. /\ prog' \in Progs /\ prog'.id = prog.id /\ prog'.validator = prog.validator
        /\ prog'.done = Snapshot(prog) /\ prog'.pending = NoParts /\ prog'.armed = prog.armed
    BY <1>3, <2>1, CommittedFacts, Zenon
  <2>3. /\ Working /\ Working' /\ pc' \in [Parts -> States]
        /\ holder' \in Parts \cup {Nobody, Timer, Settler, Finisher}
        /\ step' \in StepNames /\ step' \notin {"persist", "publish", "stage"} /\ BarrierInv'
        /\ \A j \in Parts : /\ pc'[j] \in {pc[j], "ok", "failed"}
                            /\ Unstaged(j)' => Unstaged(j)
    BY <1>1, <1>3, <2>2, CheckpointEnds, Zenon
  <2>4. /\ side = Encode(prog.id, Snapshot(prog)) /\ kept' = side /\ safeSide' = side
        /\ side.id = prog.id /\ side.done = Snapshot(prog) /\ side \in Sides
    <3>1. side = Encode(prog.id, Snapshot(prog))
      BY <1>1, Zenon DEF IInv, GenInv
    <3>2. prog.id \in Ids
      BY <2>1 DEF Progs
    <3>3. side.id = prog.id /\ side.done = Snapshot(prog) /\ side \in Sides
      BY <2>1, <3>1, <3>2, EncodeFacts, Zenon
    <3> QED
      BY <1>3, <3>1, <3>3, Zenon DEF SyncedSidecar
  <2>5. TypeOK'
    BY <1>1, <1>3, <2>2, <2>3, <2>4, Zenon DEF IInv, TypeOK
  <2>6. \A j \in Parts : /\ pc'[j] = "todo" => pc[j] = "todo"
                         /\ pc'[j] \in {"body", "writing"} => pc[j] \in {"body", "writing"}
    BY <2>3
  <2>7. StagedInv'
    <3>1. \A j \in Parts : prog'.pending[j] = Hole
      BY <2>2, NoPartsType, Zenon
    <3>2. ASSUME NEW j \in Parts, Unstaged(j)' PROVE prog'.done[j] = Hole
      <4>1. prog.done[j] = Hole /\ prog.pending[j] = Hole
        BY <2>3, <3>2, Zenon DEF IInv, StagedInv
      <4> QED
        BY <2>1, <2>2, <4>1, Zenon
    <3> QED
      BY <3>1, <3>2, Zenon DEF StagedInv
  <2>8. GenInv'
    <3>1. \A v : Bound(v, prog) => Bound(v, prog')
      BY <2>2, Zenon DEF Bound
    <3>2. \A i \in Parts : Snapshot(prog)[i] # Hole => Bound(Snapshot(prog)[i], prog)
      BY <2>1, SnapshotBound, Zenon
    <3>3. \A j \in Parts : prog'.pending[j] = Hole
      BY <2>2, NoPartsType, Zenon
    <3>4. ProgInv(prog')
      BY <2>1, <2>2, <3>1, <3>2, <3>3, Zenon DEF ProgInv
    <3>5. GotInv'
      BY <1>1, <2>6, <3>1, Zenon DEF IInv, GenInv, GotInv
    <3>6. SideInv(side') /\ SideInv(safeSide') /\ SideInv(kept')
      BY <1>1, <2>4, Zenon DEF IInv, GenInv
    <3> QED
      BY <1>1, <2>2, <2>3, <2>4, <3>4, <3>5, <3>6, Zenon DEF IInv, GenInv
  <2>9. CompletesWhole'
    <3>1. phase' # "done"
      BY <2>3 DEF Working
    <3> QED
      BY <3>1, Zenon DEF CompletesWhole
  <2>10. ASSUME spent'["tamper"] = 0 PROVE DiskInv' /\ KeptInv'
    <3>1. DiskInv /\ KeptInv
      BY <1>3, <2>10, Zenon DEF IInv
    <3>2. phase # "loaded"
      BY <2>3 DEF Working
    <3>3. Has(safe, prog.pending)
      BY <1>1, <2>3, <3>1 DEF DiskInv
    <3>4. Has(file, Snapshot(prog)) /\ Has(safe, Snapshot(prog))
      BY <2>1, <2>3, <3>1, <3>3, SnapshotBound, Zenon DEF DiskInv
    <3>5. Has(file, prog'.pending)
      BY <2>2, NoPartsType, Zenon DEF Has
    <3>6. DiskInv'
      BY <1>1, <2>2, <2>3, <3>1, <3>2, <3>4, <3>5, Zenon DEF DiskInv
    <3>7. Covers(side.done, side.done)
      BY Zenon DEF Covers
    <3>8. Covers(side.done, Snapshot(prog'))
      <4>1. \A i \in Parts : Snapshot(prog')[i] =
              IF prog'.pending[i] # Hole THEN prog'.pending[i] ELSE prog'.done[i]
        BY <2>2, SnapshotFacts, Zenon
      <4>2. \A i \in Parts : Snapshot(prog')[i] = side.done[i]
        BY <2>2, <2>4, <4>1, NoPartsType, Zenon
      <4> QED
        BY <4>2, Zenon DEF Covers
    <3>9. KeptInv'
      <4>1. file.len = Total /\ safe.len = Total
        BY <2>3, <3>1, Zenon DEF DiskInv
      <4> QED
        BY <1>1, <2>4, <3>2, <3>4, <3>7, <3>8, <4>1, Zenon DEF KeptInv
    <3> QED
      BY <3>6, <3>9
  <2> QED
    BY <2>5, <2>3, <2>7, <2>8, <2>9, <2>10, Zenon DEF IInv
<1> QED
  BY <1>1, <1>2, <1>3, Zenon DEF Publish

-----------------------------------------------------------------------------
(* The end of a run                                                        *)

\* The end of a run leaves no part in flight, no timer armed and no holder.
LEMMA CloseFacts ==
  ASSUME Constants, IInv, step \in {"release", "abandon", "validate"}, Close,
         phase' \in {"idle", "done"},
         UNCHANGED <<remote, file, safeSide, start, want, prog, pc, got, timers>>
  PROVE  /\ BarrierInv' /\ StagedInv' /\ ~Working' /\ phase' # "loaded" /\ phase' # "settling"
         /\ phase' \in Phases /\ holder' \in Parts \cup {Nobody, Timer, Settler, Finisher}
         /\ step' = "none" /\ step' \in StepNames /\ orphan' = NoFile /\ orphan' \in Files
         /\ SyncedFile \in Files
<1>1. holder' = Nobody /\ step' = "none" /\ orphan' = NoFile
  BY Zenon DEF Close
<1>2. holder \in {Settler, Finisher} /\ holder \notin Parts
  BY HolderNames DEF IInv, BarrierInv, TypeOK
<1>3. ~prog.armed /\ \A i \in Parts : ~Flying(i)
  BY <1>2, Zenon DEF IInv, BarrierInv
<1>4. /\ ~Working' /\ phase' # "loaded" /\ phase' # "settling" /\ phase' \in Phases
      /\ "none" \in StepNames
  BY DEF Working, Phases, StepNames
<1>5. \A i \in Parts : ~Flying(i)' /\ pc'[i] \notin {"asked", "body", "writing"}
  BY <1>3, Zenon DEF Flying
<1>6. BarrierInv'
  BY <1>1, <1>3, <1>4, <1>5, HolderNames DEF BarrierInv
<1>7. \A i \in Parts : ~Unstaged(i)'
  BY <1>1, <1>5, HolderNames DEF Unstaged
<1>8. StagedInv'
  BY <1>7, Zenon DEF IInv, StagedInv
<1>9. NoFile \in Files /\ SyncedFile \in Files
  BY NoFileFacts, Zenon DEF SyncedFile, IInv, TypeOK
<1> QED
  BY <1>1, <1>4, <1>6, <1>8, <1>9, Zenon

\* What a run that ends without completing leaves.
LEMMA LeftBehind ==
  ASSUME Constants, IInv, step \in {"release", "abandon", "validate"}, Close, phase' = "idle",
         safe' \in {SyncedFile, safe},
         UNCHANGED <<remote, file, side, safeSide, kept, start, want, prog, pc, got, timers, spent>>
  PROVE  IInv'
<1>0. phase' \in {"idle", "done"} /\ phase' # "done"
  OBVIOUS
<1>1. /\ BarrierInv' /\ StagedInv' /\ ~Working' /\ phase' # "loaded" /\ phase' # "settling"
      /\ phase' \in Phases /\ holder' \in Parts \cup {Nobody, Timer, Settler, Finisher}
      /\ step' = "none" /\ step' \in StepNames /\ orphan' = NoFile /\ orphan' \in Files
      /\ SyncedFile \in Files
  BY <1>0, CloseFacts, Zenon
<1>2. TypeOK'
  BY <1>1, Zenon DEF IInv, TypeOK
<1>3. GenInv'
  <2>1. SameBits(prog', prog) /\ GenInv
    BY Zenon DEF SameBits, IInv
  <2>2. step' # "publish"
    BY <1>1
  <2> QED
    BY <1>1, <2>1, <2>2, GenKept, Zenon
<1>4. CompletesWhole'
  BY <1>0, Zenon DEF CompletesWhole
<1>5. ASSUME spent'["tamper"] = 0 PROVE DiskInv' /\ KeptInv'
  <2>1. DiskInv /\ KeptInv
    BY <1>5, Zenon DEF IInv
  <2>2. safe' \in {file, safe}
    BY <2>1, Zenon DEF SyncedFile, DiskInv
  <2>3. DiskInv'
    BY <1>1, Zenon DEF DiskInv
  <2>4. KeptInv'
    BY <1>1, <2>1, <2>2, Zenon DEF KeptInv
  <2> QED
    BY <2>3, <2>4
<1> QED
  BY <1>1, <1>2, <1>3, <1>4, <1>5, Zenon DEF IInv

LEMMA ReleaseTargetKeeps ==
  ASSUME Constants, IInv, ReleaseTarget
  PROVE  IInv'
<1>1. step \in {"release", "abandon", "validate"} /\ Close /\ phase' = "idle"
  BY Zenon DEF ReleaseTarget
<1>2. /\ safe' \in {SyncedFile, safe}
      /\ UNCHANGED <<remote, file, side, safeSide, kept, start, want, prog, pc, got, timers, spent>>
  BY Zenon DEF ReleaseTarget
<1> QED
  BY <1>1, <1>2, LeftBehind, Zenon

\* Content that is valid against a full bitmap is one generation.
LEMMA ValidIsWhole ==
  ASSUME Constants, IInv, ValidContent(prog, file), AllDone(prog)
  PROVE  file.len = Total /\ \E g \in Gen : \A i \in Parts : file.body[i] = g
<1>1. \A i \in Parts : prog.done[i] # Hole
  BY Zenon DEF AllDone, Set
<1>2. file.len = Total /\ \A i \in Parts : file.body[i] = prog.done[i]
  BY <1>1, Zenon DEF ValidContent, Set
<1>3. \A i \in Parts : Bound(prog.done[i], prog)
  BY <1>1, Zenon DEF IInv, GenInv, ProgInv
<1>4. CASE Parts = {}
  BY <1>2, <1>4, GenNames, Zenon
<1>5. ASSUME NEW k \in Parts PROVE \E g \in Gen : \A i \in Parts : file.body[i] = g
  <2>1. prog.done[k] \in Gen
    BY <1>3, Zenon DEF Bound
  <2>2. \A i \in Parts : prog.done[i] = prog.done[k]
    <3>1. CASE Etags
      BY <1>3, <3>1, Zenon DEF Bound
    <3>2. CASE ~Etags
      <4>1. Total <= Chunk
        BY <1>3, <3>2, Zenon DEF Bound
      <4>2. Parts \subseteq {0}
        BY <4>1, OnePart, Zenon
      <4> QED
        BY <4>2, Zenon
    <3> QED
      BY <3>1, <3>2, Zenon
  <2> QED
    BY <1>2, <2>1, <2>2, Zenon
<1> QED
  BY <1>2, <1>4, <1>5, Zenon

LEMMA ValidateKeeps ==
  ASSUME Constants, IInv, Validate
  PROVE  IInv'
<1>1. /\ step \in {"release", "abandon", "validate"} /\ Close
      /\ UNCHANGED <<remote, file, safeSide, start, want, prog, pc, got, timers>>
  BY Zenon DEF Validate
<1>2. CASE phase' = "idle" /\ safe' = SyncedFile /\ UNCHANGED <<side, kept, spent>>
  <2>1. safe' \in {SyncedFile, safe}
    BY <1>2, Zenon
  <2> QED
    BY <1>1, <1>2, <2>1, LeftBehind, Zenon
<1>3. CASE /\ ValidContent(prog, file) /\ AllDone(prog)
           /\ side' \in {NoSidecar, side} /\ kept' = NoSidecar
           /\ \/ safe' = SyncedFile /\ phase' = "done" /\ UNCHANGED spent
              \/ Spend("fault") /\ phase' = "idle" /\ UNCHANGED safe
  <2>1. spent' \in [Kinds -> Nat] /\ phase' \in {"idle", "done"}
    <3>1. "fault" \in Kinds /\ TypeOK
      BY DEF Kinds, IInv
    <3> QED
      BY <1>3, <3>1, SpentSame, SpentMore, Zenon
  <2>2. /\ BarrierInv' /\ StagedInv' /\ ~Working' /\ phase' # "loaded" /\ phase' # "settling"
        /\ phase' \in Phases /\ holder' \in Parts \cup {Nobody, Timer, Settler, Finisher}
        /\ step' = "none" /\ step' \in StepNames /\ orphan' = NoFile /\ orphan' \in Files
        /\ SyncedFile \in Files
    BY <1>1, <2>1, CloseFacts, Zenon
  <2>3. NoSidecar \in Sides /\ NoSidecar.id = NoIdentity /\ NoIdentity \notin Gen
    BY NoFileFacts, GenNames DEF Ids
  <2>4. TypeOK'
    BY <1>1, <1>3, <2>1, <2>2, <2>3, Zenon DEF IInv, TypeOK
  <2>5. GenInv'
    <3>1. SideInv(side') /\ SideInv(safeSide') /\ SideInv(kept')
      <4>1. SideInv(NoSidecar)
        BY <2>3, Zenon DEF SideInv
      <4> QED
        BY <1>1, <1>3, <4>1, Zenon DEF IInv, GenInv
    <3>2. step' # "publish"
      BY <2>2
    <3>3. ProgInv(prog') /\ GotInv'
      BY <1>1, Zenon DEF IInv, GenInv, GotInv, Bound
    <3> QED
      BY <1>1, <2>2, <3>1, <3>2, <3>3, Zenon DEF IInv, GenInv
  <2>6. CompletesWhole'
    BY <1>1, <1>3, ValidIsWhole, Zenon DEF CompletesWhole
  <2>7. DiskInv' /\ KeptInv'
    BY <1>3, <2>2, <2>3, Zenon DEF DiskInv, KeptInv
  <2> QED
    BY <2>2, <2>4, <2>5, <2>6, <2>7, Zenon DEF IInv
<1> QED
  BY <1>2, <1>3, Zenon DEF Validate

-----------------------------------------------------------------------------
(* The surroundings                                                        *)

\* After a crash each part is as the system showed it or as it was synced, and
\* either sidecar may be the one that is found.
LEMMA CrashKeeps ==
  ASSUME Constants, IInv, Crash
  PROVE  IInv'
<1>1. /\ Spend("crash") /\ safe' = file' /\ side' \in {side, safeSide} /\ safeSide' = side'
      /\ orphan' = NoFile /\ phase' = "idle" /\ prog' = Fresh(Unverified)
      /\ pc' = [i \in Parts |-> "todo"] /\ got' = NoParts
      /\ holder' = Nobody /\ step' = "none" /\ timers' = 0
      /\ UNCHANGED <<remote, kept, start, want>>
  BY Zenon DEF Crash
<1>2. PICK S \in SUBSET Parts, len \in {file.len, safe.len} :
        file' = SetLen([len |-> Total,
                        body |-> [i \in Parts |-> IF i \in S THEN file.body[i] ELSE safe.body[i]]], len)
  BY Zenon DEF Crash
<1> DEFINE grid == [i \in Parts |-> IF i \in S THEN file.body[i] ELSE safe.body[i]]
           mix == [len |-> Total, body |-> grid]
<1>3. /\ grid \in Grids
      /\ \A i \in Parts : grid[i] = file.body[i] \/ grid[i] = safe.body[i]
  <2>1. file.body \in [Parts -> Cells] /\ safe.body \in [Parts -> Cells]
    BY DEF IInv, TypeOK, Files, Grids
  <2> QED
    BY <2>1, Zenon DEF Grids
<1>4. len \in Nat /\ file' = SetLen(mix, len)
  <2>1. file.len \in Nat /\ safe.len \in Nat
    BY DEF IInv, TypeOK, Files
  <2> QED
    BY <1>2, <2>1, Zenon
<1> HIDE DEF grid
<1>5. mix \in Files /\ mix.len = Total /\ mix.body = grid
  BY <1>3 DEF Files, Constants
<1> HIDE DEF mix
<1>6. file' \in Files /\ (len = Total => file'.len = Total /\ file'.body = grid)
  BY <1>4, <1>5, SetLenFacts, Zenon
<1>7. spent' \in [Kinds -> Nat] /\ spent'["tamper"] = spent["tamper"]
  <2>1. "crash" \in Kinds /\ "crash" # "tamper"
    BY DEF Kinds
  <2> QED
    BY <1>1, <2>1, SpentMore, Zenon DEF IInv
<1>8. /\ prog' \in Progs /\ prog'.id = Unverified /\ prog'.validator = Unverified
      /\ prog'.done = NoParts /\ prog'.pending = NoParts /\ ~prog'.armed
      /\ NoParts \in Grids /\ \A i \in Parts : NoParts[i] = Hole
  <2>1. Unverified \in Ids
    BY Zenon DEF Ids
  <2> QED
    BY <1>1, <2>1, FreshFacts, NoPartsType, Zenon
<1>9. /\ "todo" \in States /\ "idle" \in Phases /\ "none" \in StepNames /\ 0 \in Nat
      /\ phase' \notin {"loaded", "settling", "done", "running", "draining"}
      /\ \A i \in Parts : pc'[i] \notin {"asked", "body", "writing"}
  BY <1>1 DEF States, Phases, StepNames
<1>10. TypeOK'
  BY <1>1, <1>6, <1>7, <1>8, <1>9, NoFileFacts, Zenon DEF IInv, TypeOK
<1>11. BarrierInv'
  BY <1>1, <1>8, <1>9, HolderNames, ZenonT(60) DEF BarrierInv, Flying, Working
<1>12. StagedInv'
  BY <1>8, Zenon DEF StagedInv
<1>13. GenInv'
  <2>1. ProgInv(prog')
    BY <1>8, Zenon DEF ProgInv
  <2>2. GotInv'
    BY <1>9, Zenon DEF GotInv
  <2>3. SideInv(side') /\ SideInv(safeSide') /\ SideInv(kept')
    BY <1>1, Zenon DEF IInv, GenInv
  <2>4. step' # "publish" /\ ~Working' /\ phase' # "settling"
    BY <1>1 DEF Working
  <2> QED
    BY <1>1, <2>1, <2>2, <2>3, <2>4, Zenon DEF IInv, GenInv
<1>14. CompletesWhole'
  BY <1>9, Zenon DEF CompletesWhole
<1>15. ASSUME spent'["tamper"] = 0 PROVE DiskInv' /\ KeptInv'
  <2>1. DiskInv /\ KeptInv
    BY <1>7, <1>15, Zenon DEF IInv
  <2>2. phase' # "loaded" /\ ~Working'
    BY <1>1 DEF Working
  <2>3. DiskInv'
    BY <1>1, <2>2, Zenon DEF DiskInv
  <2>4. ASSUME kept.id \in Gen
        PROVE  /\ file'.len = Total /\ side'.id = kept.id /\ Has(file', side'.done)
               /\ Covers(kept.done, side'.done) /\ Covers(side'.done, side'.done)
    <3>1. /\ file.len = Total /\ safe.len = Total /\ side.id = kept.id /\ safeSide.id = kept.id
          /\ Has(file, side.done) /\ Has(safe, side.done)
          /\ Has(file, safeSide.done) /\ Has(safe, safeSide.done)
          /\ Covers(kept.done, safeSide.done) /\ Covers(safeSide.done, side.done)
      BY <2>1, <2>4, Zenon DEF KeptInv
    <3>2. file'.len = Total /\ file'.body = grid
      BY <1>2, <1>6, <3>1, Zenon
    <3>3. Has(file', side.done) /\ Has(file', safeSide.done)
      BY <1>3, <3>1, <3>2, Zenon DEF Has
    <3>4. Covers(kept.done, side.done) /\ Covers(side'.done, side'.done)
      BY <3>1, Zenon DEF Covers
    <3> QED
      BY <1>1, <3>1, <3>2, <3>3, <3>4, Zenon
  <2>5. KeptInv'
    BY <1>1, <2>2, <2>4, Zenon DEF KeptInv
  <2> QED
    BY <2>3, <2>5
<1> QED
  BY <1>10, <1>11, <1>12, <1>13, <1>14, <1>15, Zenon DEF IInv

LEMMA TamperKeeps ==
  ASSUME Constants, IInv, Tamper
  PROVE  IInv'
<1>1. /\ phase # "done" /\ Spend("tamper") /\ safe' = file'
      /\ UNCHANGED <<remote, side, safeSide, kept, phase, start, want, prog, pc, got, holder, step,
                     timers>>
  BY Zenon DEF Tamper, runVars
<1>2. file \in Files /\ orphan \in Files /\ NoFile \in Files
  BY NoFileFacts, Zenon DEF IInv, TypeOK
<1>3. ForeignFile \subseteq Files
  <2>1. [i \in Parts |-> Foreign] \in Grids
    BY GenNames, Zenon DEF Grids
  <2>2. Total \in Nat /\ Total + 1 \in Nat
    BY DEF Constants
  <2> QED
    BY <2>1, <2>2 DEF ForeignFile, Files
<1>4. file' \in Files /\ orphan' \in Files
  <2>1. orphan' \in Files
    BY <1>2, Zenon DEF Tamper, HeldFile
  <2>2. ASSUME NEW i \in Parts, file' = [file EXCEPT !.body[i] = Foreign] PROVE file' \in Files
    <3>1. file' = WritePart(file, i, Foreign)
      BY <2>2, Zenon DEF WritePart
    <3> QED
      BY <1>2, <3>1, WriteFacts, GenNames, Zenon
  <2>3. ASSUME file' = SetLen(file, 0) PROVE file' \in Files
    <3>1. 0 \in Nat
      OBVIOUS
    <3> QED
      BY <1>2, <2>3, <3>1, SetLenFacts, Zenon
  <2>4. file' \in Files
    BY <1>2, <1>3, <2>2, <2>3, Zenon DEF Tamper
  <2> QED
    BY <2>1, <2>4
<1>5. spent' \in [Kinds -> Nat] /\ spent'["tamper"] # 0
  <2>1. "tamper" \in Kinds
    BY DEF Kinds
  <2> QED
    BY <1>1, <2>1, SpentMore, Zenon DEF IInv
<1>6. TypeOK'
  BY <1>1, <1>4, <1>5, Zenon DEF IInv, TypeOK
<1>7. BarrierInv' /\ StagedInv' /\ (Working' <=> Working)
  BY <1>1, Zenon DEF IInv, BarrierInv, StagedInv, Unstaged, Flying, Working, Ending
<1>8. GenInv'
  BY <1>1, <1>7, Same, GenKept, Zenon DEF IInv
<1>9. CompletesWhole'
  BY <1>1, Zenon DEF CompletesWhole
<1> QED
  BY <1>5, <1>6, <1>7, <1>8, <1>9, Zenon DEF IInv

-----------------------------------------------------------------------------
(* The invariant                                                           *)

LEMMA InitHolds ==
  ASSUME Constants, Init
  PROVE  IInv
<1>1. /\ NoFile \in Files /\ NoSidecar \in Sides /\ NoSidecar.id \notin Gen
      /\ ForeignFile \subseteq Files /\ 1 \in Gen /\ Unverified \in Ids
  <2>1. [i \in Parts |-> Foreign] \in Grids /\ Unverified \in Ids
    BY GenNames, Zenon DEF Grids, Ids
  <2>2. Total \in Nat /\ Total + 1 \in Nat
    BY DEF Constants
  <2>3. ForeignFile \subseteq Files
    BY <2>1, <2>2 DEF ForeignFile, Files
  <2> QED
    BY <2>1, <2>3, NoFileFacts, GenNames DEF Ids
<1>2. /\ prog \in Progs /\ prog.id = Unverified /\ prog.validator = Unverified
      /\ prog.done = NoParts /\ prog.pending = NoParts /\ ~prog.armed
      /\ NoParts \in Grids /\ \A i \in Parts : NoParts[i] = Hole
  BY <1>1, FreshFacts, NoPartsType, Zenon DEF Init
<1>3. /\ "todo" \in States /\ "idle" \in Phases /\ "none" \in StepNames /\ 0 \in Nat
      /\ phase \notin {"loaded", "settling", "done", "running", "draining"}
      /\ \A i \in Parts : pc[i] \notin {"asked", "body", "writing"}
  BY DEF Init, States, Phases, StepNames
<1>4. spent \in [Kinds -> Nat]
  <2>1. DOMAIN Bounds = Kinds
    BY DEF Bounds, Kinds
  <2> QED
    BY <1>3, <2>1, Zenon DEF Init
<1>5. TypeOK
  BY <1>1, <1>2, <1>3, <1>4, Zenon DEF Init, TypeOK
<1>6. BarrierInv
  BY <1>2, <1>3, HolderNames, Zenon DEF Init, BarrierInv, Flying, Working
<1>7. StagedInv
  BY <1>2, Zenon DEF StagedInv
<1>8. GenInv
  <2>1. ProgInv(prog)
    BY <1>2, Zenon DEF ProgInv
  <2>2. GotInv
    BY <1>3, Zenon DEF GotInv
  <2>3. SideInv(side) /\ SideInv(safeSide) /\ SideInv(kept)
    BY <1>1, Zenon DEF SideInv, Init
  <2>4. step # "publish" /\ ~Working /\ phase # "settling" /\ want = Unverified
    BY DEF Init, Working
  <2> QED
    BY <2>1, <2>2, <2>3, <2>4, Zenon DEF GenInv
<1>9. CompletesWhole /\ DiskInv /\ KeptInv
  <2>1. orphan = NoFile /\ ~Working /\ kept = NoSidecar /\ phase # "loaded" /\ phase # "done"
    BY DEF Init, Working
  <2> QED
    BY <1>1, <2>1, Zenon DEF CompletesWhole, DiskInv, KeptInv
<1> QED
  BY <1>5, <1>6, <1>7, <1>8, <1>9, Zenon DEF IInv

LEMMA StutterKeeps ==
  ASSUME IInv, UNCHANGED vars
  PROVE  IInv'
<1>1. UNCHANGED <<remote, file, safe, side, safeSide, orphan, kept, phase, start, want, prog, pc, got,
                  holder, step, timers, spent>>
  BY Zenon DEF vars, diskVars, runVars
<1>2. TypeOK'
  BY <1>1, Zenon DEF IInv, TypeOK
<1>3. BarrierInv' /\ StagedInv' /\ (Working' <=> Working)
  BY <1>1, Zenon DEF IInv, BarrierInv, StagedInv, Unstaged, Flying, Working, Ending
<1> QED
  BY <1>1, <1>2, <1>3, Same, QuietKeeps, Zenon

LEMMA NextKeeps ==
  ASSUME Constants, IInv, [Next]_vars
  PROVE  IInv'
<1>1. ASSUME GroupStep PROVE IInv'
  BY <1>1, HeadKeeps, LoadKeeps, LockTargetKeeps, DispatchKeeps, EndKeeps, Zenon DEF GroupStep
<1>2. ASSUME PartStep PROVE IInv'
  BY <1>2, RespondKeeps, TakeBarrierKeeps, Zenon DEF PartStep
<1>3. ASSUME HolderStep PROVE IInv'
  BY <1>3, WriteKeeps, StageKeeps, SyncKeeps, PersistKeeps, PublishKeeps, ReleaseTargetKeeps,
     ValidateKeeps, Zenon DEF HolderStep
<1>4. ASSUME \E i \in Parts : BodyFails(i) PROVE IInv'
  BY <1>4, BodyFailsKeeps, Zenon
<1> QED
  BY <1>1, <1>2, <1>3, <1>4, TimerFiresKeeps, StopKeeps, ChangeKeeps, CrashKeeps, TamperKeeps,
     StutterKeeps, Zenon DEF Next

LEMMA InvariantSuffices ==
  ASSUME Constants, IInv
  PROVE  CompletesWhole /\ DataBeforeBit /\ TrustedIsCurrent /\ KeptSurvives
<1>1. /\ prog \in Progs /\ prog.id \in Ids /\ (prog.id # Unverified => prog.id \in Gen)
      /\ spent.tamper = spent["tamper"]
  BY DEF IInv, TypeOK, Progs, Ids
<1>2. ProgInv(prog) /\ CompletesWhole
  BY Zenon DEF IInv, GenInv
<1>3. TrustedIsCurrent
  <2>1. Etags => \A i \in Parts : prog.done[i] # Hole => prog.done[i] = prog.validator
    BY <1>2, Zenon DEF ProgInv, Bound
  <2> QED
    BY <2>1, Zenon DEF TrustedIsCurrent, Set
<1>4. DataBeforeBit
  <2> SUFFICES ASSUME spent["tamper"] = 0, Working, prog.id # Unverified
               PROVE  /\ \A i \in Set(prog.done) : safe.body[i] = prog.done[i]
                      /\ step = "publish" \/ kept.id = prog.id =>
                           side.id = prog.id /\ \A i \in Set(side.done) : safe.body[i] = side.done[i]
    BY <1>1, Zenon DEF DataBeforeBit, Working
  <2>1. DiskInv /\ KeptInv
    BY Zenon DEF IInv
  <2>2. Has(safe, prog.done)
    BY <2>1, Zenon DEF DiskInv
  <2>3. ASSUME step = "publish" PROVE side.id = prog.id /\ Has(safe, side.done)
    <3>1. side = Encode(prog.id, Snapshot(prog))
      BY <2>3, Zenon DEF IInv, GenInv
    <3>2. side.id = prog.id /\ side.done = Snapshot(prog)
      BY <1>1, <3>1, EncodeFacts, SnapshotFacts, Zenon
    <3>3. Has(safe, prog.pending)
      BY <2>1, <2>3, ZenonT(60) DEF DiskInv
    <3> QED
      BY <1>1, <1>2, <2>2, <3>2, <3>3, SnapshotBound, Zenon
  <2>4. ASSUME kept.id = prog.id PROVE side.id = prog.id /\ Has(safe, side.done)
    BY <1>1, <2>1, <2>4, Zenon DEF KeptInv
  <2> QED
    BY <2>2, <2>3, <2>4, Zenon DEF Has, Set
<1>5. KeptSurvives
  <2> SUFFICES ASSUME phase = "loaded", spent["tamper"] = 0, prog.id = kept.id, prog.id # Unverified,
                      NEW i \in Set(kept.done)
               PROVE  prog.done[i] = kept.done[i]
    BY <1>1, Zenon DEF KeptSurvives
  <2>1. i \in Parts /\ kept.done[i] # Hole /\ kept.id \in Gen
    BY <1>1, Zenon DEF Set
  <2>2. kept.done[i] = kept.id
    BY <2>1, Zenon DEF IInv, GenInv, SideInv
  <2>3. prog.done[i] # Hole
    BY <2>1, Zenon DEF IInv, KeptInv, Covers
  <2>4. prog.done[i] = prog.id
    BY <1>2, <2>1, <2>3, Zenon DEF ProgInv, Bound
  <2> QED
    BY <2>2, <2>4
<1> QED
  BY <1>2, <1>3, <1>4, <1>5

\* The inductive invariant of a download in parts: who holds the barrier and what
\* for, of which generation every bit is, and which bytes are on the disk behind
\* the bits in memory and behind the two sidecars (dflt/download_progress.rs,
\* transfer_task.rs).
THEOREM DownloadInvariant ==
  ASSUME Constants
  PROVE  Spec => []IInv
<1>1. Init => IInv
  BY InitHolds
<1>2. IInv /\ [Next]_vars => IInv'
  BY NextKeeps
<1> QED
  BY <1>1, <1>2, PTL DEF Spec

\* A download in parts that completes leaves the whole object, all of one
\* generation, whatever faults, retries, crashes, replacements and changes of the
\* target by other programs went before (finalize_download_content).
THEOREM DownloadCompletesWhole ==
  ASSUME Constants
  PROVE  Spec => []CompletesWhole
<1>1. IInv => CompletesWhole
  BY InvariantSuffices
<1>2. Spec => []IInv
  BY DownloadInvariant
<1> QED
  BY <1>1, <1>2, PTL

\* Bits are set after their bytes are durable, a part that is skipped is of the
\* generation the run is bound to, and a checkpoint reported done is found again
\* by the next run of its generation, whatever crash came between
\* (commit_checkpoint_after_data_sync, validate_or_latch_range_validator,
\* load_or_create).
THEOREM CheckpointsAreSafe ==
  ASSUME Constants
  PROVE  Spec => [](DataBeforeBit /\ TrustedIsCurrent /\ KeptSurvives)
<1>1. IInv => DataBeforeBit /\ TrustedIsCurrent /\ KeptSurvives
  BY InvariantSuffices
<1>2. Spec => []IInv
  BY DownloadInvariant
<1> QED
  BY <1>1, <1>2, PTL
=============================================================================
