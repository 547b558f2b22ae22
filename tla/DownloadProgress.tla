--------------------------- MODULE DownloadProgress ---------------------------
(***************************************************************************)
(* The part bitmap of a download and its sidecar file                      *)
(* (dflt/download_progress.rs), as operators on a progress record.  The    *)
(* digest of a part is its content, which is a generation of the remote    *)
(* object, Hole where nothing was written, or Foreign for bytes this       *)
(* library did not put there.                                              *)
(***************************************************************************)
EXTENDS Integers, FiniteSets, FiniteSetsExt

CONSTANTS Total,        \* length of the remote object in bytes
          Chunk,        \* chunk_size
          MaxGen,       \* generations of the remote object
          BatchParts,   \* DEFAULT_CHECKPOINT_BATCH_PARTS
          MaxBatches,   \* MAX_BATCH_CHECKPOINTS
          TimerParts    \* CHECKPOINT_TIMER_MAX_PART_COUNT

Hole == 0
Gen == 1..MaxGen
Foreign == MaxGen + 1
Unverified == 0       \* the identity of a progress no strong validator backs
NoIdentity == 0 - 1   \* the identity a missing sidecar shows

DivCeil(a, b) == (a + b - 1) \div b

\* part_count_for.
PartCount == DivCeil(Total, Chunk)
Parts == 0..(PartCount - 1)

\* part_range.
PartStart(i) == i * Chunk
PartEnd(i) == IF (i + 1) * Chunk < Total THEN (i + 1) * Chunk ELSE Total

\* What the parts of a file, a bitmap or a sidecar hold: at first nothing.
NoParts == [i \in Parts |-> Hole]
Set(grid) == {i \in Parts : grid[i] # Hole}

\* A target file: its length and what its parts hold.
\* One byte more than the object stands for every longer file.
NoFile == [len |-> 0, body |-> NoParts]

\* File::set_len: bytes past the new end are gone, new bytes are holes.
SetLen(file, len) ==
  [len |-> len,
   body |-> [i \in Parts |-> IF PartEnd(i) <= len /\ PartEnd(i) <= file.len THEN file.body[i]
                             ELSE Hole]]

\* encode_snapshot: the identity in the header, the bitmap and the digests.
Encode(id, done) == [id |-> id, done |-> done]
NoSidecar == Encode(NoIdentity, NoParts)

\* new: nothing done, nothing staged, no timer, and the validator if it is known.
Fresh(id) ==
  [id |-> id, done |-> NoParts, pending |-> NoParts, armed |-> FALSE, validator |-> id]

\* new, the size of a batch.
CheckpointThreshold ==
  LET share == DivCeil(PartCount, MaxBatches) IN IF share > BatchParts THEN share ELSE BatchParts

\* decode: a header of another identity is no progress at all.
Decode(side, id) == IF side.id = id THEN side.done ELSE NoParts

\* verify_completed_parts_through: a part past the end, or whose bytes do not
\* have its digest, is cleared.
Verified(done, file, through) ==
  [i \in Parts |-> IF PartEnd(i) > through \/ file.body[i] # done[i] THEN Hole ELSE done[i]]

\* load_or_create: the target must have its full length already.
LoadOrCreate(file, side, id) ==
  IF file.len # Total THEN Fresh(id)
  ELSE [Fresh(id) EXCEPT !.done = Verified(Decode(side, id), file, Total)]

\* load_or_create_serial: a shorter target is a prefix.
LoadOrCreateSerial(file, side, id) ==
  IF file.len > Total THEN Fresh(id)
  ELSE [Fresh(id) EXCEPT !.done = Verified(Decode(side, id), file, file.len)]

IsDone(p, i) == p.done[i] # Hole

\* stage_done_with_digest_deferred: the batch is due at its threshold, or
\* when the interval has elapsed, and otherwise a timer is asked for.
CheckpointDue(p, i, elapsed) ==
  /\ ~IsDone(p, i)
  /\ \/ p.pending[i] # Hole
     \/ Cardinality(Set(p.pending) \cup {i}) >= (IF CheckpointThreshold > 1 THEN CheckpointThreshold ELSE 1)
     \/ PartCount <= TimerParts /\ elapsed

ArmsTimer(p, i, elapsed) ==
  /\ ~IsDone(p, i) /\ ~CheckpointDue(p, i, elapsed)
  /\ PartCount <= TimerParts /\ ~p.armed

Staged(p, i, digest, elapsed) ==
  IF IsDone(p, i) \/ p.pending[i] # Hole THEN p
  ELSE [p EXCEPT !.pending[i] = digest,
                 !.armed = @ \/ (~CheckpointDue(p, i, elapsed) /\ PartCount <= TimerParts)]

\* begin_external_checkpoint; begin_timer_checkpoint ends in it too.
Begun(p) == [p EXCEPT !.armed = FALSE]

\* commit_checkpoint_after_data_sync: the snapshot it writes, and the
\* progress once the snapshot is in place.
Snapshot(p) == [i \in Parts |-> IF p.pending[i] # Hole THEN p.pending[i] ELSE p.done[i]]

Committed(p) == [p EXCEPT !.done = Snapshot(p), !.pending = NoParts]

\* contiguous_watermark, as a number of parts and in bytes.
PrefixParts(done) == {i \in Parts : \A j \in 0..i : done[j] # Hole}
Watermark(done) == IF PrefixParts(done) = {} THEN 0 ELSE PartEnd(Max(PrefixParts(done)))

\* retain_contiguous_prefix_after_data_sync: what is kept, in the snapshot
\* and in memory.
PrefixSnapshot(p) == [i \in Parts |-> IF i \in PrefixParts(p.done) THEN p.done[i] ELSE Hole]

Compacted(p) == [p EXCEPT !.done = PrefixSnapshot(p), !.pending = NoParts, !.armed = FALSE]

\* all_done.
AllDone(p) == Set(p.done) = Parts

\* Faulty variant of ValidContent: only the length is compared.
ValidLength(p, file) == file.len = Total

\* validate_committed_content: exact length, and the bytes of every set bit.
ValidContent(p, file) ==
  /\ file.len = Total
  /\ \A i \in Set(p.done) : file.body[i] = p.done[i]

=============================================================================
