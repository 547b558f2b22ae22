------------------------------ MODULE AzureUpload ------------------------------
(***************************************************************************)
(* The Azure block blob protocol (azure-blob-direct/upload.rs) under the   *)
(* executor, with the blob service: uncommitted blocks that belong to the  *)
(* blob and not to a session, a block list that takes the latest block of  *)
(* each id, and an abort that deletes the blob.  Blocks are numbered from  *)
(* 1.  All tasks have one URL.                                             *)
(***************************************************************************)
EXTENDS MultipartDriver

CONSTANT MayExpire   \* the service drops blocks that are left uncommitted

VARIABLES blocks,      \* PutBlockSession.uploaded_blocks
          uncommitted, \* service: the uncommitted block of each number
          blob         \* service: the blob, and the task that committed it

vars == <<driverVars, blocks, uncommitted, blob>>

NoBlock == 0
NoBlob == [by |-> 0, parts |-> [i \in Numbers |-> NoBlock]]
Empty == [i \in Numbers |-> NoBlock]

Init == DriverInit /\ blocks = {} /\ uncommitted = Empty /\ blob = NoBlob

-----------------------------------------------------------------------------

\* expected_block_size: the last block of a task is shorter.
BlockSize(t, i) == IF i = Sizes[t] THEN "tail" ELSE "full"

\* validate_all_blocks_present.
AllPresent(n, set) == 1..n \subseteq set

\* validate_remote_blocks_for_resume: every block below the offset.
ResumeFits(set) == AllPresent(stored, set)

\* A first run forgets what an earlier task sent.
PrepareFirst ==
  /\ stored = 0 /\ Prepared(0) /\ blocks' = {}
  /\ UNCHANGED <<uncommitted, blob>>

\* A resume in the same process trusts the blocks it remembers.
PrepareKnown ==
  /\ stored > 0 /\ blocks # {}
  /\ IF ResumeFits(blocks) THEN Prepared(stored) ELSE PrepareFails
  /\ UNCHANGED <<blocks, uncommitted, blob>>

\* validate_remote_block_entries.
EntriesFit(listed) ==
  /\ \A i \in listed : i <= Total /\ BlockSize(uncommitted[i], i) = BlockSize(task, i)
  /\ ResumeFits(listed)

\* list_uncommitted_blocks; a blob without any is an empty list.
Uncommitted == {i \in Numbers : uncommitted[i] # NoBlock}

\* A new instance takes over the blocks it finds, if they fit.
PrepareListed ==
  /\ stored > 0 /\ blocks = {}
  /\ IF EntriesFit(Uncommitted) THEN Prepared(stored) /\ blocks' = Uncommitted
     ELSE PrepareFails /\ UNCHANGED blocks
  /\ UNCHANGED <<uncommitted, blob>>

PrepareLost ==
  /\ stored > 0 /\ blocks = {} /\ PrepareBreaks
  /\ UNCHANGED <<blocks, uncommitted, blob>>

StopPrepare == PrepareStopped /\ UNCHANGED <<blocks, uncommitted, blob>>

-----------------------------------------------------------------------------

SendBlock(i) == Dispatch(i) /\ UNCHANGED <<blocks, uncommitted, blob>>

\* The index is entered in the set once the service answered.
Remember(i, answered) == blocks' = IF answered THEN blocks \cup {i} ELSE blocks

\* Put Block: the answer may be lost, or be an error that is not retried.
ServeBlock(i) ==
  /\ i \in flight /\ uncommitted' = [uncommitted EXCEPT ![i] = task]
  /\ \/ PartDone(i) /\ Remember(i, TRUE)
     \/ PartRefused(i) /\ Remember(i, FALSE)
     \/ Fault /\ PartFails(i) /\ Remember(i, FALSE)
  /\ UNCHANGED blob

\* The request is refused or lost, or not sent any more.
LoseBlock(i) ==
  /\ PartRefused(i) \/ (Fault /\ PartFails(i)) \/ PartCanceled(i)
  /\ Remember(i, FALSE) /\ UNCHANGED <<uncommitted, blob>>

JoinBlocks == Join /\ UNCHANGED <<blocks, uncommitted, blob>>

\* Put Block List with <Latest>: the uncommitted block of an id, else the
\* committed one; the list is refused when one has neither.
Latest(i) == IF uncommitted[i] # NoBlock THEN uncommitted[i] ELSE blob.parts[i]

\* The block list that is committed.
Listed == 1..Total

Complete ==
  /\ pc = "complete"
  /\ IF AllPresent(Total, blocks) /\ \A i \in Listed : Latest(i) # NoBlock
     THEN /\ blob' = [by |-> task, parts |-> [i \in Numbers |-> IF i \in Listed THEN Latest(i) ELSE NoBlock]]
          /\ uncommitted' = Empty
          /\ \/ Completed /\ blocks' = {} /\ UNCHANGED spent
             \/ Fault /\ CompleteFails /\ UNCHANGED blocks
     ELSE CompleteFails /\ UNCHANGED <<spent, blocks, uncommitted, blob>>

LoseComplete == Fault /\ CompleteFails /\ UNCHANGED <<blocks, uncommitted, blob>>

\* DELETE of the blob; what it does to uncommitted blocks is left open.
Abort ==
  /\ Aborted
  /\ \/ UNCHANGED spent /\ blocks' = {} /\ blob' = NoBlob /\ uncommitted' \in {uncommitted, Empty}
     \/ Fault /\ UNCHANGED <<blocks, uncommitted>> /\ blob' \in {blob, NoBlob}

-----------------------------------------------------------------------------

\* The next task uses the same instance, or a new one.
NewTask ==
  /\ Enqueue /\ blocks' \in IF task = 0 THEN {blocks} ELSE {blocks, {}}
  /\ UNCHANGED <<uncommitted, blob>>

ResumeTask == Resume /\ UNCHANGED <<blocks, uncommitted, blob>>
Request == Control /\ UNCHANGED <<blocks, uncommitted, blob>>
NewInstance == Restarted(stored) /\ blocks' = {} /\ UNCHANGED <<uncommitted, blob>>

\* Blocks that were not committed for a week are dropped.
Expire ==
  /\ MayExpire /\ Fault /\ uncommitted # Empty /\ uncommitted' = Empty
  /\ UNCHANGED <<pc, task, stored, acked, flight, broken, stop, fresh, blocks, blob>>

Step ==
  \/ PrepareFirst \/ PrepareKnown \/ PrepareListed \/ StopPrepare \/ JoinBlocks \/ Complete \/ Abort
  \/ \E i \in Numbers : SendBlock(i) \/ ServeBlock(i)

Next ==
  \/ Step \/ PrepareLost \/ LoseComplete \/ NewTask \/ ResumeTask \/ Request \/ NewInstance \/ Expire
  \/ \E i \in Numbers : LoseBlock(i)

Spec == Init /\ [][Next]_vars

-----------------------------------------------------------------------------
(* Properties                                                              *)

\* The blob is the whole file of the task that committed it, and nothing of an
\* earlier task: neither its uncommitted blocks nor the blocks of its blob.
CommittedIsSource ==
  blob.by # 0 =>
    blob.parts = [i \in Numbers |-> IF i <= Sizes[blob.by] THEN blob.by ELSE NoBlock]

\* Every block that counts as done is remembered, so that a completion is
\* never refused for a block that was sent; and the service has the block of
\* this task, or has dropped it.
AckedIsKept ==
  pc \in {"parts", "complete"} => \A i \in acked :
    i \in blocks /\ (uncommitted[i] = task \/ (MayExpire /\ uncommitted[i] = NoBlock))

\* Blocks that the service dropped are not reported as committed.
SentIsCommitted == pc = "done" /\ fresh # {} => blob.by = task

=============================================================================
