----------------------------- MODULE MCScheduler -----------------------------
(***************************************************************************)
(* Instances of the scheduler for TLC.                                     *)
(***************************************************************************)
EXTENDS Scheduler, TLC

CONSTANTS t1, t2, t3, u1, u2, d1

\* Two uploads compete for one slot; t1 and t2 are the same file.
UploadKeyOf == (t1 :> u1) @@ (t2 :> u1) @@ (t3 :> u2)
UploadDirOf == (u1 :> "Upload") @@ (u2 :> "Upload")

\* An upload and a download, each in its own slot, share the event channel.
PairKeyOf == (t1 :> u1) @@ (t2 :> d1)
PairDirOf == (u1 :> "Upload") @@ (d1 :> "Download")

OneEach == [d \in Direction |-> 1]

\* t1 and t2 share key, direction and size in the first instance.
SameFile == Permutations({t1, t2})
=============================================================================
