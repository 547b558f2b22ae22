------------------------------- MODULE MCFiles -------------------------------
(***************************************************************************)
(* The local files for TLC: the locks on download targets, the directory   *)
(* of the checkpoints, and the source of an upload, each beside other      *)
(* tasks, processes or programs.  In each behaviour one scenario with      *)
(* bounds of its own; the scenarios share pc and spent.                    *)
(***************************************************************************)
EXTENDS Naturals, TLC

CONSTANTS Scenarios, a, b, c, Nobody, w1, w2, i1, i2, v1, v2

VARIABLES scenario, pc, spent,
          dir, target, keys, lease, fd, locks, flock, blocker,
          namespace, marker, foreign, sidecar, temps, sequence, mine, refused, began,
          disk, path, snap, open, accepted, lock, job, run, guard, sent, seen, ever

leaseVars == <<dir, target, keys, lease, fd, locks, flock, blocker>>
namespaceVars == <<namespace, marker, foreign, sidecar, temps, sequence, mine, refused, began>>
sourceVars == <<disk, path, snap, open, accepted, lock, job, run, guard, sent, seen, ever>>
vars == <<scenario, pc, spent, leaseVars, namespaceVars, sourceVars>>

\* Two processes.  Entry 1 is a file (or missing), 2 another name for it (or
\* missing), 3 a symbolic link to 1, 5 an entry of a .rusty-cat directory (or
\* missing) and 4 a link to it.
Lease == INSTANCE TargetLease WITH
  Tasks <- {a, b}, Names <- 1..5, Inodes <- 1..3, Link <- <<0, 0, 1, 5, 0>>, Reserved <- {5},
  Dirs <- {<<0, 0, 0, 0, 0>>, <<1, 1, 0, 0, 2>>},
  Targets <- {(a :> n) @@ (b :> m) : n \in 1..4, m \in {1, 3}},
  Process <- (a :> a) @@ (b :> b), MaxRetries <- 0, MaxFaults <- 1, MaxCrashes <- 0

\* Three tasks on the first three names, two of them in one process.
Trio == INSTANCE TargetLease WITH
  Tasks <- {a, b, c}, Names <- 1..3, Inodes <- {1}, Link <- <<0, 0, 1>>, Reserved <- {},
  Dirs <- {<<1, 1, 0>>}, Targets <- {(a :> 1) @@ (b :> 2) @@ (c :> n) : n \in {1, 3}},
  Process <- (a :> a) @@ (b :> b) @@ (c :> a), MaxRetries <- 1, MaxFaults <- 0, MaxCrashes <- 1

\* Tasks a and c have one target, b has another in the same directory.
Namespace == INSTANCE SidecarNamespace WITH
  Tasks <- {a, b, c}, Home <- (a :> 1) @@ (b :> 2) @@ (c :> 1),
  MaxCheckpoints <- 3, MaxFaults <- 1, MaxCrashes <- 1

\* One reader, and a program that may hide one of its writes from the metadata.
Source == INSTANCE UploadSource WITH
  Workers <- {w1}, Size <- 2, Inodes <- {i1, i2}, Values <- {v1, v2}, Lengths <- {1, 2, 3},
  MaxChanges <- 2, MaxHidden <- 1, MaxRuns <- 1, MaxJobs <- 3

\* Two readers, over two runs.
Readers == INSTANCE UploadSource WITH
  Workers <- {w1, w2}, Size <- 2, Inodes <- {i1}, Values <- {v1, v2}, Lengths <- {2},
  MaxChanges <- 1, MaxHidden <- 1, MaxRuns <- 2, MaxJobs <- 2

ASSUME Leasable == Lease!Constants /\ Trio!Constants
ASSUME Readable == Source!Constants /\ Readers!Constants

NoTask == pc = "none"
NoLease ==
  /\ dir = {} /\ target = {} /\ keys = {} /\ lease = {} /\ fd = {} /\ locks = {} /\ flock = {}
  /\ blocker = {}
NoNamespace ==
  /\ namespace = {} /\ marker = {} /\ foreign = {} /\ sidecar = {} /\ temps = {} /\ sequence = {}
  /\ mine = {} /\ refused = {} /\ began = {}
NoSource ==
  /\ disk = {} /\ path = {} /\ snap = {} /\ open = {} /\ accepted = {} /\ lock = {} /\ job = {}
  /\ run = {} /\ guard = {} /\ sent = {} /\ seen = {} /\ ever = {}

Init ==
  /\ scenario \in Scenarios
  /\ \/ scenario = "lease" /\ Lease!Init /\ NoNamespace /\ NoSource
     \/ scenario = "trio" /\ Trio!Init /\ NoNamespace /\ NoSource
     \/ scenario = "namespace" /\ Namespace!Init /\ NoLease /\ NoSource
     \/ scenario = "source" /\ Source!Init /\ NoTask /\ NoLease /\ NoNamespace
     \/ scenario = "readers" /\ Readers!Init /\ NoTask /\ NoLease /\ NoNamespace

LeaseKept == UNCHANGED <<scenario, namespaceVars, sourceVars>>
NamespaceKept == UNCHANGED <<scenario, leaseVars, sourceVars>>
SourceKept == UNCHANGED <<scenario, pc, leaseVars, namespaceVars>>

LeaseStep == scenario = "lease" /\ Lease!Next /\ LeaseKept
TrioStep == scenario = "trio" /\ Trio!Next /\ LeaseKept
NamespaceStep == scenario = "namespace" /\ Namespace!Next /\ NamespaceKept
SourceStep == scenario = "source" /\ Source!Next /\ SourceKept
ReadersStep == scenario = "readers" /\ Readers!Next /\ SourceKept

Next ==
  \/ LeaseStep \/ TrioStep \/ NamespaceStep \/ SourceStep \/ ReadersStep

Spec == Init /\ [][Next]_vars

\* The readers, the inodes and the values of the blocks of a source are interchangeable.
Interchangeable ==
  Permutations({w1, w2}) \cup Permutations({i1, i2}) \cup Permutations({v1, v2})

-----------------------------------------------------------------------------
(* Properties                                                              *)

\* Two tasks never write one file at the same time, be it through the same
\* name, a hard link or a symbolic link, in one process or in two, and whatever
\* the user does to the names between the lease and the open
\* (open_locked_target).
OneWriter ==
  /\ scenario = "lease" => Lease!OneWriter
  /\ scenario = "trio" => Trio!OneWriter

\* Two tasks that write have different sidecars, also when the file behind the
\* name was unlinked and created again, so that the lock on the file does not
\* make them meet (TargetLease::acquire).
OneSidecar ==
  /\ scenario = "lease" => Lease!OneSidecar
  /\ scenario = "trio" => Trio!OneSidecar

\* A task whose end is visible, a refused one included, holds no lock that would
\* refuse the next task on the target, and only another task ever refuses one
\* (release_terminal_download_target, ensure_download_target_lease).
ReportedHoldsNothing ==
  /\ scenario = "lease" => Lease!ReportedHoldsNothing /\ Lease!RefusedByOther
  /\ scenario = "trio" => Trio!ReportedHoldsNothing /\ Trio!RefusedByOther

\* The private directory is shared by tasks and never taken from the user:
\* tasks that claim it at the same time, or after a process died half way, do
\* not refuse each other; what the user has there is neither claimed nor
\* replaced; and no download writes into it (ensure_sidecar_namespace,
\* sidecar_destination_is_absent, ensure_target_outside_sidecar_namespace).
\* Cleaning up removes leftovers only, and all of them but one for each process
\* that died: the temporary file a live task is about to rename is there, whoever
\* loads at the same time (cleanup_stale_checkpoint_temps).
NamespaceIsShared ==
  /\ scenario = "lease" => Lease!OutsideNamespace
  /\ scenario = "namespace" =>
       /\ Namespace!ClaimsCooperate /\ Namespace!NeverClaimsForeign /\ Namespace!OddEntriesStay
       /\ Namespace!TempsAreSafe /\ Namespace!LeftoversBounded

\* Every block handed to the provider is the block that was hashed for the
\* signature, whatever happened to the file or its metadata since, and a source
\* that is completed was sent to its last block (read_verified_range_blocking).
SentIsSigned ==
  /\ scenario = "source" => Source!SentIsSigned /\ Source!SentWhole
  /\ scenario = "readers" => Readers!SentIsSigned /\ Readers!SentWhole

\* At completion the visible file was read again: each block of one file the
\* path named during the validation was seen with its hashed value, even if the
\* metadata never showed a change.  If writes do show, the hash is of one
\* content the file had, and the file held it as a whole at one moment of the
\* validation (validate_generation_blocking).
CompletionReadsVisible ==
  /\ scenario = "source" =>
       /\ Source!CompletionReadsVisible
       /\ Source!SnapshotIsOneContent /\ Source!CompletionSawOneGeneration
  /\ scenario = "readers" =>
       /\ Readers!CompletionReadsVisible
       /\ Readers!SnapshotIsOneContent /\ Readers!CompletionSawOneGeneration

=============================================================================
