----------------------------- MODULE TargetLease -----------------------------
(***************************************************************************)
(* Who may write a download target: TargetLease::acquire takes the lock    *)
(* files of every key of the target and of its sidecar (target_lease.rs),  *)
(* open_locked_target then locks the target itself, and both are given     *)
(* back before the run is reported (exec_impl/exec.rs, transfer_task.rs).  *)
(* The tasks may belong to several clients and processes; the names they   *)
(* were given may be hard links or symbolic links to one file, and the     *)
(* user may unlink or create files meanwhile.                              *)
(*                                                                         *)
(* Names are numbered directory entries.  dir gives the inode of a regular *)
(* one (0 when it does not exist); Link gives the entry a symbolic link    *)
(* points to (0 for a regular entry).                                      *)
(***************************************************************************)
EXTENDS Naturals, FiniteSets

CONSTANTS Tasks, Names, Inodes,
          Link,      \* the symbolic links of the directory
          Reserved,  \* entries inside a .rusty-cat directory
          Dirs,      \* what the directory may hold at first
          Targets,   \* the names the tasks may be given
          Process,   \* the process a task runs in
          Nobody,
          MaxRetries, MaxFaults, MaxCrashes

\* Nobody and 0 stand for nothing; a link points to an entry.
Constants ==
  /\ Nobody \notin Tasks /\ 0 \notin Inodes
  /\ Link \in [Names -> Names \cup {0}]
  /\ Dirs \subseteq [Names -> Inodes \cup {0}] /\ Targets \subseteq [Tasks -> Names]

VARIABLES dir,       \* the inode of every entry
          target,    \* the name each task was given
          pc,        \* where the run of a task is
          keys,      \* keys the acquisition has still to lock
          lease,     \* whether the slot target_lease is filled
          fd,        \* inode of the handle in download_file_slot, 0 when empty
          locks,     \* owner of every lock file
          flock,     \* owner of the lock on every inode
          blocker,   \* the task whose lock refused this one (history)
          spent

vars == <<dir, target, pc, keys, lease, fd, locks, flock, blocker, spent>>

\* Kinds of keys, in the order their bytes sort: "inode:" before "path:".
\* The last one is the path of the sidecar.
Keys == {0} \X Inodes \cup {1, 2} \X Names

Bounds == [retry |-> MaxRetries, fault |-> MaxFaults, crash |-> MaxCrashes]

Spend(kind) == spent[kind] < Bounds[kind] /\ spent' = [spent EXCEPT ![kind] = @ + 1]

Init ==
  /\ dir \in Dirs
  /\ target \in Targets
  /\ pc = [t \in Tasks |-> "idle"]
  /\ keys = [t \in Tasks |-> {}] /\ lease = [t \in Tasks |-> FALSE]
  /\ fd = [t \in Tasks |-> 0]
  /\ locks = [k \in Keys |-> Nobody] /\ flock = [i \in Inodes |-> Nobody]
  /\ blocker = [t \in Tasks |-> Nobody]
  /\ spent = [k \in DOMAIN Bounds |-> 0]

Goto(t, p) == pc' = [pc EXCEPT ![t] = p]

-----------------------------------------------------------------------------
(* Paths                                                                   *)

\* The entry an open of n reaches.
Resolve(n) == IF Link[n] = 0 THEN n ELSE Link[n]

Exists(n) == dir[Resolve(n)] # 0

Dangling(n) == Link[n] # 0 /\ ~Exists(n)

\* normalize_lease_path: what canonicalize gives, and the name as it is when
\* the entry does not resolve.
Normalized(n) == IF Exists(n) THEN Resolve(n) ELSE n

\* ensure_target_outside_sidecar_namespace without its test for dangling
\* links: a link whose entry is missing is taken for a missing name.
OutsideFollowing(n) == n \notin Reserved /\ Normalized(n) \notin Reserved

\* ensure_target_outside_sidecar_namespace: neither the name nor what it
\* resolves to is reserved, and a dangling link is refused.
Outside(n) == OutsideFollowing(n) /\ ~Dangling(n)

\* Faulty variant of PathKeys: the file a target has now, and not its path.
PathKeysByFile(n) == {}

\* The keys of the paths: of the target and of its sidecar, which is named
\* after the target as it was given.
PathKeys(n) == {<<1, Normalized(n)>>, <<2, n>>}

\* The key of the file behind the path, when there is one.
InodeKeys(n) == IF Exists(n) THEN {<<0, dir[Resolve(n)]>>} ELSE {}

Before(k, j) == k[1] < j[1] \/ (k[1] = j[1] /\ k[2] < j[2])

Least(K) == CHOOSE k \in K : \A j \in K \ {k} : Before(k, j)

-----------------------------------------------------------------------------
(* One run of a task                                                       *)

\* A run begins: download_prepare checks the target first.
Start(t) ==
  /\ pc[t] \in {"idle", "paused"}
  /\ Goto(t, "check") /\ blocker' = [blocker EXCEPT ![t] = Nobody]
  /\ UNCHANGED <<dir, target, keys, lease, fd, locks, flock, spent>>

\* The check of download_prepare, and ensure_download_target_lease: a lease
\* that an earlier attempt of this prepare took is kept.
Ensure(t) ==
  /\ pc[t] = "check"
  /\ Goto(t, IF ~Outside(target[t]) THEN "unlock" ELSE IF lease[t] THEN "open" ELSE "path")

Check(t) == Ensure(t) /\ UNCHANGED <<dir, target, keys, lease, fd, locks, flock, blocker, spent>>

\* lease_keys resolves the path of the target and of the sidecar ...
ReadPath(t) ==
  /\ pc[t] = "path"
  /\ keys' = [keys EXCEPT ![t] = PathKeys(target[t])] /\ Goto(t, "inode")
  /\ UNCHANGED <<dir, target, lease, fd, locks, flock, blocker, spent>>

\* ... and asks for the file behind it afterwards.
ReadInode(t) ==
  /\ pc[t] = "inode"
  /\ keys' = [keys EXCEPT ![t] = @ \cup InodeKeys(target[t])] /\ Goto(t, "acquire")
  /\ UNCHANGED <<dir, target, lease, fd, locks, flock, blocker, spent>>

\* The next key, in order, when its lock file is free.
Lock(t) ==
  /\ pc[t] = "acquire" /\ keys[t] # {}
  /\ LET k == Least(keys[t]) IN
     /\ locks[k] = Nobody
     /\ locks' = [locks EXCEPT ![k] = t] /\ keys' = [keys EXCEPT ![t] = @ \ {k}]
  /\ UNCHANGED <<dir, target, pc, lease, fd, flock, blocker, spent>>

\* Faulty variant of GiveUp: a refused acquisition keeps what it has locked.
GiveUpKeeping(t) == Goto(t, "ended")

\* A refused acquisition drops the handles of the lock files it has locked.
GiveUp(t) == Goto(t, "unlock")

\* A lock file is taken: try_lock_exclusive gives WouldBlock.
Contended(t) ==
  /\ pc[t] = "acquire" /\ keys[t] # {}
  /\ LET k == Least(keys[t]) IN
     locks[k] # Nobody /\ blocker' = [blocker EXCEPT ![t] = locks[k]]
  /\ keys' = [keys EXCEPT ![t] = {}] /\ GiveUp(t)
  /\ UNCHANGED <<dir, target, lease, fd, locks, flock, spent>>

\* All keys are locked: the target is checked again and the slot filled.
Leased(t) ==
  /\ pc[t] = "acquire" /\ keys[t] = {}
  /\ lease' = [lease EXCEPT ![t] = Outside(target[t])]
  /\ IF Outside(target[t]) THEN Goto(t, "open") ELSE GiveUp(t)
  /\ UNCHANGED <<dir, target, keys, fd, locks, flock, blocker, spent>>

\* The size of the remote file could not be had; prepare is retried with the
\* lease in its slot, or the run fails.
RetryPrepare(t) ==
  /\ pc[t] = "open" /\ Spend("retry")
  /\ \/ Goto(t, "check") \/ Goto(t, "unlock")
  /\ UNCHANGED <<dir, target, keys, lease, fd, locks, flock, blocker>>

\* An inode nothing refers to: new files may reuse a number.
Unused == Inodes \ ({dir[n] : n \in Names} \cup {fd[t] : t \in Tasks})

\* The open of open_locked_target, which follows links and creates the file.
Opened(t, i) ==
  LET n == Resolve(target[t]) IN
  IF dir[n] # 0 THEN i = dir[n] /\ UNCHANGED dir
  ELSE i \in Unused /\ dir' = [dir EXCEPT ![n] = i]

\* Faulty variant of OpenLocked: the file is opened and not locked.
OpenUnlocked(t) ==
  /\ pc[t] = "open"
  /\ \E i \in Inodes :
       Opened(t, i) /\ fd' = [fd EXCEPT ![t] = i] /\ Goto(t, "write")
  /\ UNCHANGED <<flock, blocker>>

\* The file is opened and locked; when another handle has the lock the run
\* fails, and the lease is given back with it.
OpenLocked(t) ==
  /\ pc[t] = "open"
  /\ \E i \in Inodes :
       /\ Opened(t, i)
       /\ IF flock[i] = Nobody
          THEN /\ flock' = [flock EXCEPT ![i] = t] /\ fd' = [fd EXCEPT ![t] = i]
               /\ Goto(t, "write") /\ UNCHANGED blocker
          ELSE /\ blocker' = [blocker EXCEPT ![t] = flock[i]] /\ Goto(t, "unlock")
               /\ UNCHANGED <<flock, fd>>

Open(t) == OpenLocked(t) /\ UNCHANGED <<target, keys, lease, locks, spent>>

\* The transfer ends: complete, failed, canceled, or stopped by a pause.
Settle(t) ==
  /\ pc[t] = "write"
  /\ \/ Goto(t, "unlock") \/ Goto(t, "park")
  /\ UNCHANGED <<dir, target, keys, lease, fd, locks, flock, blocker, spent>>

\* release_download_target_file_lock closes the handle ...
Unlock(t) ==
  /\ pc[t] \in {"unlock", "park"}
  /\ flock' = [i \in Inodes |-> IF flock[i] = t THEN Nobody ELSE flock[i]]
  /\ fd' = [fd EXCEPT ![t] = 0]
  /\ Goto(t, IF pc[t] = "park" THEN "parkLease" ELSE "dropLease")
  /\ UNCHANGED <<dir, target, keys, lease, locks, blocker, spent>>

\* ... then release_download_target_lease unlocks the lock files one by one
\* (as the handles of a refused acquisition are closed) ...
DropKey(t) ==
  /\ pc[t] \in {"dropLease", "parkLease"}
  /\ LET held == {k \in Keys : locks[k] = t} IN
     held # {} /\ locks' = [locks EXCEPT ![Least(held)] = Nobody]
  /\ lease' = [lease EXCEPT ![t] = FALSE]
  /\ UNCHANGED <<dir, target, pc, keys, fd, flock, blocker, spent>>

\* ... and only then is the end of the run reported.
Report(t) ==
  /\ pc[t] \in {"dropLease", "parkLease"}
  /\ \A k \in Keys : locks[k] # t
  /\ Goto(t, IF pc[t] = "parkLease" THEN "paused" ELSE "ended")
  /\ UNCHANGED <<dir, target, keys, lease, fd, locks, flock, blocker, spent>>

-----------------------------------------------------------------------------
(* Faults                                                                  *)

Live(t) == pc[t] \notin {"idle", "paused", "ended"}

\* A process dies: the operating system closes its handles.
Crash(p) ==
  /\ \E t \in Tasks : Process[t] = p /\ Live(t)
  /\ Spend("crash")
  /\ pc' = [t \in Tasks |-> IF Process[t] = p THEN "ended" ELSE pc[t]]
  /\ keys' = [t \in Tasks |-> IF Process[t] = p THEN {} ELSE keys[t]]
  /\ lease' = [t \in Tasks |-> lease[t] /\ Process[t] # p]
  /\ fd' = [t \in Tasks |-> IF Process[t] = p THEN 0 ELSE fd[t]]
  /\ locks' = [k \in Keys |-> IF locks[k] # Nobody /\ Process[locks[k]] = p THEN Nobody ELSE locks[k]]
  /\ flock' = [i \in Inodes |-> IF flock[i] # Nobody /\ Process[flock[i]] = p THEN Nobody ELSE flock[i]]
  /\ UNCHANGED <<dir, target, blocker>>

\* The user unlinks an entry, or creates a file where there is none.
Meddle(n) ==
  /\ Link[n] = 0 /\ Spend("fault")
  /\ \/ dir[n] # 0 /\ dir' = [dir EXCEPT ![n] = 0]
     \/ dir[n] = 0 /\ \E i \in Unused : dir' = [dir EXCEPT ![n] = i]
  /\ UNCHANGED <<target, pc, keys, lease, fd, locks, flock, blocker>>

TaskStep(t) ==
  \/ Start(t) \/ Check(t) \/ ReadPath(t) \/ ReadInode(t) \/ Lock(t) \/ Contended(t)
  \/ Leased(t) \/ RetryPrepare(t) \/ Open(t) \/ Settle(t) \/ Unlock(t)
  \/ DropKey(t) \/ Report(t)

Next ==
  \/ \E t \in Tasks : TaskStep(t)
  \/ \E p \in {Process[t] : t \in Tasks} : Crash(p)
  \/ \E n \in Names : Meddle(n)

Spec == Init /\ [][Next]_vars

-----------------------------------------------------------------------------
(* Properties                                                              *)

Writers == {t \in Tasks : pc[t] = "write"}

\* open_locked_target: two tasks never write one file at the same time, be it
\* through the same name, a hard link or a symbolic link, and whatever the user
\* does to the names between the lease and the open.
OneWriter == \A t, u \in Writers : t # u => fd[t] # fd[u]

\* TargetLease::acquire: two tasks that write have different sidecars, also
\* when the file behind the name was unlinked and created again, so that the
\* lock on the file does not make them meet.
OneSidecar == \A t, u \in Writers : t # u => target[t] # target[u]

\* exec.rs releases the file and then the lease on every path out of a run
\* before it reports: a task whose end is visible, a refused one included, holds
\* no lock that would refuse the next task on the target.
ReportedHoldsNothing ==
  \A t \in Tasks : ~Live(t) =>
    /\ fd[t] = 0 /\ ~lease[t]
    /\ \A k \in Keys : locks[k] # t
    /\ \A i \in Inodes : flock[i] # t

\* ensure_download_target_lease and ensure_download_target_file_locked keep what
\* an earlier attempt took: a task is only ever refused by another one.
RefusedByOther == \A t \in Tasks : blocker[t] # t

\* ensure_target_outside_sidecar_namespace: no task writes an entry of the
\* private directory of the checkpoints, a link into it that dangled when it was
\* checked included.
OutsideNamespace == \A t \in Writers : Resolve(target[t]) \notin Reserved

=============================================================================
