------------------------- MODULE TargetLeaseProofs -------------------------
(***************************************************************************)
(* Proofs about the lease on a download target, for any number of tasks,   *)
(* processes, names, links and files, and whatever the user does to the    *)
(* names meanwhile.                                                        *)
(***************************************************************************)
EXTENDS TargetLease, TLAPS

TypeOK ==
  /\ dir \in [Names -> Inodes \cup {0}] /\ target \in [Tasks -> Names]
  /\ pc \in [Tasks -> {"idle", "check", "path", "inode", "acquire", "open", "write", "unlock",
                       "park", "dropLease", "parkLease", "paused", "ended"}]
  /\ keys \in [Tasks -> SUBSET Keys] /\ lease \in [Tasks -> BOOLEAN]
  /\ fd \in [Tasks -> Inodes \cup {0}]
  /\ locks \in [Keys -> Tasks \cup {Nobody}] /\ flock \in [Inodes -> Tasks \cup {Nobody}]
  /\ blocker \in [Tasks -> Tasks \cup {Nobody}]

SidecarKey(t) == <<2, target[t]>>

Locked(t) == {k \in Keys : locks[k] = t}

\* Keys of different kinds: there is one of each at most, so they have a least.
OneOfAKind(K) == \A k, j \in K : k[1] = j[1] => k = j

\* What a task asks for it does not have, and it has its sidecar once it holds
\* the lease, or is on the way to it.
LeaseInv(t) ==
  /\ lease[t] => locks[SidecarKey(t)] = t /\ Resolve(target[t]) \notin Reserved
  /\ lease[t] => pc[t] \in {"check", "open", "write", "unlock", "park", "dropLease", "parkLease"}
  /\ pc[t] \in {"open", "write"} => lease[t]
  /\ pc[t] = "inode" => SidecarKey(t) \in keys[t] /\ \A k \in keys[t] : k[1] # 0
  /\ pc[t] = "acquire" => SidecarKey(t) \in keys[t] \/ locks[SidecarKey(t)] = t
  /\ pc[t] \notin {"inode", "acquire"} => keys[t] = {}
  /\ \/ pc[t] \in {"idle", "paused", "ended", "path", "inode"}
     \/ pc[t] = "check" /\ ~lease[t]
     => Locked(t) = {}
  /\ keys[t] \cap Locked(t) = {}
  /\ OneOfAKind(keys[t] \cup Locked(t))

\* A task has the file it writes locked, and only that one.
FileInv(t) ==
  /\ pc[t] = "write" => fd[t] \in Inodes /\ flock[fd[t]] = t
  /\ pc[t] \notin {"write", "unlock", "park"} => fd[t] = 0 /\ \A i \in Inodes : flock[i] # t

\* Only another task ever refused this one.
TaskInv(t) == LeaseInv(t) /\ FileInv(t) /\ blocker[t] # t

IInv == TypeOK /\ \A t \in Tasks : TaskInv(t)

-----------------------------------------------------------------------------

\* The keys of a task are keys.
LEMMA KeysOfPaths ==
  ASSUME Constants, TypeOK, NEW t \in Tasks
  PROVE  /\ Resolve(target[t]) \in Names /\ SidecarKey(t) \in Keys
         /\ PathKeys(target[t]) \subseteq Keys /\ InodeKeys(target[t]) \subseteq Keys
<1>1. target[t] \in Names /\ Link[target[t]] \in Names \cup {0}
  BY Zenon DEF Constants, TypeOK
<1>2. Resolve(target[t]) \in Names
  BY <1>1, Zenon DEF Resolve
<1>3. SidecarKey(t) \in Keys
  BY <1>1, Zenon DEF SidecarKey, Keys
<1>4. PathKeys(target[t]) \subseteq Keys
  BY <1>1, <1>2 DEF PathKeys, Normalized, Keys
<1>5. InodeKeys(target[t]) \subseteq Keys
  <2>1. Exists(target[t]) => dir[Resolve(target[t])] \in Inodes
    BY <1>2, Zenon DEF TypeOK, Exists
  <2> QED
    BY <2>1 DEF InodeKeys, Keys
<1> QED
  BY <1>2, <1>3, <1>4, <1>5, Zenon

\* The first of the keys of a task is one of them: lease_keys sorts them, and
\* they are of different kinds.
LEMMA LeastIsOne ==
  ASSUME NEW K \in SUBSET Keys, K # {}, OneOfAKind(K)
  PROVE  Least(K) \in K
<1>1. \A k \in K : k[1] \in {0, 1, 2}
  BY Zenon DEF Keys
<1>2. \E k \in K : \A j \in K : k[1] <= j[1]
  <2>1. CASE \E k \in K : k[1] = 0
    BY <1>1, <2>1
  <2>2. CASE (\A k \in K : k[1] # 0) /\ \E k \in K : k[1] = 1
    BY <1>1, <2>2
  <2>3. CASE \A k \in K : k[1] # 0 /\ k[1] # 1
    BY <1>1, <2>3
  <2> QED
    BY <2>1, <2>2, <2>3, Zenon
<1>3. PICK k \in K : \A j \in K : k[1] <= j[1]
  BY <1>2, Zenon
<1>4. \A j \in K \ {k} : Before(k, j)
  BY <1>1, <1>3 DEF Before, OneOfAKind
<1> QED
  BY <1>4, Zenon DEF Least

\* A target that was found outside the private directory leads outside of it.
LEMMA OutsideStays ==
  ASSUME NEW n \in Names, Outside(n)
  PROVE  Resolve(n) \notin Reserved
BY Zenon DEF Outside, OutsideFollowing, Dangling, Normalized, Resolve, Exists

-----------------------------------------------------------------------------
(* What a step leaves alone                                                *)

Same(u) ==
  /\ pc'[u] = pc[u] /\ keys'[u] = keys[u] /\ lease'[u] = lease[u] /\ fd'[u] = fd[u]
  /\ target'[u] = target[u] /\ blocker'[u] = blocker[u]
  /\ \A k \in Keys : locks'[k] = u <=> locks[k] = u
  /\ \A i \in Inodes : flock'[i] = u <=> flock[i] = u

\* A task that keeps its state and its locks keeps its invariant.
LEMMA Untouched ==
  ASSUME Constants, TypeOK, NEW u \in Tasks, TaskInv(u), Same(u)
  PROVE  TaskInv(u)'
<1>1. SidecarKey(u) \in Keys /\ SidecarKey(u)' = SidecarKey(u)
  BY KeysOfPaths, Zenon DEF Same, SidecarKey
<1>2. Locked(u)' = Locked(u)
  BY Zenon DEF Locked, Same
<1>3. Resolve(target[u])' = Resolve(target[u])
  BY Zenon DEF Resolve, Same
<1>4. LeaseInv(u)'
  BY <1>1, <1>2, <1>3, Zenon DEF LeaseInv, TaskInv, Same, OneOfAKind
<1>5. FileInv(u)'
  <2>1. fd[u] \in Inodes => (flock'[fd[u]] = u <=> flock[fd[u]] = u)
    BY Zenon DEF Same
  <2> QED
    BY <2>1, Zenon DEF FileInv, TaskInv, Same
<1> QED
  BY <1>4, <1>5, Zenon DEF TaskInv, Same

\* A task that moves on with its lease, or without one towards its release,
\* keeps what it relies on.
LEMMA LeaseKept ==
  ASSUME NEW t \in Tasks, LeaseInv(t), UNCHANGED <<target, keys, lease, locks>>,
         pc[t] \notin {"inode", "acquire"},
         pc'[t] \in {"check", "open", "write"} => lease[t],
         pc'[t] \in {"check", "open", "write", "unlock", "park", "dropLease", "parkLease"}
  PROVE  LeaseInv(t)'
<1>1. /\ Locked(t)' = Locked(t) /\ SidecarKey(t)' = SidecarKey(t)
      /\ Resolve(target[t])' = Resolve(target[t])
  BY Zenon DEF Locked, SidecarKey, Resolve
<1> QED
  BY <1>1, Zenon DEF LeaseInv, OneOfAKind

\* A step of one task preserves the invariant if it does for that task.
LEMMA OneTask ==
  ASSUME Constants, IInv, NEW t \in Tasks, TypeOK', TaskInv(t)', \A u \in Tasks \ {t} : Same(u)
  PROVE  IInv'
<1>1. \A u \in Tasks \ {t} : TaskInv(u)'
  BY Untouched, Zenon DEF IInv
<1> QED
  BY <1>1, Zenon DEF IInv

-----------------------------------------------------------------------------
(* The steps of a task                                                     *)

\* A run begins (download_prepare).
LEMMA Starts ==
  ASSUME Constants, IInv, NEW t \in Tasks, Start(t)
  PROVE  IInv'
<1> USE DEF IInv
<1>1. TypeOK'
  BY Zenon DEF TypeOK, Start, Goto
<1>2. pc'[t] = "check" /\ blocker'[t] = Nobody
  BY Zenon DEF TypeOK, Start, Goto
<1>3. TaskInv(t)'
  BY <1>2 DEF Start, TaskInv, LeaseInv, FileInv, Locked, SidecarKey, OneOfAKind, Resolve, Constants
<1>4. \A u \in Tasks \ {t} : Same(u)
  BY Zenon DEF TypeOK, Start, Goto, Same
<1> QED
  BY <1>1, <1>3, <1>4, OneTask, Zenon

\* The target is checked, and a lease in its slot kept (ensure_download_target_lease).
LEMMA Checks ==
  ASSUME Constants, IInv, NEW t \in Tasks, Check(t)
  PROVE  IInv'
<1> USE DEF IInv
<1>1. TypeOK'
  BY Zenon DEF TypeOK, Check, Ensure, Goto
<1>2. pc[t] = "check" /\ pc'[t] \in {"unlock", "open", "path"}
      /\ (pc'[t] = "open" => lease[t]) /\ (pc'[t] = "path" => ~lease[t])
  BY Zenon DEF TypeOK, Check, Ensure, Goto
<1>3. TaskInv(t)'
  BY <1>2 DEF Check, TaskInv, LeaseInv, FileInv, Locked, SidecarKey, OneOfAKind, Resolve
<1>4. \A u \in Tasks \ {t} : Same(u)
  BY Zenon DEF TypeOK, Check, Ensure, Goto, Same
<1> QED
  BY <1>1, <1>3, <1>4, OneTask, Zenon

\* The path is resolved: the keys have kinds 1 and 2 (lease_keys).
LEMMA ReadsPath ==
  ASSUME Constants, IInv, NEW t \in Tasks, ReadPath(t)
  PROVE  IInv'
<1> USE DEF IInv
<1>1. TypeOK'
  BY KeysOfPaths, Zenon DEF TypeOK, ReadPath, Goto
<1>2. /\ pc[t] = "path" /\ pc'[t] = "inode" /\ keys'[t] = PathKeys(target[t])
      /\ UNCHANGED <<target, lease, fd, locks, flock, blocker>>
  BY Zenon DEF TypeOK, ReadPath, Goto
<1>3. TaskInv(t)'
  <2>1. Locked(t) = {} /\ Locked(t)' = {} /\ ~lease[t]
    <3>1. LeaseInv(t)
      BY Zenon DEF TaskInv
    <3>2. Locked(t) = {} /\ ~lease[t]
      BY <1>2, <3>1, Zenon DEF LeaseInv
    <3> QED
      BY <1>2, <3>2, Zenon DEF Locked
  <2>2. SidecarKey(t)' \in keys'[t] /\ \A k \in keys'[t] : k[1] # 0
    BY <1>2 DEF PathKeys, SidecarKey
  <2>3. OneOfAKind(keys'[t])
    BY <1>2 DEF PathKeys, OneOfAKind
  <2>4. LeaseInv(t)'
    BY <1>2, <2>1, <2>2, <2>3, Zenon DEF LeaseInv
  <2> QED
    BY <1>2, <2>4, Zenon DEF TaskInv, FileInv
<1>4. \A u \in Tasks \ {t} : Same(u)
  BY Zenon DEF TypeOK, ReadPath, Goto, Same
<1> QED
  BY <1>1, <1>3, <1>4, OneTask, Zenon

\* The file behind the path adds a key of kind 0 (lease_keys).
LEMMA ReadsInode ==
  ASSUME Constants, IInv, NEW t \in Tasks, ReadInode(t)
  PROVE  IInv'
<1> USE DEF IInv
<1>1. TypeOK'
  BY KeysOfPaths, Zenon DEF TypeOK, ReadInode, Goto
<1>2. /\ pc[t] = "inode" /\ pc'[t] = "acquire" /\ keys'[t] = keys[t] \cup InodeKeys(target[t])
      /\ UNCHANGED <<target, lease, fd, locks, flock, blocker>>
  BY Zenon DEF TypeOK, ReadInode, Goto
<1>3. TaskInv(t)'
  <2>1. Locked(t) = {} /\ Locked(t)' = {} /\ ~lease[t]
    <3>1. LeaseInv(t)
      BY Zenon DEF TaskInv
    <3>2. Locked(t) = {} /\ ~lease[t]
      BY <1>2, <3>1, Zenon DEF LeaseInv
    <3> QED
      BY <1>2, <3>2, Zenon DEF Locked
  <2>2. SidecarKey(t)' \in keys'[t]
    BY <1>2, Zenon DEF TaskInv, LeaseInv, SidecarKey
  <2>3. OneOfAKind(keys'[t])
    <3>1. OneOfAKind(keys[t]) /\ \A k \in keys[t] : k[1] # 0
      BY <1>2 DEF TaskInv, LeaseInv, OneOfAKind
    <3>2. \A k, j \in InodeKeys(target[t]) : k[1] = 0 /\ k = j
      BY DEF InodeKeys
    <3> QED
      BY <1>2, <3>1, <3>2, Zenon DEF OneOfAKind
  <2>4. LeaseInv(t)'
    BY <1>2, <2>1, <2>2, <2>3, Zenon DEF LeaseInv
  <2> QED
    BY <1>2, <2>4, Zenon DEF TaskInv, FileInv
<1>4. \A u \in Tasks \ {t} : Same(u)
  BY Zenon DEF TypeOK, ReadInode, Goto, Same
<1> QED
  BY <1>1, <1>3, <1>4, OneTask, Zenon

\* The next key is locked: it moves from the keys asked for to the keys held
\* (TargetLease::acquire).
LEMMA Locks ==
  ASSUME Constants, IInv, NEW t \in Tasks, Lock(t)
  PROVE  IInv'
<1> DEFINE k == Least(keys[t])
<1>1. LeaseInv(t) /\ FileInv(t) /\ blocker[t] # t /\ TypeOK /\ SidecarKey(t) \in Keys
  BY KeysOfPaths, Zenon DEF IInv, TaskInv
<1>2. k \in keys[t] /\ k \in Keys
  <2>1. keys[t] \in SUBSET Keys /\ keys[t] # {} /\ OneOfAKind(keys[t])
    BY <1>1, Zenon DEF TypeOK, Lock, LeaseInv, OneOfAKind
  <2> QED
    BY <2>1, LeastIsOne, Zenon
<1>3. /\ pc[t] = "acquire" /\ locks[k] = Nobody
      /\ locks' = [locks EXCEPT ![k] = t] /\ keys' = [keys EXCEPT ![t] = @ \ {k}]
      /\ UNCHANGED <<dir, target, pc, lease, fd, flock, blocker>>
  BY Zenon DEF Lock
<1> HIDE DEF k
<1>4. TypeOK'
  BY <1>1, <1>2, <1>3, Zenon DEF TypeOK
<1>5. keys'[t] = keys[t] \ {k} /\ \A j \in Keys : locks'[j] = IF j = k THEN t ELSE locks[j]
  BY <1>1, <1>2, <1>3, Zenon DEF TypeOK
<1>6. Locked(t)' = Locked(t) \cup {k}
  BY <1>2, <1>5, Zenon DEF Locked
<1>7. TaskInv(t)'
  <2>1. ~lease[t] /\ (SidecarKey(t) \in keys[t] \/ locks[SidecarKey(t)] = t)
    BY <1>1, <1>3, Zenon DEF LeaseInv
  <2>2. SidecarKey(t)' = SidecarKey(t)
    BY <1>3, Zenon DEF SidecarKey
  <2>3. SidecarKey(t)' \in keys'[t] \/ locks'[SidecarKey(t)'] = t
    BY <1>1, <1>5, <2>1, <2>2, Zenon
  <2>4. keys'[t] \cap Locked(t)' = {} /\ keys'[t] \cup Locked(t)' = keys[t] \cup Locked(t)
    BY <1>1, <1>2, <1>5, <1>6, Zenon DEF LeaseInv
  <2>5. LeaseInv(t)'
    BY <1>1, <1>3, <2>1, <2>3, <2>4, Zenon DEF LeaseInv, OneOfAKind
  <2> QED
    BY <1>1, <1>3, <2>5, Zenon DEF TaskInv, FileInv
<1>8. \A u \in Tasks \ {t} : Same(u)
  BY <1>1, <1>3, <1>5 DEF TypeOK, Same, Constants
<1> QED
  BY <1>4, <1>7, <1>8, OneTask, Zenon

\* A key is taken, and by another task: the acquisition is refused
\* (TargetLease::acquire).
LEMMA Contends ==
  ASSUME Constants, IInv, NEW t \in Tasks, Contended(t)
  PROVE  IInv'
<1> DEFINE k == Least(keys[t])
<1>1. LeaseInv(t) /\ FileInv(t) /\ TypeOK
  BY Zenon DEF IInv, TaskInv
<1>2. k \in keys[t] /\ k \in Keys
  <2>1. keys[t] \in SUBSET Keys /\ keys[t] # {} /\ OneOfAKind(keys[t])
    BY <1>1, Zenon DEF TypeOK, Contended, LeaseInv, OneOfAKind
  <2> QED
    BY <2>1, LeastIsOne, Zenon
<1>3. /\ pc[t] = "acquire" /\ blocker' = [blocker EXCEPT ![t] = locks[k]]
      /\ keys' = [keys EXCEPT ![t] = {}] /\ pc' = [pc EXCEPT ![t] = "unlock"]
      /\ UNCHANGED <<dir, target, lease, fd, locks, flock>>
  BY Zenon DEF Contended, GiveUp, Goto
<1> HIDE DEF k
<1>4. locks[k] # t
  BY <1>1, <1>2, Zenon DEF LeaseInv, Locked
<1>5. TypeOK' /\ pc'[t] = "unlock" /\ keys'[t] = {} /\ blocker'[t] # t
  BY <1>1, <1>2, <1>3, <1>4, Zenon DEF TypeOK
<1>6. ~lease[t] /\ Locked(t)' = Locked(t)
  BY <1>1, <1>3, Zenon DEF LeaseInv, Locked
<1>7. LeaseInv(t)'
  BY <1>1, <1>3, <1>5, <1>6 DEF LeaseInv, OneOfAKind
<1>8. \A u \in Tasks \ {t} : Same(u)
  BY <1>1, <1>3, Zenon DEF TypeOK, Same
<1>9. TaskInv(t)'
  BY <1>5, <1>7, Zenon DEF TaskInv, FileInv
<1> QED
  BY <1>5, <1>8, <1>9, OneTask, Zenon

\* All keys are locked: the sidecar is among them, and the target is outside
\* the private directory or the lease given up (ensure_download_target_lease).
LEMMA Leases ==
  ASSUME Constants, IInv, NEW t \in Tasks, Leased(t)
  PROVE  IInv'
<1>1. LeaseInv(t) /\ FileInv(t) /\ blocker[t] # t /\ TypeOK /\ target[t] \in Names
  BY Zenon DEF IInv, TaskInv, TypeOK
<1>2. /\ pc[t] = "acquire" /\ keys[t] = {}
      /\ lease' = [lease EXCEPT ![t] = Outside(target[t])]
      /\ pc' = [pc EXCEPT ![t] = IF Outside(target[t]) THEN "open" ELSE "unlock"]
      /\ UNCHANGED <<dir, target, keys, fd, locks, flock, blocker>>
  BY Zenon DEF Leased, GiveUp, Goto
<1>3. Outside(target[t]) \in BOOLEAN
  BY Zenon DEF Outside, OutsideFollowing, Dangling
<1>4. TypeOK'
  BY <1>1, <1>2, <1>3, Zenon DEF TypeOK
<1>5. /\ pc'[t] = (IF Outside(target[t]) THEN "open" ELSE "unlock")
      /\ lease'[t] = Outside(target[t])
  BY <1>1, <1>2, Zenon DEF TypeOK
<1>6. locks'[SidecarKey(t)'] = t /\ Locked(t)' = Locked(t)
  BY <1>1, <1>2, Zenon DEF LeaseInv, SidecarKey, Locked
<1>7. lease'[t] => Resolve(target[t])' \notin Reserved
  BY <1>1, <1>2, <1>5, OutsideStays, Zenon DEF Resolve
<1>8. LeaseInv(t)'
  BY <1>1, <1>2, <1>5, <1>6, <1>7 DEF LeaseInv, OneOfAKind
<1>9. FileInv(t)'
  BY <1>1, <1>2, <1>5 DEF FileInv
<1>10. \A u \in Tasks \ {t} : Same(u)
  BY <1>1, <1>2, Zenon DEF TypeOK, Same
<1>11. TaskInv(t)'
  BY <1>1, <1>2, <1>8, <1>9, Zenon DEF TaskInv
<1> QED
  BY <1>4, <1>10, <1>11, OneTask, Zenon

\* Prepare is tried again with the lease in its slot, or the run ends.
LEMMA Retries ==
  ASSUME Constants, IInv, NEW t \in Tasks, RetryPrepare(t) \/ Settle(t)
  PROVE  IInv'
<1>1. LeaseInv(t) /\ FileInv(t) /\ blocker[t] # t /\ TypeOK
  BY Zenon DEF IInv, TaskInv
<1>2. /\ \/ pc[t] = "open" /\ \E p \in {"check", "unlock"} : pc' = [pc EXCEPT ![t] = p]
         \/ pc[t] = "write" /\ \E p \in {"unlock", "park"} : pc' = [pc EXCEPT ![t] = p]
      /\ UNCHANGED <<dir, target, keys, lease, fd, locks, flock, blocker>>
  BY Zenon DEF RetryPrepare, Settle, Goto
<1>3. TypeOK'
  BY <1>1, <1>2, Zenon DEF TypeOK
<1>4. \/ pc[t] = "open" /\ pc'[t] \in {"check", "unlock"}
      \/ pc[t] = "write" /\ pc'[t] \in {"unlock", "park"}
  BY <1>1, <1>2, Zenon DEF TypeOK
<1>5. lease[t]
  BY <1>1, <1>2, Zenon DEF LeaseInv
<1>6. LeaseInv(t)'
  BY <1>1, <1>2, <1>4, <1>5, LeaseKept, Zenon
<1>7. FileInv(t)'
  BY <1>1, <1>2, <1>4, Zenon DEF FileInv
<1>8. \A u \in Tasks \ {t} : Same(u)
  BY <1>1, <1>2, Zenon DEF TypeOK, Same
<1>9. TaskInv(t)'
  BY <1>1, <1>2, <1>6, <1>7, Zenon DEF TaskInv
<1> QED
  BY <1>3, <1>8, <1>9, OneTask, Zenon

\* The file is opened: its lock is taken, or another task has it
\* (open_locked_target).
LEMMA Opens ==
  ASSUME Constants, IInv, NEW t \in Tasks, Open(t)
  PROVE  IInv'
<1>1. LeaseInv(t) /\ FileInv(t) /\ blocker[t] # t /\ TypeOK /\ Resolve(target[t]) \in Names
  BY KeysOfPaths, Zenon DEF IInv, TaskInv
<1>2. PICK i \in Inodes :
        /\ Opened(t, i)
        /\ IF flock[i] = Nobody
           THEN /\ flock' = [flock EXCEPT ![i] = t] /\ fd' = [fd EXCEPT ![t] = i]
                /\ pc' = [pc EXCEPT ![t] = "write"] /\ UNCHANGED blocker
           ELSE /\ blocker' = [blocker EXCEPT ![t] = flock[i]] /\ pc' = [pc EXCEPT ![t] = "unlock"]
                /\ UNCHANGED <<flock, fd>>
  BY Zenon DEF Open, OpenLocked, Goto
<1>3. pc[t] = "open" /\ UNCHANGED <<target, keys, lease, locks>>
  BY Zenon DEF Open, OpenLocked
<1>4. dir' \in [Names -> Inodes \cup {0}]
  BY <1>1, <1>2 DEF Opened, TypeOK
<1>5. lease[t] /\ \A j \in Inodes : flock[j] # t
  BY <1>1, <1>3, Zenon DEF LeaseInv, FileInv
<1>6. CASE flock[i] = Nobody
  <2>1. TypeOK' /\ pc'[t] = "write" /\ fd'[t] = i
    BY <1>1, <1>2, <1>3, <1>4, <1>6 DEF TypeOK
  <2>2. \A j \in Inodes : flock'[j] = IF j = i THEN t ELSE flock[j]
    BY <1>1, <1>2, <1>6, Zenon DEF TypeOK
  <2>3. LeaseInv(t)'
    BY <1>1, <1>3, <1>5, <2>1, LeaseKept, Zenon
  <2>4. FileInv(t)'
    BY <2>1, <2>2, Zenon DEF FileInv
  <2>5. \A u \in Tasks \ {t} : Same(u)
    BY <1>1, <1>2, <1>3, <1>6, <2>2 DEF TypeOK, Same, Constants
  <2>6. TaskInv(t)'
    BY <1>1, <1>2, <1>6, <2>3, <2>4, Zenon DEF TaskInv
  <2> QED
    BY <2>1, <2>5, <2>6, OneTask, Zenon
<1>7. CASE flock[i] # Nobody
  <2>1. TypeOK' /\ pc'[t] = "unlock" /\ blocker'[t] = flock[i]
    BY <1>1, <1>2, <1>3, <1>4, <1>7 DEF TypeOK
  <2>2. LeaseInv(t)'
    BY <1>1, <1>3, <1>5, <2>1, LeaseKept, Zenon
  <2>3. FileInv(t)'
    BY <2>1, Zenon DEF FileInv
  <2>4. \A u \in Tasks \ {t} : Same(u)
    BY <1>1, <1>2, <1>3, <1>7, Zenon DEF TypeOK, Same
  <2>5. TaskInv(t)'
    BY <1>5, <2>1, <2>2, <2>3, Zenon DEF TaskInv
  <2> QED
    BY <2>1, <2>4, <2>5, OneTask, Zenon
<1> QED
  BY <1>6, <1>7, Zenon

\* The handle is closed, and its lock gone (release_download_target_file_lock).
LEMMA Unlocks ==
  ASSUME Constants, IInv, NEW t \in Tasks, Unlock(t)
  PROVE  IInv'
<1>1. LeaseInv(t) /\ FileInv(t) /\ blocker[t] # t /\ TypeOK
  BY Zenon DEF IInv, TaskInv
<1>2. /\ pc[t] \in {"unlock", "park"}
      /\ flock' = [i \in Inodes |-> IF flock[i] = t THEN Nobody ELSE flock[i]]
      /\ fd' = [fd EXCEPT ![t] = 0]
      /\ pc' = [pc EXCEPT ![t] = IF pc[t] = "park" THEN "parkLease" ELSE "dropLease"]
      /\ UNCHANGED <<dir, target, keys, lease, locks, blocker>>
  BY Zenon DEF Unlock, Goto
<1>3. TypeOK'
  BY <1>1, <1>2, Zenon DEF TypeOK
<1>4. pc'[t] \in {"parkLease", "dropLease"} /\ fd'[t] = 0
  BY <1>1, <1>2, Zenon DEF TypeOK
<1>5. LeaseInv(t)'
  BY <1>1, <1>2, <1>4, LeaseKept, Zenon
<1>6. FileInv(t)'
  BY <1>2, <1>4, Zenon DEF FileInv, Constants
<1>7. \A u \in Tasks \ {t} : Same(u)
  <2> SUFFICES ASSUME NEW u \in Tasks \ {t} PROVE Same(u)
    BY Zenon
  <2>1. pc'[u] = pc[u] /\ fd'[u] = fd[u]
    BY <1>1, <1>2, Zenon DEF TypeOK
  <2>2. \A i \in Inodes : flock'[i] = u <=> flock[i] = u
    BY <1>2 DEF Constants
  <2> QED
    BY <1>2, <2>1, <2>2, Zenon DEF Same
<1>8. TaskInv(t)'
  BY <1>1, <1>2, <1>5, <1>6, Zenon DEF TaskInv
<1> QED
  BY <1>3, <1>7, <1>8, OneTask, Zenon

\* One lock file is unlocked, and it is the task's own
\* (release_download_target_lease).
LEMMA DropsKey ==
  ASSUME Constants, IInv, NEW t \in Tasks, DropKey(t)
  PROVE  IInv'
<1> DEFINE k == Least(Locked(t))
<1>1. LeaseInv(t) /\ FileInv(t) /\ blocker[t] # t /\ TypeOK
  BY Zenon DEF IInv, TaskInv
<1>2. k \in Keys /\ locks[k] = t
  <2>1. Locked(t) \in SUBSET Keys /\ Locked(t) # {} /\ OneOfAKind(Locked(t))
    BY <1>1, Zenon DEF DropKey, LeaseInv, OneOfAKind, Locked
  <2>2. k \in Locked(t)
    BY <2>1, LeastIsOne, Zenon
  <2> QED
    BY <2>2, Zenon DEF Locked
<1>3. /\ pc[t] \in {"dropLease", "parkLease"} /\ locks' = [locks EXCEPT ![k] = Nobody]
      /\ lease' = [lease EXCEPT ![t] = FALSE]
      /\ UNCHANGED <<dir, target, pc, keys, fd, flock, blocker>>
  BY Zenon DEF DropKey, Locked
<1> HIDE DEF k
<1>4. TypeOK' /\ lease'[t] = FALSE /\ keys[t] = {}
  BY <1>1, <1>2, <1>3, Zenon DEF TypeOK, LeaseInv
<1>5. \A j \in Keys : locks'[j] = IF j = k THEN Nobody ELSE locks[j]
  BY <1>1, <1>2, <1>3, Zenon DEF TypeOK
<1>6. Nobody \notin Tasks
  BY Zenon DEF Constants
<1>7. LeaseInv(t)'
  <2>1. Locked(t)' \subseteq Locked(t)
    BY <1>5, <1>6, Zenon DEF Locked
  <2> QED
    BY <1>1, <1>3, <1>4, <2>1, Zenon DEF LeaseInv, OneOfAKind
<1>8. \A u \in Tasks \ {t} : Same(u)
  <2> SUFFICES ASSUME NEW u \in Tasks \ {t} PROVE Same(u)
    BY Zenon
  <2>1. \A j \in Keys : locks'[j] = u <=> locks[j] = u
    BY <1>2, <1>5, <1>6, Zenon
  <2>2. lease'[u] = lease[u]
    BY <1>1, <1>3, Zenon DEF TypeOK
  <2> QED
    BY <1>3, <2>1, <2>2, Zenon DEF Same
<1>9. TaskInv(t)'
  BY <1>1, <1>3, <1>7, Zenon DEF TaskInv, FileInv
<1> QED
  BY <1>4, <1>8, <1>9, OneTask, Zenon

\* Nothing is locked any more, and the end is reported.
LEMMA Reports ==
  ASSUME Constants, IInv, NEW t \in Tasks, Report(t)
  PROVE  IInv'
<1>1. LeaseInv(t) /\ FileInv(t) /\ blocker[t] # t /\ TypeOK /\ SidecarKey(t) \in Keys
  BY KeysOfPaths, Zenon DEF IInv, TaskInv
<1>2. /\ pc[t] \in {"dropLease", "parkLease"} /\ \A k \in Keys : locks[k] # t
      /\ pc' = [pc EXCEPT ![t] = IF pc[t] = "parkLease" THEN "paused" ELSE "ended"]
      /\ UNCHANGED <<dir, target, keys, lease, fd, locks, flock, blocker>>
  BY Zenon DEF Report, Goto
<1>3. TypeOK'
  BY <1>1, <1>2, Zenon DEF TypeOK
<1>4. pc'[t] \in {"paused", "ended"}
  BY <1>1, <1>2, Zenon DEF TypeOK
<1>5. Locked(t)' = {}
  BY <1>2, Zenon DEF Locked
<1>6. ~lease[t] /\ keys[t] = {}
  BY <1>1, <1>2, Zenon DEF LeaseInv
<1>7. LeaseInv(t)'
  BY <1>2, <1>4, <1>5, <1>6, Zenon DEF LeaseInv, OneOfAKind
<1>8. \A u \in Tasks \ {t} : Same(u)
  BY <1>1, <1>2, Zenon DEF TypeOK, Same
<1>9. TaskInv(t)'
  BY <1>1, <1>2, <1>4, <1>7, Zenon DEF TaskInv, FileInv
<1> QED
  BY <1>3, <1>8, <1>9, OneTask, Zenon

-----------------------------------------------------------------------------
(* Crashes and the user                                                    *)

\* A process that dies takes the locks of its tasks with it, and no others.
LEMMA Crashes ==
  ASSUME Constants, IInv, NEW p, Crash(p)
  PROVE  IInv'
<1>1. TypeOK /\ \A t \in Tasks : LeaseInv(t) /\ FileInv(t) /\ blocker[t] # t
  BY Zenon DEF IInv, TaskInv
<1>2. TypeOK'
  BY <1>1, Zenon DEF TypeOK, Crash
<1>3. ASSUME NEW t \in Tasks, Process[t] = p PROVE TaskInv(t)'
  <2>1. pc'[t] = "ended" /\ keys'[t] = {} /\ lease'[t] = FALSE /\ fd'[t] = 0
    BY <1>3, Zenon DEF Crash
  <2>2. blocker'[t] # t
    BY <1>1, Zenon DEF Crash
  <2>3. \A k \in Keys : locks'[k] # t
    BY <1>3, Zenon DEF Crash, Constants
  <2>4. \A i \in Inodes : flock'[i] # t
    BY <1>3, Zenon DEF Crash, Constants
  <2>5. LeaseInv(t)'
    BY <2>1, <2>3, Zenon DEF LeaseInv, OneOfAKind, Locked
  <2>6. FileInv(t)'
    BY <2>1, <2>4, Zenon DEF FileInv
  <2> QED
    BY <2>2, <2>5, <2>6, Zenon DEF TaskInv
<1>4. ASSUME NEW t \in Tasks, Process[t] # p PROVE TaskInv(t)'
  <2>1. pc'[t] = pc[t] /\ keys'[t] = keys[t] /\ fd'[t] = fd[t]
    BY <1>4, Zenon DEF Crash
  <2>2. lease'[t] = lease[t]
    BY <1>1, <1>4, Zenon DEF Crash, TypeOK
  <2>3. \A k \in Keys : locks'[k] = t <=> locks[k] = t
    BY <1>4, Zenon DEF Crash, Constants
  <2>4. \A i \in Inodes : flock'[i] = t <=> flock[i] = t
    BY <1>4, Zenon DEF Crash, Constants
  <2>5. Same(t)
    BY <2>1, <2>2, <2>3, <2>4, Zenon DEF Same, Crash
  <2> QED
    BY <1>1, <2>5, Untouched, Zenon DEF TaskInv
<1> QED
  BY <1>2, <1>3, <1>4, Zenon DEF IInv

\* What the user does to the names touches no task.
LEMMA Meddles ==
  ASSUME Constants, IInv, NEW n \in Names, Meddle(n)
  PROVE  IInv'
<1>1. TypeOK'
  BY DEF IInv, TypeOK, Meddle, Unused
<1>2. \A u \in Tasks : Same(u)
  BY Zenon DEF Meddle, Same
<1> QED
  BY <1>1, <1>2, Untouched, Zenon DEF IInv

-----------------------------------------------------------------------------

\* The invariant implies what the lease is for: the file and the sidecar a task
\* writes carry its locks (open_locked_target, TargetLease::acquire).
LEMMA InvariantIsEnough ==
  ASSUME Constants, IInv
  PROVE  OneWriter /\ OneSidecar /\ ReportedHoldsNothing /\ RefusedByOther /\ OutsideNamespace
<1>1. TypeOK /\ \A t \in Tasks : LeaseInv(t) /\ FileInv(t) /\ blocker[t] # t
  BY Zenon DEF IInv, TaskInv
<1>2. OneWriter
  BY <1>1 DEF OneWriter, Writers, FileInv
<1>3. \A t \in Writers : lease[t]
  BY <1>1, Zenon DEF LeaseInv, Writers
<1>4. OneSidecar
  <2>1. \A t \in Writers : locks[<<2, target[t]>>] = t
    BY <1>1, <1>3, Zenon DEF Writers, LeaseInv, SidecarKey
  <2> QED
    BY <2>1, Zenon DEF OneSidecar
<1>5. ReportedHoldsNothing
  <2> SUFFICES ASSUME NEW t \in Tasks, pc[t] \in {"idle", "paused", "ended"}
               PROVE  /\ fd[t] = 0 /\ ~lease[t]
                      /\ \A k \in Keys : locks[k] # t
                      /\ \A i \in Inodes : flock[i] # t
    BY Zenon DEF ReportedHoldsNothing, Live
  <2>1. fd[t] = 0 /\ \A i \in Inodes : flock[i] # t
    BY <1>1, Zenon DEF FileInv
  <2>2. ~lease[t] /\ Locked(t) = {}
    BY <1>1, Zenon DEF LeaseInv
  <2> QED
    BY <2>1, <2>2, Zenon DEF Locked
<1>6. OutsideNamespace
  BY <1>1, <1>3, Zenon DEF OutsideNamespace, Writers, LeaseInv
<1> QED
  BY <1>1, <1>2, <1>4, <1>5, <1>6, Zenon DEF RefusedByOther

\* The safety of the lease: one writer per file, one sidecar per writer, no lock
\* behind a reported end, no refusal by oneself, nothing written into the
\* private directory (target_lease.rs, open_locked_target, and the releases of
\* run_group).
THEOREM LeaseIsExclusive ==
  ASSUME Constants
  PROVE  Spec => [](OneWriter /\ OneSidecar /\ ReportedHoldsNothing /\ RefusedByOther
                    /\ OutsideNamespace)
<1>1. Init => IInv
  <2> SUFFICES ASSUME Init PROVE IInv
    BY Zenon
  <2>1. TypeOK
    BY Zenon DEF Init, TypeOK, Constants
  <2>2. \A t \in Tasks : Locked(t) = {} /\ \A i \in Inodes : flock[i] # t
    BY Zenon DEF Init, Locked, Constants
  <2>3. \A t \in Tasks : /\ pc[t] = "idle" /\ keys[t] = {} /\ lease[t] = FALSE /\ fd[t] = 0
                         /\ blocker[t] # t
    BY Zenon DEF Init, Constants
  <2>4. \A t \in Tasks : TaskInv(t)
    BY <2>2, <2>3, Zenon DEF TaskInv, LeaseInv, FileInv, OneOfAKind
  <2> QED
    BY <2>1, <2>4, Zenon DEF IInv
<1>2. IInv /\ [Next]_vars => IInv'
  <2> SUFFICES ASSUME IInv, [Next]_vars PROVE IInv'
    BY Zenon
  <2>1. ASSUME NEW t \in Tasks, TaskStep(t) PROVE IInv'
    BY <2>1, Starts, Checks, ReadsPath, ReadsInode, Locks, Contends, Leases, Retries, Opens,
       Unlocks, DropsKey, Reports, Zenon
    DEF TaskStep
  <2>2. ASSUME NEW p \in {Process[t] : t \in Tasks}, Crash(p) PROVE IInv'
    BY <2>2, Crashes, Zenon
  <2>3. ASSUME NEW n \in Names, Meddle(n) PROVE IInv'
    BY <2>3, Meddles, Zenon
  <2>4. CASE UNCHANGED vars
    <3>1. TypeOK' /\ \A t \in Tasks : Same(t)
      BY <2>4, Zenon DEF IInv, TypeOK, Same, vars
    <3> QED
      BY <3>1, Untouched, Zenon DEF IInv
  <2> QED
    BY <2>1, <2>2, <2>3, <2>4, Zenon DEF Next
<1> QED
  BY <1>1, <1>2, InvariantIsEnough, PTL DEF Spec

\* No two tasks write one target file at a time (open_locked_target).
THEOREM TargetHasOneWriter ==
  ASSUME Constants
  PROVE  Spec => []OneWriter
<1>1. Spec => [](OneWriter /\ OneSidecar /\ ReportedHoldsNothing /\ RefusedByOther
                 /\ OutsideNamespace)
  BY LeaseIsExclusive
<1> QED
  BY <1>1, PTL

\* No two tasks write one sidecar at a time (the keys of target_lease.rs).
THEOREM SidecarHasOneWriter ==
  ASSUME Constants
  PROVE  Spec => []OneSidecar
<1>1. Spec => [](OneWriter /\ OneSidecar /\ ReportedHoldsNothing /\ RefusedByOther
                 /\ OutsideNamespace)
  BY LeaseIsExclusive
<1> QED
  BY <1>1, PTL

\* A task whose end was reported holds neither lock nor file (the releases of
\* run_group).
THEOREM EndHoldsNothing ==
  ASSUME Constants
  PROVE  Spec => []ReportedHoldsNothing
<1>1. Spec => [](OneWriter /\ OneSidecar /\ ReportedHoldsNothing /\ RefusedByOther
                 /\ OutsideNamespace)
  BY LeaseIsExclusive
<1> QED
  BY <1>1, PTL
=============================================================================
