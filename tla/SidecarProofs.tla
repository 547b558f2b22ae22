--------------------------- MODULE SidecarProofs ---------------------------
(***************************************************************************)
(* Proofs about the private directory of the sidecars, for any number of   *)
(* tasks, targets, crashes and failures, and whatever was there before.    *)
(***************************************************************************)
EXTENDS SidecarNamespace, FiniteSetTheorems, TLAPS

Steps == {"idle", "load", "run", "look", "scan", "recheck", "claim", "temp", "replace",
          "failed", "ended"}
Kinds == {"checkpoint", "fault", "crash"}
Temps == TargetNames \X (Nat \ {0})

TypeOK ==
  /\ namespace \in Entries /\ marker \in Entries
  /\ sidecar \in [TargetNames -> Entries]
  /\ temps \in SUBSET Temps /\ sequence \in Nat \ {0}
  /\ pc \in [Tasks -> Steps] /\ mine \in [Tasks -> Temps \cup {NoTemp}]
  /\ refused \in SUBSET Tasks /\ spent \in [Kinds -> Nat]

\* What was there at first is what an earlier process, or the user, can leave.
BeganInv ==
  /\ began.sidecar \in [TargetNames -> Entries]
  /\ began.namespace # "ours" => began.marker = "absent" /\ ~began.foreign
  /\ began.marker # "ours" => \A n \in TargetNames : began.sidecar[n] = "absent"

\* The directory has changed only by being created and claimed, the latter only
\* if it was usable; before it is claimed nothing is written into it; and odd
\* entries stay.
DirInv ==
  /\ foreign = began.foreign
  /\ namespace = began.namespace \/ (began.namespace = "absent" /\ namespace = "ours")
  /\ marker = began.marker \/ (began.marker = "absent" /\ marker = "ours" /\ Usable)
  /\ marker # "ours" => temps = {} /\ \A n \in TargetNames : sidecar[n] = "absent"
  /\ \A n \in TargetNames : sidecar[n] = "other" <=> began.sidecar[n] = "other"

\* What a task relies on when it is at step p.
Gate(p) ==
  /\ p \in {"look", "scan", "recheck", "claim", "temp", "replace"} => namespace = "ours"
  /\ p \in {"scan", "claim"} => marker # "other"
  /\ p = "claim" => ~foreign
  /\ p = "recheck" => marker # "absent" \/ foreign
  /\ p \in {"temp", "replace"} => marker = "ours"

TaskInv(t) ==
  /\ Gate(pc[t])
  /\ IF pc[t] = "replace" THEN mine[t] \in temps /\ mine[t][1] = Home[t] ELSE mine[t] = NoTemp
  /\ t \in refused => ~Usable \/ began.sidecar[Home[t]] = "other"

\* Tasks at work have targets of their own (the lease), and a sequence number
\* is never used again.
Distinct == \A t, u \in Tasks : t # u /\ Live(t) /\ Live(u) => Home[t] # Home[u]
Unused == \A f \in temps : f[2] < sequence

\* The temporary files that no task owns any more.
Left == temps \ {mine[t] : t \in Tasks}
LeftInv == IsFiniteSet(Left) /\ Cardinality(Left) <= spent["crash"]

IInv ==
  /\ TypeOK /\ BeganInv /\ DirInv /\ Distinct /\ Unused /\ LeftInv
  /\ \A t \in Tasks : TaskInv(t)
-----------------------------------------------------------------------------
(* What all steps have in common                                           *)

\* What a step may do to the directory.
DirMoves ==
  /\ foreign' = foreign /\ began' = began
  /\ namespace' = namespace \/ (namespace = "absent" /\ namespace' = "ours")
  /\ marker' = marker \/ (marker = "absent" /\ marker' = "ours" /\ Usable)
  /\ marker # "ours" => sidecar' = sidecar /\ temps' = temps
  /\ \A n \in TargetNames : sidecar'[n] = "other" <=> sidecar[n] = "other"

\* What it leaves to the other tasks.
OthersStay(t) ==
  \A u \in Tasks \ {t} :
    /\ pc'[u] = pc[u] /\ mine'[u] = mine[u] /\ (u \in refused' <=> u \in refused)
    /\ pc[u] = "replace" /\ mine[u] \in temps => mine[u] \in temps'

LEMMA DirKept ==
  ASSUME BeganInv, DirInv, DirMoves
  PROVE  BeganInv' /\ DirInv' /\ (Usable' <=> Usable)
<1>1. began' = began
  BY Zenon DEF DirMoves
<1>2. BeganInv' /\ (Usable' <=> Usable)
  BY <1>1, Zenon DEF BeganInv, Usable
<1>3. foreign' = began'.foreign
  BY <1>1, Zenon DEF DirInv, DirMoves
<1>4. namespace' = began'.namespace \/ (began'.namespace = "absent" /\ namespace' = "ours")
  BY <1>1, Zenon DEF DirInv, DirMoves
<1>5. marker' = began'.marker \/ (began'.marker = "absent" /\ marker' = "ours" /\ Usable')
  BY <1>1, <1>2, Zenon DEF DirInv, DirMoves
<1>6. marker' # "ours" => temps' = {} /\ \A n \in TargetNames : sidecar'[n] = "absent"
  BY Zenon DEF DirInv, DirMoves
<1>7. \A n \in TargetNames : sidecar'[n] = "other" <=> began'.sidecar[n] = "other"
  BY <1>1, Zenon DEF DirInv, DirMoves
<1> QED
  BY <1>2, <1>3, <1>4, <1>5, <1>6, <1>7, Zenon DEF DirInv

\* What a task relies on is not taken from it.
LEMMA GateStays ==
  ASSUME DirMoves, NEW p, Gate(p)
  PROVE  Gate(p)'
<1>1. namespace = "ours" => namespace' = "ours"
  BY DEF DirMoves
<1>2. /\ marker # "other" => marker' # "other"
      /\ marker # "absent" => marker' # "absent"
      /\ marker = "ours" => marker' = "ours"
  BY DEF DirMoves
<1>3. foreign' = foreign
  BY DEF DirMoves
<1> QED
  BY <1>1, <1>2, <1>3, Zenon DEF Gate

LEMMA OthersKept ==
  ASSUME BeganInv, DirInv, DirMoves, NEW t \in Tasks, OthersStay(t), NEW u \in Tasks \ {t},
         TaskInv(u)
  PROVE  TaskInv(u)'
<1>1. began' = began /\ (Usable' <=> Usable)
  BY DirKept, Zenon DEF DirMoves
<1>2. /\ pc'[u] = pc[u] /\ mine'[u] = mine[u] /\ (u \in refused' <=> u \in refused)
      /\ pc[u] = "replace" /\ mine[u] \in temps => mine[u] \in temps'
  BY Zenon DEF OthersStay
<1>3. Gate(pc[u])' 
  <2>1. PICK p : p = pc[u]
    BY Zenon
  <2>2. Gate(p)'
    BY <2>1, GateStays, Zenon DEF TaskInv
  <2> QED
    BY <1>2, <2>1, <2>2, Zenon
<1> QED
  BY <1>1, <1>2, <1>3, Zenon DEF TaskInv

\* A step of a task keeps the invariant if it keeps its own part, and takes up
\* a target only when nobody works on it.
LEMMA StepKeeps ==
  ASSUME IInv, NEW t \in Tasks, TypeOK', DirMoves, OthersStay(t), TaskInv(t)', Unused', LeftInv',
         Live(t)' => Live(t) \/ \A u \in Tasks : Live(u) => Home[u] # Home[t]
  PROVE  IInv'
<1>1. BeganInv' /\ DirInv'
  BY DirKept, Zenon DEF IInv
<1>2. \A u \in Tasks : TaskInv(u)'
  <2> SUFFICES ASSUME NEW u \in Tasks, u # t PROVE TaskInv(u)'
    BY Zenon
  <2>1. TaskInv(u) /\ BeganInv /\ DirInv
    BY Zenon DEF IInv
  <2> QED
    BY <2>1, OthersKept, Zenon
<1>3. Distinct'
  <2>1. \A u \in Tasks \ {t} : Live(u)' <=> Live(u)
    BY Zenon DEF OthersStay, Live
  <2> QED
    BY <2>1, Zenon DEF IInv, Distinct
<1> QED
  BY <1>1, <1>2, <1>3, Zenon DEF IInv

LEMMA Moves ==
  ASSUME TypeOK, NEW t \in Tasks, NEW p \in Steps, Goto(t, p)
  PROVE  pc' \in [Tasks -> Steps] /\ pc'[t] = p /\ \A u \in Tasks \ {t} : pc'[u] = pc[u]
  BY Zenon DEF TypeOK, Goto

LEMMA LeftKept ==
  ASSUME TypeOK, LeftInv, Left' \subseteq Left, spent'["crash"] = spent["crash"]
  PROVE  LeftInv'
<1>1. IsFiniteSet(Left) /\ Cardinality(Left) \in Nat
  BY FS_CardinalityType, Zenon DEF LeftInv
<1>2. PICK S, T : S = Left /\ T = Left' /\ T \in SUBSET S
  BY Zenon
<1>3. IsFiniteSet(T) /\ Cardinality(T) <= Cardinality(S)
  BY <1>1, <1>2, FS_Subset, Zenon
<1>4. Cardinality(T) \in Nat
  BY <1>3, FS_CardinalityType, Zenon
<1>5. spent["crash"] \in Nat
  BY DEF TypeOK, Kinds
<1>6. Cardinality(T) <= spent["crash"]
  BY <1>1, <1>2, <1>3, <1>4, <1>5 DEF LeftInv
<1> QED
  BY <1>2, <1>3, <1>6, Zenon DEF LeftInv

\* A refusal has a reason that was there before.
MayRefuse(t) ==
  \/ refused' = refused
  \/ refused' = refused \cup {t} /\ (~Usable \/ began.sidecar[Home[t]] = "other")

\* The steps of a task that has no temporary file.
LEMMA QuietKeeps ==
  ASSUME IInv, NEW t \in Tasks, NEW p \in Steps \ {"replace"}, Goto(t, p), pc[t] # "replace",
         DirMoves, sidecar' \in [TargetNames -> Entries], MayRefuse(t), Gate(p)',
         mine' = mine, sequence' = sequence, temps' \subseteq temps,
         \A u \in Tasks \ {t} : pc[u] = "replace" /\ mine[u] \in temps => mine[u] \in temps',
         spent' \in [Kinds -> Nat], spent'["crash"] = spent["crash"],
         p = "ended" \/ Live(t) \/ \A u \in Tasks : Live(u) => Home[u] # Home[t]
  PROVE  IInv'
<1>1. pc' \in [Tasks -> Steps] /\ pc'[t] = p /\ \A u \in Tasks \ {t} : pc'[u] = pc[u]
  BY Moves, Zenon DEF IInv
<1>2. /\ refused' \in SUBSET Tasks
      /\ \A u \in Tasks \ {t} : u \in refused' <=> u \in refused
      /\ t \in refused' => ~Usable \/ began.sidecar[Home[t]] = "other"
  BY Zenon DEF MayRefuse, IInv, TypeOK, TaskInv
<1>3. TypeOK'
  <2>1. namespace' \in Entries /\ marker' \in Entries
    BY DEF IInv, TypeOK, DirMoves, Entries
  <2> QED
    BY <1>1, <1>2, <2>1, Zenon DEF IInv, TypeOK
<1>4. OthersStay(t)
  BY <1>1, <1>2, Zenon DEF OthersStay
<1>5. TaskInv(t)'
  <2>1. began' = began /\ (Usable' <=> Usable)
    BY DirKept, Zenon DEF DirMoves, IInv
  <2>2. mine'[t] = NoTemp /\ p # "replace"
    BY Zenon DEF IInv, TaskInv
  <2>3. Gate(pc[t])'
    BY <1>1, Zenon DEF Gate
  <2> QED
    BY <1>1, <1>2, <2>1, <2>2, <2>3, Zenon DEF TaskInv
<1>6. Unused'
  BY Zenon DEF IInv, Unused
<1>7. LeftInv'
  <2>1. Left' \subseteq Left
    BY Zenon DEF Left
  <2> QED
    BY <2>1, LeftKept, Zenon DEF IInv
<1>8. Live(t)' => Live(t) \/ \A u \in Tasks : Live(u) => Home[u] # Home[t]
  BY <1>1, Zenon DEF Live
<1> QED
  BY <1>3, <1>4, <1>5, <1>6, <1>7, <1>8, StepKeeps, Zenon

\* The same for steps that leave the directory alone.
LEMMA LooksKeep ==
  ASSUME IInv, NEW t \in Tasks, NEW p \in Steps \ {"replace"}, Goto(t, p), pc[t] # "replace",
         UNCHANGED <<namespace, marker, foreign, sidecar, temps, sequence, mine, began>>,
         MayRefuse(t), Gate(p),
         spent' \in [Kinds -> Nat], spent'["crash"] = spent["crash"],
         p = "ended" \/ Live(t) \/ \A u \in Tasks : Live(u) => Home[u] # Home[t]
  PROVE  IInv'
<1>1. DirMoves /\ sidecar' \in [TargetNames -> Entries]
  BY Zenon DEF DirMoves, IInv, TypeOK
<1>2. Gate(p)'
  BY <1>1, GateStays, Zenon
<1> QED
  BY <1>1, <1>2, QuietKeeps, Zenon

LEMMA SpentSame ==
  ASSUME TypeOK, UNCHANGED spent
  PROVE  spent' \in [Kinds -> Nat] /\ spent'["crash"] = spent["crash"]
  BY Zenon DEF TypeOK

LEMMA SpentMore ==
  ASSUME TypeOK, NEW k \in Kinds \ {"crash"}, Spend(k)
  PROVE  spent' \in [Kinds -> Nat] /\ spent'["crash"] = spent["crash"]
<1>1. spent \in [Kinds -> Nat] /\ spent' = [spent EXCEPT ![k] = spent[k] + 1]
  BY Zenon DEF TypeOK, Spend
<1>2. spent[k] + 1 \in Nat /\ "crash" \in Kinds /\ k # "crash"
  BY <1>1 DEF Kinds
<1> QED
  BY <1>1, <1>2, Zenon

-----------------------------------------------------------------------------
(* The steps                                                               *)

LEMMA StartKeeps ==
  ASSUME IInv, NEW t \in Tasks, Start(t)
  PROVE  IInv'
<1>1. PICK p \in {"load", "run"} : Goto(t, p)
  BY Zenon DEF Start
<1>2. p \in Steps \ {"replace"} /\ Gate(p) /\ pc[t] # "replace"
  BY DEF Steps, Gate, Start
<1>3. MayRefuse(t) /\ spent' \in [Kinds -> Nat] /\ spent'["crash"] = spent["crash"]
  BY SpentSame, Zenon DEF MayRefuse, Start, IInv
<1> QED
  BY <1>1, <1>2, <1>3, LooksKeep, Zenon DEF Start

LEMMA LoadKeeps ==
  ASSUME IInv, NEW t \in Tasks, Load(t)
  PROVE  IInv'
<1>1. /\ pc[t] = "load" /\ pc[t] # "replace" /\ Live(t)
      /\ UNCHANGED <<namespace, marker, foreign, sidecar, sequence, mine, began, spent>>
  BY DEF Load, Live
<1>2. /\ temps' = temps \/ (marker = "ours" /\ temps' = temps \ Stale(t))
  BY DEF Load, IInv, TypeOK, Entries
<1>3. PICK p \in {"failed", "run"} : Goto(t, p)
  BY Zenon DEF Load, Refuse
<1>4. MayRefuse(t)
  <2>1. CASE namespace = "other" \/ marker = "other"
    <3>1. ~Usable
      BY <2>1 DEF IInv, DirInv, Usable
    <3> QED
      BY <2>1, <3>1, Zenon DEF Load, Refuse, MayRefuse
  <2>2. CASE refused' = refused
    BY <2>2, Zenon DEF MayRefuse
  <2>3. CASE ~(namespace = "other" \/ marker = "other") /\ refused' # refused
    <3>1. sidecar[Home[t]] = "other" /\ refused' = refused \cup {t}
      BY <2>3, Zenon DEF Load, Refuse
    <3>2. Home[t] \in TargetNames
      BY Zenon DEF TargetNames
    <3> QED
      BY <3>1, <3>2, Zenon DEF MayRefuse, IInv, DirInv
  <2> QED
    BY <2>1, <2>2, <2>3, Zenon
<1>5. p \in Steps \ {"replace"} /\ Gate(p)'
  BY DEF Steps, Gate
<1>6. DirMoves /\ sidecar' \in [TargetNames -> Entries]
  BY <1>1, <1>2, Zenon DEF DirMoves, IInv, TypeOK
<1>7. ASSUME NEW u \in Tasks \ {t}, pc[u] = "replace", mine[u] \in temps
      PROVE  mine[u] \in temps'
  <2>1. Live(u)
    BY <1>7 DEF Live
  <2>2. mine[u][1] = Home[u] /\ Home[u] # Home[t]
    BY <1>1, <1>7, <2>1, Zenon DEF IInv, TaskInv, Distinct
  <2> QED
    BY <1>2, <1>7, <2>2, Zenon DEF Stale
<1>8. temps' \subseteq temps
  BY <1>2, Zenon
<1>9. spent' \in [Kinds -> Nat] /\ spent'["crash"] = spent["crash"]
  BY <1>1, SpentSame, Zenon DEF IInv
<1> QED
  BY <1>1, <1>3, <1>4, <1>5, <1>6, <1>7, <1>8, <1>9, QuietKeeps, Zenon

LEMMA MakeDirectoryKeeps ==
  ASSUME IInv, NEW t \in Tasks, MakeDirectory(t)
  PROVE  IInv'
<1>1. /\ pc[t] = "run" /\ pc[t] # "replace" /\ Live(t)
      /\ UNCHANGED <<marker, foreign, sidecar, temps, sequence, mine, began>>
  BY DEF MakeDirectory, Live
<1>2. spent' \in [Kinds -> Nat] /\ spent'["crash"] = spent["crash"]
  <2>1. "checkpoint" \in Kinds \ {"crash"} /\ Spend("checkpoint")
    BY DEF Kinds, MakeDirectory
  <2> QED
    BY <2>1, SpentMore, Zenon DEF IInv
<1>3. CASE namespace = "other"
  <2>1. ~Usable
    BY <1>3 DEF IInv, DirInv, Usable
  <2>2. Goto(t, "failed") /\ MayRefuse(t) /\ UNCHANGED namespace
    BY <1>3, <2>1, Zenon DEF MakeDirectory, Refuse, MayRefuse
  <2>3. "failed" \in Steps \ {"replace"} /\ Gate("failed")
    BY DEF Steps, Gate
  <2> QED
    BY <1>1, <1>2, <2>2, <2>3, LooksKeep, Zenon
<1>4. CASE namespace # "other"
  <2>1. Goto(t, "look") /\ namespace' = "ours" /\ refused' = refused
    BY <1>4, Zenon DEF MakeDirectory
  <2>2. namespace' = namespace \/ (namespace = "absent" /\ namespace' = "ours")
    BY <1>4, <2>1 DEF IInv, TypeOK, Entries
  <2>3. DirMoves /\ sidecar' \in [TargetNames -> Entries]
    BY <1>1, <2>2, Zenon DEF DirMoves, IInv, TypeOK
  <2>4. "look" \in Steps \ {"replace"} /\ Gate("look")' /\ MayRefuse(t)
    BY <2>1 DEF Steps, Gate, MayRefuse
  <2> QED
    BY <1>1, <1>2, <2>1, <2>3, <2>4, QuietKeeps, Zenon
<1> QED
  BY <1>3, <1>4, Zenon

\* A marker that is not ours was there at first.
LEMMA OddMarker ==
  ASSUME IInv, marker = "other" \/ (marker = "absent" /\ foreign)
  PROVE  ~Usable
  BY DEF IInv, DirInv, Usable

LEMMA LookMarkerKeeps ==
  ASSUME IInv, NEW t \in Tasks, LookMarker(t)
  PROVE  IInv'
<1>1. /\ pc[t] = "look" /\ pc[t] # "replace" /\ Live(t) /\ namespace = "ours"
      /\ UNCHANGED <<namespace, marker, foreign, sidecar, temps, sequence, mine, began, spent>>
  BY DEF LookMarker, Live, IInv, TaskInv, Gate
<1>2. spent' \in [Kinds -> Nat] /\ spent'["crash"] = spent["crash"]
  BY <1>1, SpentSame, Zenon DEF IInv
<1>3. PICK p \in {"temp", "failed", "scan"} : Goto(t, p) /\ Gate(p) /\ MayRefuse(t)
  <2>1. CASE marker = "ours"
    <3>1. Goto(t, "temp") /\ refused' = refused
      BY <2>1 DEF LookMarker, ByMarker
    <3>2. Gate("temp")
      BY <1>1, <2>1 DEF Gate
    <3> QED
      BY <3>1, <3>2, Zenon DEF MayRefuse
  <2>2. CASE marker = "other"
    <3>1. Refuse(t)
      BY <2>2 DEF LookMarker, ByMarker
    <3>2. Gate("failed") /\ ~Usable
      BY <2>2, OddMarker DEF Gate
    <3> QED
      BY <3>1, <3>2, Zenon DEF MayRefuse, Refuse
  <2>3. CASE marker # "ours" /\ marker # "other"
    <3>1. Goto(t, "scan") /\ refused' = refused
      BY <2>3 DEF LookMarker, ByMarker
    <3>2. Gate("scan")
      BY <1>1, <2>3 DEF Gate
    <3> QED
      BY <3>1, <3>2, Zenon DEF MayRefuse
  <2> QED
    BY <2>1, <2>2, <2>3, Zenon
<1>4. p \in Steps \ {"replace"}
  BY DEF Steps
<1> QED
  BY <1>1, <1>2, <1>3, <1>4, LooksKeep, Zenon

\* Only an empty directory is claimed; one that is not empty, and has no
\* marker, holds files of the user.
LEMMA ScanKeeps ==
  ASSUME IInv, NEW t \in Tasks, ScanDirectory(t)
  PROVE  IInv'
<1>1. /\ pc[t] = "scan" /\ pc[t] # "replace" /\ Live(t) /\ namespace = "ours" /\ marker # "other"
      /\ UNCHANGED <<namespace, marker, foreign, sidecar, temps, sequence, mine, began, spent>>
      /\ refused' = refused
  BY DEF ScanDirectory, Scan, Live, IInv, TaskInv, Gate
<1>2. spent' \in [Kinds -> Nat] /\ spent'["crash"] = spent["crash"] /\ MayRefuse(t)
  BY <1>1, SpentSame, Zenon DEF IInv, MayRefuse
<1>3. PICK p \in {"claim", "recheck"} : Goto(t, p) /\ Gate(p)
  <2>1. CASE Empty
    <3>1. Goto(t, "claim")
      BY <2>1 DEF ScanDirectory, Scan
    <3>2. Gate("claim")
      BY <1>1, <2>1 DEF Gate, Empty
    <3> QED
      BY <3>1, <3>2, Zenon
  <2>2. CASE ~Empty
    <3>1. Goto(t, "recheck")
      BY <2>2 DEF ScanDirectory, Scan
    <3>2. marker # "absent" \/ foreign
      <4>1. marker = "absent" => temps = {} /\ \A n \in TargetNames : sidecar[n] = "absent"
        BY DEF IInv, DirInv
      <4> QED
        BY <2>2, <4>1, Zenon DEF Empty
    <3>3. Gate("recheck")
      BY <1>1, <3>2 DEF Gate
    <3> QED
      BY <3>1, <3>3, Zenon
  <2> QED
    BY <2>1, <2>2, Zenon
<1>4. p \in Steps \ {"replace"}
  BY DEF Steps
<1> QED
  BY <1>1, <1>2, <1>3, <1>4, LooksKeep, Zenon

LEMMA RecheckKeeps ==
  ASSUME IInv, NEW t \in Tasks, RecheckMarker(t)
  PROVE  IInv'
<1>1. /\ pc[t] = "recheck" /\ pc[t] # "replace" /\ Live(t) /\ namespace = "ours"
      /\ marker # "absent" \/ foreign
      /\ UNCHANGED <<namespace, marker, foreign, sidecar, temps, sequence, mine, began, spent>>
  BY DEF RecheckMarker, Live, IInv, TaskInv, Gate
<1>2. spent' \in [Kinds -> Nat] /\ spent'["crash"] = spent["crash"]
  BY <1>1, SpentSame, Zenon DEF IInv
<1>3. PICK p \in {"temp", "failed"} : Goto(t, p) /\ Gate(p) /\ MayRefuse(t)
  <2>1. CASE marker = "ours"
    <3>1. Goto(t, "temp") /\ refused' = refused
      BY <2>1 DEF RecheckMarker, ByMarker
    <3>2. Gate("temp")
      BY <1>1, <2>1 DEF Gate
    <3> QED
      BY <3>1, <3>2, Zenon DEF MayRefuse
  <2>2. CASE marker # "ours"
    <3>1. Refuse(t)
      BY <2>2 DEF RecheckMarker, ByMarker
    <3>2. marker = "other" \/ (marker = "absent" /\ foreign)
      BY <1>1, <2>2 DEF IInv, TypeOK, Entries
    <3>3. Gate("failed") /\ ~Usable
      BY <3>2, OddMarker DEF Gate
    <3> QED
      BY <3>1, <3>3, Zenon DEF MayRefuse, Refuse
  <2> QED
    BY <2>1, <2>2, Zenon
<1>4. p \in Steps \ {"replace"}
  BY DEF Steps
<1> QED
  BY <1>1, <1>2, <1>3, <1>4, LooksKeep, Zenon

\* The directory is claimed by the first to create the marker, and only if it
\* was usable from the beginning.
LEMMA ClaimKeeps ==
  ASSUME IInv, NEW t \in Tasks, Claim(t)
  PROVE  IInv'
<1>1. /\ pc[t] = "claim" /\ pc[t] # "replace" /\ Live(t) /\ namespace = "ours" /\ marker # "other"
      /\ ~foreign
      /\ UNCHANGED <<namespace, foreign, sidecar, temps, sequence, mine, began, spent>>
  BY DEF Claim, Live, IInv, TaskInv, Gate
<1>2. spent' \in [Kinds -> Nat] /\ spent'["crash"] = spent["crash"]
  BY <1>1, SpentSame, Zenon DEF IInv
<1>3. marker \in {"absent", "ours"}
  BY <1>1 DEF IInv, TypeOK, Entries
<1>4. Goto(t, "temp") /\ marker' = "ours" /\ refused' = refused
  BY <1>3 DEF Claim, ByMarker
<1>5. marker = "absent" => Usable
  BY <1>1 DEF IInv, DirInv, Usable
<1>6. DirMoves /\ sidecar' \in [TargetNames -> Entries]
  BY <1>1, <1>3, <1>4, <1>5, Zenon DEF DirMoves, IInv, TypeOK
<1>7. "temp" \in Steps \ {"replace"} /\ Gate("temp")' /\ MayRefuse(t)
  BY <1>1, <1>4 DEF Steps, Gate, MayRefuse
<1> QED
  BY <1>1, <1>2, <1>4, <1>6, <1>7, QuietKeeps, Zenon

\* A sidecar is deleted only if it is a file of ours in a claimed directory.
LEMMA CompleteKeeps ==
  ASSUME IInv, NEW t \in Tasks, Complete(t)
  PROVE  IInv'
<1>1. /\ pc[t] = "run" /\ pc[t] # "replace" /\ Live(t) /\ Goto(t, "ended")
      /\ UNCHANGED <<namespace, marker, foreign, temps, sequence, mine, refused, began, spent>>
  BY DEF Complete, Live
<1>2. spent' \in [Kinds -> Nat] /\ spent'["crash"] = spent["crash"]
  BY <1>1, SpentSame, Zenon DEF IInv
<1>3. Home[t] \in TargetNames /\ sidecar \in [TargetNames -> Entries] /\ "absent" \in Entries
  BY DEF TargetNames, IInv, TypeOK, Entries
<1>4. /\ sidecar' \in [TargetNames -> Entries] /\ (marker # "ours" => sidecar' = sidecar)
      /\ \A n \in TargetNames : sidecar'[n] = "other" <=> sidecar[n] = "other"
  <2>1. CASE sidecar' = sidecar
    BY <1>3, <2>1, Zenon
  <2>2. CASE /\ marker = "ours" /\ sidecar[Home[t]] = "ours"
             /\ sidecar' = [sidecar EXCEPT ![Home[t]] = "absent"]
    <3>1. sidecar' \in [TargetNames -> Entries]
      BY <1>3, <2>2, Zenon
    <3>2. \A n \in TargetNames : sidecar'[n] = IF n = Home[t] THEN "absent" ELSE sidecar[n]
      BY <1>3, <2>2, Zenon
    <3> QED
      BY <2>2, <3>1, <3>2
  <2> QED
    BY <2>1, <2>2, Zenon DEF Complete
<1>5. DirMoves
  BY <1>1, <1>4, Zenon DEF DirMoves
<1>6. "ended" \in Steps \ {"replace"} /\ Gate("ended")' /\ MayRefuse(t)
  BY <1>1 DEF Steps, Gate, MayRefuse
<1> QED
  BY <1>1, <1>2, <1>4, <1>5, <1>6, QuietKeeps, Zenon

LEMMA StopKeeps ==
  ASSUME IInv, NEW t \in Tasks, Stop(t)
  PROVE  IInv'
<1>1. /\ pc[t] # "replace" /\ Live(t) /\ Goto(t, "ended")
      /\ UNCHANGED <<namespace, marker, foreign, sidecar, temps, sequence, mine, refused, began, spent>>
  BY DEF Stop, Live
<1>2. spent' \in [Kinds -> Nat] /\ spent'["crash"] = spent["crash"] /\ MayRefuse(t)
  BY <1>1, SpentSame, Zenon DEF IInv, MayRefuse
<1>3. "ended" \in Steps \ {"replace"} /\ Gate("ended")
  BY DEF Steps, Gate
<1> QED
  BY <1>1, <1>2, <1>3, LooksKeep, Zenon

-----------------------------------------------------------------------------
(* The steps that have a temporary file                                    *)

LEMMA NoTempIsNone == NoTemp \notin Temps
  BY DEF NoTemp, Temps

\* The file of a task at work is not the one of another.
LEMMA OwnTemps ==
  ASSUME IInv, NEW t \in Tasks, NEW u \in Tasks \ {t}, Live(t), pc[u] = "replace",
         NEW f, f[1] = Home[t]
  PROVE  mine[u] # f
<1>1. Live(u)
  BY DEF Live
<1>2. Home[t] # Home[u] /\ mine[u][1] = Home[u]
  BY <1>1, Zenon DEF IInv, Distinct, TaskInv
<1> QED
  BY <1>2, Zenon

LEMMA MakeTempKeeps ==
  ASSUME IInv, NEW t \in Tasks, MakeTemp(t)
  PROVE  IInv'
<1> DEFINE new == <<Home[t], sequence>>
<1>1. /\ pc[t] = "temp" /\ pc[t] # "replace" /\ Live(t) /\ Goto(t, "replace")
      /\ UNCHANGED <<namespace, marker, foreign, sidecar, refused, began, spent>>
      /\ sequence' = sequence + 1
  BY DEF MakeTemp, Live
<1>2. Home[t] \in TargetNames /\ sequence \in Nat \ {0} /\ mine \in [Tasks -> Temps \cup {NoTemp}]
  BY Zenon DEF TargetNames, IInv, TypeOK
<1>3. new \in Temps /\ new[1] = Home[t] /\ new[2] = sequence
  BY <1>2 DEF Temps
<1> HIDE DEF new
<1>4. mine' = [mine EXCEPT ![t] = new] /\ temps' = temps \cup {mine'[t]}
  BY Zenon DEF MakeTemp, new
<1>5. mine' \in [Tasks -> Temps \cup {NoTemp}] /\ mine'[t] = new
      /\ \A u \in Tasks \ {t} : mine'[u] = mine[u]
  BY <1>2, <1>3, <1>4, Zenon
<1>6. temps' = temps \cup {new} /\ temps' \in SUBSET Temps
  BY <1>3, <1>4, <1>5, Zenon DEF IInv, TypeOK
<1>7. "replace" \in Steps
  BY DEF Steps
<1>8. pc' \in [Tasks -> Steps] /\ pc'[t] = "replace" /\ \A u \in Tasks \ {t} : pc'[u] = pc[u]
  BY <1>1, <1>7, Moves, Zenon DEF IInv
<1>9. sequence' \in Nat \ {0} /\ sequence < sequence' /\ \A n \in Nat : n < sequence => n < sequence'
  BY <1>1, <1>2
<1>10. TypeOK'
  BY <1>1, <1>5, <1>6, <1>8, <1>9, Zenon DEF IInv, TypeOK
<1>11. marker = "ours" /\ Gate("replace")
  <2>1. Gate("temp")
    BY <1>1, Zenon DEF IInv, TaskInv
  <2> QED
    BY <2>1 DEF Gate
<1>12. DirMoves
  BY <1>1, <1>11, Zenon DEF DirMoves
<1>13. OthersStay(t)
  BY <1>1, <1>5, <1>6, <1>8, Zenon DEF OthersStay
<1>14. TaskInv(t)'
  <2>1. began' = began /\ (Usable' <=> Usable)
    BY <1>12, DirKept, Zenon DEF DirMoves, IInv
  <2>2. Gate("replace")'
    BY <1>11, <1>12, GateStays, Zenon
  <2>3. Gate(pc[t])'
    BY <1>8, <2>2, Zenon
  <2>4. t \in refused => ~Usable \/ began.sidecar[Home[t]] = "other"
    BY Zenon DEF IInv, TaskInv
  <2> QED
    BY <1>1, <1>3, <1>5, <1>6, <1>8, <2>1, <2>3, <2>4, Zenon DEF TaskInv
<1>15. Unused'
  <2> SUFFICES ASSUME NEW f \in temps' PROVE f[2] < sequence'
    BY Zenon DEF Unused
  <2>1. CASE f = new
    BY <1>3, <1>9, <2>1
  <2>2. CASE f # new
    <3>1. f \in temps /\ f \in Temps /\ f[2] < sequence
      BY <1>6, <2>2, Zenon DEF IInv, Unused, TypeOK
    <3>2. f[2] \in Nat
      BY <3>1 DEF Temps
    <3> QED
      BY <1>9, <3>1, <3>2
  <2> QED
    BY <2>1, <2>2
<1>16. LeftInv'
  <2>1. Left' \subseteq Left
    <3> SUFFICES ASSUME NEW f \in Left' PROVE f \in Left
      BY Zenon
    <3>1. f \in temps' /\ \A u \in Tasks : f # mine'[u]
      BY Zenon DEF Left
    <3>2. f \in temps /\ f \in Temps
      BY <1>5, <1>6, <3>1, Zenon DEF IInv, TypeOK
    <3>3. mine[t] = NoTemp
      BY <1>1, Zenon DEF IInv, TaskInv
    <3>4. f # mine[t]
      BY <3>2, <3>3, NoTempIsNone, Zenon
    <3> QED
      BY <1>5, <3>1, <3>2, <3>4, Zenon DEF Left
  <2> QED
    BY <1>1, <2>1, LeftKept, Zenon DEF IInv
<1> QED
  BY <1>1, <1>10, <1>12, <1>13, <1>14, <1>15, <1>16, StepKeeps, Zenon

\* A task gives up its temporary file: it is removed.
LEMMA DiscardKeeps ==
  ASSUME IInv, NEW t \in Tasks, NEW p \in Steps \ {"replace"}, Goto(t, p), pc[t] = "replace",
         DirMoves, sidecar' \in [TargetNames -> Entries], MayRefuse(t), Gate(p)',
         mine' = [mine EXCEPT ![t] = NoTemp], sequence' = sequence, temps' = temps \ {mine[t]},
         spent' \in [Kinds -> Nat], spent'["crash"] = spent["crash"]
  PROVE  IInv'
<1>1. pc' \in [Tasks -> Steps] /\ pc'[t] = p /\ \A u \in Tasks \ {t} : pc'[u] = pc[u]
  BY Moves, Zenon DEF IInv
<1>2. /\ refused' \in SUBSET Tasks
      /\ \A u \in Tasks \ {t} : u \in refused' <=> u \in refused
      /\ t \in refused' => ~Usable \/ began.sidecar[Home[t]] = "other"
  BY Zenon DEF MayRefuse, IInv, TypeOK, TaskInv
<1>3. /\ mine' \in [Tasks -> Temps \cup {NoTemp}] /\ mine'[t] = NoTemp
      /\ \A u \in Tasks \ {t} : mine'[u] = mine[u]
  BY Zenon DEF IInv, TypeOK
<1>4. Live(t)
  BY DEF Live
<1>5. TypeOK'
  <2>1. namespace' \in Entries /\ marker' \in Entries
    BY DEF IInv, TypeOK, DirMoves, Entries
  <2> QED
    BY <1>1, <1>2, <1>3, <2>1, Zenon DEF IInv, TypeOK
<1>6. OthersStay(t)
  <2>1. mine[t][1] = Home[t]
    BY Zenon DEF IInv, TaskInv
  <2>2. ASSUME NEW u \in Tasks \ {t}, pc[u] = "replace", mine[u] \in temps
        PROVE  mine[u] \in temps'
    BY <1>4, <2>1, <2>2, OwnTemps, Zenon
  <2> QED
    BY <1>1, <1>2, <1>3, <2>2, Zenon DEF OthersStay
<1>7. TaskInv(t)'
  <2>1. began' = began /\ (Usable' <=> Usable)
    BY DirKept, Zenon DEF DirMoves, IInv
  <2>2. Gate(pc[t])' /\ p # "replace"
    BY <1>1, Zenon DEF Gate
  <2> QED
    BY <1>1, <1>2, <1>3, <2>1, <2>2, Zenon DEF TaskInv
<1>8. Unused'
  BY Zenon DEF IInv, Unused
<1>9. LeftInv'
  <2>1. Left' \subseteq Left
    <3> SUFFICES ASSUME NEW f \in Left' PROVE f \in Left
      BY Zenon
    <3>1. f \in temps' /\ \A u \in Tasks : f # mine'[u]
      BY Zenon DEF Left
    <3> QED
      BY <1>3, <3>1, Zenon DEF Left
  <2> QED
    BY <2>1, LeftKept, Zenon DEF IInv
<1> QED
  BY <1>4, <1>5, <1>6, <1>7, <1>8, <1>9, StepKeeps, Zenon

LEMMA ReplaceFailsKeeps ==
  ASSUME IInv, NEW t \in Tasks, ReplaceFails(t)
  PROVE  IInv'
<1>1. /\ pc[t] = "replace" /\ Goto(t, "failed") /\ Spend("fault")
      /\ temps' = temps \ {mine[t]} /\ mine' = [mine EXCEPT ![t] = NoTemp]
      /\ UNCHANGED <<namespace, marker, foreign, sidecar, sequence, refused, began>>
  BY Zenon DEF ReplaceFails, Discard
<1>2. "fault" \in Kinds \ {"crash"}
  BY DEF Kinds
<1>3. spent' \in [Kinds -> Nat] /\ spent'["crash"] = spent["crash"]
  BY <1>1, <1>2, SpentMore, Zenon DEF IInv
<1>4. marker = "ours"
  BY <1>1 DEF IInv, TaskInv, Gate
<1>5. DirMoves /\ sidecar' \in [TargetNames -> Entries]
  BY <1>1, <1>4, Zenon DEF DirMoves, IInv, TypeOK
<1>6. "failed" \in Steps \ {"replace"} /\ Gate("failed")' /\ MayRefuse(t)
  BY <1>1 DEF Steps, Gate, MayRefuse
<1> QED
  BY <1>1, <1>3, <1>5, <1>6, DiscardKeeps, Zenon

LEMMA ReplaceKeeps ==
  ASSUME IInv, NEW t \in Tasks, Replace(t)
  PROVE  IInv'
<1>1. /\ pc[t] = "replace"
      /\ temps' = temps \ {mine[t]} /\ mine' = [mine EXCEPT ![t] = NoTemp]
      /\ UNCHANGED <<namespace, marker, foreign, sequence, began, spent>>
  BY Zenon DEF Replace
<1>2. spent' \in [Kinds -> Nat] /\ spent'["crash"] = spent["crash"]
  BY <1>1, SpentSame, Zenon DEF IInv
<1>3. marker = "ours"
  BY <1>1 DEF IInv, TaskInv, Gate
<1>4. Home[t] \in TargetNames /\ sidecar \in [TargetNames -> Entries] /\ "ours" \in Entries
  BY DEF TargetNames, IInv, TypeOK, Entries
<1>5. CASE Destination(Home[t])
  <2>1. /\ sidecar' = [sidecar EXCEPT ![Home[t]] = "ours"] /\ Goto(t, "run") /\ refused' = refused
        /\ sidecar[Home[t]] # "other"
    BY <1>5, Zenon DEF Replace, Destination
  <2>2. /\ sidecar' \in [TargetNames -> Entries]
        /\ \A n \in TargetNames : sidecar'[n] = IF n = Home[t] THEN "ours" ELSE sidecar[n]
    BY <1>4, <2>1, Zenon
  <2>3. \A n \in TargetNames : sidecar'[n] = "other" <=> sidecar[n] = "other"
    BY <2>1, <2>2
  <2>4. DirMoves
    BY <1>1, <1>3, <2>3, Zenon DEF DirMoves
  <2>5. "run" \in Steps \ {"replace"} /\ Gate("run")' /\ MayRefuse(t)
    BY <2>1 DEF Steps, Gate, MayRefuse
  <2> QED
    BY <1>1, <1>2, <2>1, <2>2, <2>4, <2>5, DiscardKeeps, Zenon
<1>6. CASE ~Destination(Home[t])
  <2>1. /\ sidecar' = sidecar /\ Goto(t, "failed") /\ refused' = refused \cup {t}
        /\ sidecar[Home[t]] = "other"
    BY <1>6, Zenon DEF Replace, Destination, Refuse
  <2>2. DirMoves /\ sidecar' \in [TargetNames -> Entries]
    BY <1>1, <1>3, <1>4, <2>1, Zenon DEF DirMoves
  <2>3. began.sidecar[Home[t]] = "other"
    BY <1>4, <2>1, Zenon DEF IInv, DirInv
  <2>4. "failed" \in Steps \ {"replace"} /\ Gate("failed")' /\ MayRefuse(t)
    BY <2>1, <2>3 DEF Steps, Gate, MayRefuse
  <2> QED
    BY <1>1, <1>2, <2>1, <2>2, <2>4, DiscardKeeps, Zenon
<1> QED
  BY <1>5, <1>6, Zenon

\* A process that dies leaves at most its own temporary file.
LEMMA CrashKeeps ==
  ASSUME IInv, NEW t \in Tasks, Crash(t)
  PROVE  IInv'
<1>1. /\ Live(t) /\ Goto(t, "ended") /\ Spend("crash") /\ mine' = [mine EXCEPT ![t] = NoTemp]
      /\ UNCHANGED <<namespace, marker, foreign, sidecar, temps, sequence, refused, began>>
  BY Zenon DEF Crash
<1>2. "ended" \in Steps /\ "ended" # "replace" /\ Gate("ended")' /\ "crash" \in Kinds
  BY DEF Steps, Gate, Kinds
<1>3. pc' \in [Tasks -> Steps] /\ pc'[t] = "ended" /\ \A u \in Tasks \ {t} : pc'[u] = pc[u]
  BY <1>1, <1>2, Moves, Zenon DEF IInv
<1>4. /\ mine' \in [Tasks -> Temps \cup {NoTemp}] /\ mine'[t] = NoTemp
      /\ \A u \in Tasks \ {t} : mine'[u] = mine[u]
  BY <1>1, Zenon DEF IInv, TypeOK
<1>5. /\ spent["crash"] \in Nat /\ spent' \in [Kinds -> Nat]
      /\ spent'["crash"] = spent["crash"] + 1
  <2>1. spent \in [Kinds -> Nat] /\ spent' = [spent EXCEPT !["crash"] = spent["crash"] + 1]
    BY <1>1, Zenon DEF IInv, TypeOK, Spend
  <2>2. spent["crash"] \in Nat /\ spent["crash"] + 1 \in Nat
    BY <1>2, <2>1
  <2> QED
    BY <1>2, <2>1, <2>2, Zenon
<1>6. TypeOK'
  BY <1>1, <1>3, <1>4, <1>5, Zenon DEF IInv, TypeOK
<1>7. DirMoves /\ OthersStay(t)
  BY <1>1, <1>3, <1>4, Zenon DEF DirMoves, OthersStay
<1>8. TaskInv(t)'
  <2>1. began' = began /\ (Usable' <=> Usable)
    BY <1>7, DirKept, Zenon DEF DirMoves, IInv
  <2>2. Gate(pc[t])'
    BY <1>2, <1>3, Zenon DEF Gate
  <2>3. t \in refused => ~Usable \/ began.sidecar[Home[t]] = "other"
    BY Zenon DEF IInv, TaskInv
  <2> QED
    BY <1>1, <1>2, <1>3, <1>4, <2>1, <2>2, <2>3, Zenon DEF TaskInv
<1>9. Unused'
  BY <1>1, Zenon DEF IInv, Unused
<1>10. LeftInv'
  <2>1. PICK S, x, T : S = Left /\ x = mine[t] /\ T = Left'
    BY Zenon
  <2>2. IsFiniteSet(S) /\ Cardinality(S) <= spent["crash"]
    BY <2>1, Zenon DEF IInv, LeftInv
  <2>3. T \in SUBSET (S \cup {x})
    <3> SUFFICES ASSUME NEW f \in Left', f # mine[t] PROVE f \in Left
      BY <2>1, Zenon
    <3>1. f \in temps' /\ \A u \in Tasks : f # mine'[u]
      BY Zenon DEF Left
    <3> QED
      BY <1>1, <1>4, <3>1, Zenon DEF Left
  <2>4. /\ IsFiniteSet(S \cup {x}) /\ Cardinality(S) \in Nat
        /\ Cardinality(S \cup {x}) = IF x \in S THEN Cardinality(S) ELSE Cardinality(S) + 1
    BY <2>2, FS_AddElement, FS_CardinalityType, Zenon
  <2>5. Cardinality(S \cup {x}) <= spent'["crash"] /\ Cardinality(S \cup {x}) \in Nat
    BY <1>5, <2>2, <2>4
  <2>6. IsFiniteSet(T) /\ Cardinality(T) <= Cardinality(S \cup {x})
    BY <2>3, <2>4, FS_Subset, Zenon
  <2>7. Cardinality(T) \in Nat /\ spent'["crash"] \in Nat
    BY <1>2, <1>5, <2>6, FS_CardinalityType, Zenon
  <2>8. Cardinality(T) <= spent'["crash"]
    BY <2>5, <2>6, <2>7
  <2> QED
    BY <2>1, <2>6, <2>8, Zenon DEF LeftInv
<1> QED
  BY <1>1, <1>6, <1>7, <1>8, <1>9, <1>10, StepKeeps, Zenon

-----------------------------------------------------------------------------
(* The theorems                                                            *)

LEMMA InitKeeps ==
  ASSUME Init
  PROVE  IInv
<1>1. DOMAIN Bounds = Kinds
  BY DEF Bounds, Kinds
<1>2. spent \in [Kinds -> Nat] /\ spent["crash"] = 0
  <2>1. spent = [k \in Kinds |-> 0]
    BY <1>1, Zenon DEF Init
  <2> QED
    BY <2>1 DEF Kinds
<1>3. TypeOK
  <2>1. "idle" \in Steps /\ sequence \in Nat \ {0}
    BY DEF Init, Steps
  <2> QED
    BY <1>2, <2>1, Zenon DEF Init, TypeOK
<1>4. /\ began.namespace = namespace /\ began.marker = marker /\ began.foreign = foreign
      /\ began.sidecar = sidecar
  BY DEF Init
<1>5. marker # "ours" => \A n \in TargetNames : sidecar[n] = "absent"
  BY Zenon DEF Init
<1>6. BeganInv
  BY <1>3, <1>4, <1>5, Zenon DEF Init, BeganInv, TypeOK
<1>7. DirInv
  BY <1>4, <1>5, Zenon DEF Init, DirInv
<1>8. Distinct /\ Unused
  BY Zenon DEF Init, Distinct, Unused, Live
<1>9. LeftInv
  <2>1. Left = {}
    BY Zenon DEF Left, Init
  <2>2. IsFiniteSet(Left) /\ Cardinality(Left) = 0
    BY <2>1, FS_EmptySet, Zenon
  <2> QED
    BY <1>2, <2>2 DEF LeftInv
<1>10. ASSUME NEW t \in Tasks PROVE TaskInv(t)
  <2>1. pc[t] = "idle" /\ mine[t] = NoTemp /\ refused = {}
    BY Zenon DEF Init
  <2> QED
    BY <2>1 DEF TaskInv, Gate
<1> QED
  BY <1>3, <1>6, <1>7, <1>8, <1>9, <1>10, Zenon DEF IInv

LEMMA NextKeeps ==
  ASSUME IInv, [Next]_vars
  PROVE  IInv'
<1>1. CASE Next
  <2>1. PICK t \in Tasks :
          \/ Start(t) \/ Load(t) \/ MakeDirectory(t) \/ LookMarker(t) \/ ScanDirectory(t)
          \/ RecheckMarker(t) \/ Claim(t) \/ MakeTemp(t) \/ ReplaceFails(t) \/ Replace(t)
          \/ Complete(t) \/ Stop(t) \/ Crash(t)
    BY <1>1, Zenon DEF Next
  <2> QED
    BY <2>1, StartKeeps, LoadKeeps, MakeDirectoryKeeps, LookMarkerKeeps, ScanKeeps, RecheckKeeps,
       ClaimKeeps, MakeTempKeeps, ReplaceFailsKeeps, ReplaceKeeps, CompleteKeeps, StopKeeps,
       CrashKeeps, Zenon
<1>2. CASE UNCHANGED vars
  <2>1. UNCHANGED <<namespace, marker, foreign, sidecar, temps, sequence, pc, mine, refused,
                    began, spent>>
    BY <1>2, Zenon DEF vars
  <2>2. TypeOK' /\ BeganInv' /\ DirInv' /\ Distinct' /\ Unused'
    BY <2>1, Zenon DEF IInv, TypeOK, BeganInv, DirInv, Distinct, Unused, Usable, Live
  <2>3. LeftInv'
    BY <2>1, LeftKept, Zenon DEF IInv, Left
  <2>4. \A t \in Tasks : TaskInv(t)'
    BY <2>1, Zenon DEF IInv, TaskInv, Gate, Usable
  <2> QED
    BY <2>2, <2>3, <2>4, Zenon DEF IInv
<1> QED
  BY <1>1, <1>2, Zenon

\* The inductive invariant: the directory is created and claimed only where it
\* was usable, a task has passed what its step relies on, the tasks at work have
\* targets and temporary files of their own, and a file without an owner is
\* owed to a crash.
THEOREM NamespaceInvariant == Spec => []IInv
<1>1. Init => IInv
  BY InitKeeps, Zenon
<1>2. IInv /\ [Next]_vars => IInv'
  BY NextKeeps, Zenon
<1> QED
  BY <1>1, <1>2, PTL DEF Spec

\* ensure_sidecar_namespace, for any number of tasks of any processes that
\* initialise the directory at the same time, die and fail in the middle: only
\* what was there before them makes them refuse it (ClaimsCooperate), and a
\* directory that was not usable is never claimed nor written into
\* (NeverClaimsForeign).
THEOREM ClaimsAreSafe == Spec => [](ClaimsCooperate /\ NeverClaimsForeign)
<1>1. IInv => ClaimsCooperate
  BY Zenon DEF IInv, TypeOK, TaskInv, ClaimsCooperate
<1>2. IInv => NeverClaimsForeign
  <2> SUFFICES ASSUME IInv, ~Usable
               PROVE  /\ marker = began.marker /\ namespace = began.namespace
                      /\ temps = {} /\ sidecar = began.sidecar
    BY Zenon DEF NeverClaimsForeign
  <2>1. marker = began.marker
    BY Zenon DEF IInv, DirInv
  <2>2. began.namespace # "absent" /\ began.marker # "ours"
    BY DEF IInv, BeganInv, Usable
  <2>3. namespace = began.namespace
    BY <2>2, Zenon DEF IInv, DirInv
  <2>4. /\ temps = {} /\ \A n \in TargetNames : sidecar[n] = "absent"
        /\ \A n \in TargetNames : began.sidecar[n] = "absent"
    BY <2>1, <2>2, Zenon DEF IInv, DirInv, BeganInv
  <2>5. sidecar = began.sidecar
    BY <2>4 DEF IInv, TypeOK, BeganInv
  <2> QED
    BY <2>1, <2>3, <2>4, <2>5, Zenon
<1> QED
  BY <1>1, <1>2, NamespaceInvariant, PTL

\* The files in the directory: what is at the place of a sidecar and is not a
\* regular file stays (OddEntriesStay), the file a task is about to rename is
\* there, whoever cleans up at the same time (TempsAreSafe), and every file
\* without an owner is owed to a process that died (LeftoversBounded).
THEOREM FilesAreSafe == Spec => [](OddEntriesStay /\ TempsAreSafe /\ LeftoversBounded)
<1>1. IInv => OddEntriesStay
  BY Zenon DEF IInv, DirInv, OddEntriesStay
<1>2. IInv => TempsAreSafe
  BY Zenon DEF IInv, TaskInv, TempsAreSafe
<1>3. IInv => LeftoversBounded
  BY DEF IInv, LeftInv, Left, LeftoversBounded
<1> QED
  BY <1>1, <1>2, <1>3, NamespaceInvariant, PTL
=============================================================================
