--------------------------- MODULE SidecarNamespace ---------------------------
(***************************************************************************)
(* The private directory .rusty-cat beside the download targets            *)
(* (dflt/download_progress.rs): how tasks of several clients and processes *)
(* create it and claim it with a marker, keep one sidecar per target in it *)
(* through temporary files, and clean up what a crash left, without        *)
(* touching a directory or a file that is not theirs.  Two live tasks have *)
(* different targets (TargetLease, OneSidecar); Home is the target of a    *)
(* task.                                                                   *)
(*                                                                         *)
(* An entry is "absent", "ours" (a real directory, an empty marker, a      *)
(* regular sidecar) or "other" (a symbolic link, another type of file).    *)
(***************************************************************************)
EXTENDS Naturals, FiniteSets

CONSTANTS Tasks, Home, MaxCheckpoints, MaxFaults, MaxCrashes

VARIABLES namespace,  \* the directory
          marker,     \* its ownership marker
          foreign,    \* files in it that rusty-cat did not write
          sidecar,    \* per target
          temps,      \* temporary files, as <<target, sequence number>>
          sequence,   \* CHECKPOINT_TEMP_SEQUENCE
          pc, mine,   \* per task: its step, and its temporary file
          refused,    \* tasks that found the namespace not usable (history)
          began,      \* what was there at first (history)
          spent

vars == <<namespace, marker, foreign, sidecar, temps, sequence, pc, mine, refused, began, spent>>

TargetNames == {Home[t] : t \in Tasks}

NoTemp == <<0, 0>>

Entries == {"absent", "ours", "other"}

Bounds == [checkpoint |-> MaxCheckpoints, fault |-> MaxFaults, crash |-> MaxCrashes]

Spend(kind) == spent[kind] < Bounds[kind] /\ spent' = [spent EXCEPT ![kind] = @ + 1]

\* Nothing yet; an empty directory; one that an earlier process claimed; one
\* with files of the user; something that is no directory; an odd marker or
\* sidecar.
Init ==
  /\ namespace \in Entries /\ marker \in Entries /\ foreign \in BOOLEAN
  /\ namespace # "ours" => marker = "absent" /\ ~foreign
  /\ sidecar \in [TargetNames -> Entries]
  /\ marker # "ours" => sidecar = [n \in TargetNames |-> "absent"]
  /\ temps = {} /\ sequence = 1
  /\ pc = [t \in Tasks |-> "idle"] /\ mine = [t \in Tasks |-> NoTemp]
  /\ refused = {}
  /\ began = [namespace |-> namespace, marker |-> marker, foreign |-> foreign, sidecar |-> sidecar]
  /\ spent = [k \in DOMAIN Bounds |-> 0]

Goto(t, p) == pc' = [pc EXCEPT ![t] = p]

Live(t) == pc[t] \notin {"idle", "ended"}

\* The namespace is not usable: the operation returns an error.
Refuse(t) == Goto(t, "failed") /\ refused' = refused \cup {t}

Empty == marker = "absent" /\ ~foreign /\ temps = {} /\ \A n \in TargetNames : sidecar[n] = "absent"

-----------------------------------------------------------------------------
(* Loading                                                                 *)

\* cleanup_stale_checkpoint_temps: the temporary files of this sidecar.
Stale(t) == {f \in temps : f[1] = Home[t]}

\* A run begins with the lease of its target; load_or_create looks at the
\* sidecar when the target has the right length, and ignores it otherwise.
Start(t) ==
  /\ pc[t] = "idle" /\ \A u \in Tasks : Live(u) => Home[u] # Home[t]
  /\ \/ Goto(t, "load") \/ Goto(t, "run")
  /\ UNCHANGED <<namespace, marker, foreign, sidecar, temps, sequence, mine, refused, began, spent>>

\* sidecar_namespace_is_owned, then the cleanup and read_sidecar_bounded.
Load(t) ==
  /\ pc[t] = "load"
  /\ IF namespace = "other" \/ marker = "other" THEN Refuse(t) /\ UNCHANGED temps
     ELSE IF marker = "absent" THEN Goto(t, "run") /\ UNCHANGED <<temps, refused>>
     ELSE /\ temps' = temps \ Stale(t)
          /\ IF sidecar[Home[t]] = "other" THEN Refuse(t)
             ELSE Goto(t, "run") /\ UNCHANGED refused
  /\ UNCHANGED <<namespace, marker, foreign, sidecar, sequence, mine, began, spent>>

-----------------------------------------------------------------------------
(* A checkpoint: persist_snapshot_atomic                                   *)

\* ensure_sidecar_namespace: create_dir, or a real directory that is there.
MakeDirectory(t) ==
  /\ pc[t] = "run" /\ Spend("checkpoint")
  /\ IF namespace = "other" THEN Refuse(t) /\ UNCHANGED namespace
     ELSE namespace' = "ours" /\ Goto(t, "look") /\ UNCHANGED refused
  /\ UNCHANGED <<marker, foreign, sidecar, temps, sequence, mine, began>>

\* The marker that is there decides.
ByMarker(t, otherwise) ==
  CASE marker = "ours" -> Goto(t, "temp") /\ UNCHANGED refused
    [] marker = "other" -> Refuse(t)
    [] OTHER -> otherwise

LookMarker(t) ==
  /\ pc[t] = "look" /\ ByMarker(t, Goto(t, "scan") /\ UNCHANGED refused)
  /\ UNCHANGED <<namespace, marker, foreign, sidecar, temps, sequence, mine, began, spent>>

\* Faulty variant of Scan: a directory that is not empty is not looked at again.
ScanOnce(t) == pc[t] = "scan" /\ IF Empty THEN Goto(t, "claim") /\ UNCHANGED refused ELSE Refuse(t)

\* read_dir: only an empty directory may be claimed; otherwise another task
\* may have claimed it meanwhile.
Scan(t) ==
  pc[t] = "scan" /\ Goto(t, IF Empty THEN "claim" ELSE "recheck") /\ UNCHANGED refused

ScanDirectory(t) ==
  Scan(t) /\ UNCHANGED <<namespace, marker, foreign, sidecar, temps, sequence, mine, began, spent>>

RecheckMarker(t) ==
  /\ pc[t] = "recheck" /\ ByMarker(t, Refuse(t))
  /\ UNCHANGED <<namespace, marker, foreign, sidecar, temps, sequence, mine, began, spent>>

\* create_new of the marker: the first one creates it, the others find it.
Claim(t) ==
  /\ pc[t] = "claim"
  /\ IF marker = "absent" THEN marker' = "ours" /\ Goto(t, "temp") /\ UNCHANGED refused
     ELSE ByMarker(t, FALSE) /\ UNCHANGED marker
  /\ UNCHANGED <<namespace, foreign, sidecar, temps, sequence, mine, began, spent>>

\* create_checkpoint_temp: a name nobody has used.
MakeTemp(t) ==
  /\ pc[t] = "temp"
  /\ mine' = [mine EXCEPT ![t] = <<Home[t], sequence>>] /\ temps' = temps \cup {mine'[t]}
  /\ sequence' = sequence + 1 /\ Goto(t, "replace")
  /\ UNCHANGED <<namespace, marker, foreign, sidecar, refused, began, spent>>

\* A failed checkpoint removes its temporary file.
Discard(t) == temps' = temps \ {mine[t]}

\* The write, the fsync or the rename fails.
ReplaceFails(t) ==
  /\ pc[t] = "replace" /\ Spend("fault")
  /\ Discard(t) /\ mine' = [mine EXCEPT ![t] = NoTemp] /\ Goto(t, "failed")
  /\ UNCHANGED <<namespace, marker, foreign, sidecar, sequence, refused, began>>

\* sidecar_destination_is_absent: absent, or a regular file.
Destination(n) == sidecar[n] # "other"

\* The temporary file is renamed over the sidecar.
Replace(t) ==
  /\ pc[t] = "replace"
  /\ temps' = temps \ {mine[t]} /\ mine' = [mine EXCEPT ![t] = NoTemp]
  /\ IF Destination(Home[t])
     THEN sidecar' = [sidecar EXCEPT ![Home[t]] = "ours"] /\ Goto(t, "run") /\ UNCHANGED refused
     ELSE UNCHANGED sidecar /\ Refuse(t)
  /\ UNCHANGED <<namespace, marker, foreign, sequence, began, spent>>

-----------------------------------------------------------------------------
(* The end of a run                                                        *)

\* The download is complete and delete removes the sidecar, if the namespace
\* is owned and the sidecar a regular file.
Complete(t) ==
  /\ pc[t] = "run"
  /\ sidecar' = IF marker = "ours" /\ sidecar[Home[t]] = "ours"
                THEN [sidecar EXCEPT ![Home[t]] = "absent"] ELSE sidecar
  /\ Goto(t, "ended")
  /\ UNCHANGED <<namespace, marker, foreign, temps, sequence, mine, refused, began, spent>>

\* The run failed, or is stopped: its sidecar stays.
Stop(t) ==
  /\ pc[t] \in {"run", "failed"} /\ Goto(t, "ended")
  /\ UNCHANGED <<namespace, marker, foreign, sidecar, temps, sequence, mine, refused, began, spent>>

\* The process of a task dies in the middle of a step.
Crash(t) ==
  /\ Live(t) /\ Spend("crash") /\ Goto(t, "ended") /\ mine' = [mine EXCEPT ![t] = NoTemp]
  /\ UNCHANGED <<namespace, marker, foreign, sidecar, temps, sequence, refused, began>>

Next ==
  \E t \in Tasks :
    \/ Start(t) \/ Load(t) \/ MakeDirectory(t) \/ LookMarker(t) \/ ScanDirectory(t)
    \/ RecheckMarker(t) \/ Claim(t) \/ MakeTemp(t) \/ ReplaceFails(t) \/ Replace(t)
    \/ Complete(t) \/ Stop(t) \/ Crash(t)

Spec == Init /\ [][Next]_vars

-----------------------------------------------------------------------------
(* Properties                                                              *)

\* The directory could be used by rusty-cat from the beginning.
Usable == began.namespace # "other" /\ began.marker # "other" /\ (began.foreign => began.marker = "ours")

\* ensure_sidecar_namespace: tasks that initialise an unused directory at the
\* same time never take each other's marker or files for something foreign, nor
\* what a process left that died between two steps; only what was there before
\* can make a load or a checkpoint be refused.
ClaimsCooperate ==
  \A t \in refused : ~Usable \/ began.sidecar[Home[t]] = "other"

\* ensure_sidecar_namespace: a directory with files of the user and without the
\* marker is never claimed, and nothing is written into it.
NeverClaimsForeign ==
  ~Usable => /\ marker = began.marker /\ namespace = began.namespace
             /\ temps = {} /\ sidecar = began.sidecar

\* sidecar_destination_is_absent: something at the place of a sidecar that is not
\* a regular file is neither replaced nor deleted.
OddEntriesStay ==
  \A n \in TargetNames : began.sidecar[n] = "other" => sidecar[n] = "other"

\* cleanup_stale_checkpoint_temps removes leftovers only: the temporary file a
\* live task is about to rename is there, whoever loads at the same time.
TempsAreSafe == \A t \in Tasks : pc[t] = "replace" => mine[t] \in temps

\* persist_snapshot_atomic: every temporary file belongs to a task at work, but
\* for one for each process that died.
LeftoversBounded == Cardinality(temps \ {mine[t] : t \in Tasks}) <= spent.crash

=============================================================================
