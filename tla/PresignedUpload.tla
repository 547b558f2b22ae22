---------------------------- MODULE PresignedUpload ----------------------------
(***************************************************************************)
(* A multipart upload with presigned URLs (presigned/multipart_upload.rs)  *)
(* under the executor: a plan of parts made elsewhere, URLs that expire    *)
(* and are signed again, and a manifest of uploaded parts that the caller  *)
(* may save and give to a new instance after a restart.                    *)
(*                                                                         *)
(* Offsets and sizes are counted in chunks; part i begins at offset i - 1. *)
(***************************************************************************)
EXTENDS MultipartDriver

CONSTANT MaxAge   \* 0: URLs stay valid, 1: they become due, 2: they expire

VARIABLES plan,     \* the plan and the hooks of the instance
          uploaded, \* uploaded_parts: the numbers of its entries
          poison,   \* resumed_parts_error
          signed,   \* parts in flight that have a URL, and which one
          age,      \* of the URLs of the plan: 0 fresh, 1 due, 2 expired
          saved,    \* what the caller has saved of uploaded_parts()
          held,     \* service: the parts it has
          object    \* service: what was assembled

vars == <<driverVars, plan, uploaded, poison, signed, age, saved, held, object>>

NoObject == {0}
NoPart == 0
NoUrl == "no"

\* The size of each part of a plan: 1 is a chunk, 0 is a part left out.
Plans == [Numbers -> 0..2]

Init ==
  /\ DriverInit /\ uploaded = {} /\ poison = FALSE /\ age = 0 /\ saved = {} /\ held = {} /\ object = NoObject
  /\ signed = [i \in Numbers |-> NoUrl]
  /\ plan \in [size : Plans, completes : BOOLEAN, refresher : BOOLEAN]

-----------------------------------------------------------------------------
(* prepare                                                                 *)

\* PresignedMultipartUploadPlan::validate: gaps and overlaps are not refused.
PlanValid ==
  /\ \E i \in Numbers : plan.size[i] # NoPart
  /\ \A i \in Numbers : plan.size[i] # NoPart => i - 1 + plan.size[i] <= Total

\* resumed_offset_from: contiguous from 0 and of the size of the plan.
Prefix == CHOOSE n \in 0..Total : 1..n \subseteq uploaded /\ (n = Total \/ n + 1 \notin uploaded)

\* The entries after the first gap are dropped.
Prepare ==
  /\ pc = "prepare"
  /\ IF PlanValid /\ ~poison
     THEN /\ uploaded' = {i \in uploaded : i <= Prefix}
          /\ Prepared(IF Prefix > stored THEN Prefix ELSE stored)
     ELSE PrepareFails /\ UNCHANGED uploaded
  /\ UNCHANGED <<plan, poison, signed, age, saved, held, object>>

StopPrepare ==
  PrepareStopped /\ UNCHANGED <<plan, uploaded, poison, signed, age, saved, held, object>>

-----------------------------------------------------------------------------
(* upload_chunk                                                            *)

SendPart(i) ==
  Dispatch(i) /\ UNCHANGED <<plan, uploaded, poison, signed, age, saved, held, object>>

\* The URL of this attempt: the plan keeps its own.
Sign(i, url) == signed' = [signed EXCEPT ![i] = url]

\* part_for_upload without a refresher: due is good enough, expired is not.
Usable == age = 0 \/ (age = 1 /\ ~plan.refresher)

\* part_for_upload.  The refresher may fail, or return another part or a URL
\* that has expired.
SignPart(i) ==
  /\ i \in flight /\ signed[i] = NoUrl
  /\ \/ /\ plan.size[i] # NoPart /\ Usable
        /\ Sign(i, "plan") /\ UNCHANGED driverVars
     \/ /\ plan.size[i] # NoPart /\ age > 0 /\ plan.refresher
        /\ \/ Sign(i, "new") /\ UNCHANGED driverVars
           \/ PartRefused(i) /\ UNCHANGED signed
     \/ /\ plan.size[i] = NoPart \/ (age = 2 /\ ~plan.refresher)
        /\ PartRefused(i) /\ UNCHANGED signed
  /\ UNCHANGED <<plan, uploaded, poison, age, saved, held, object>>

\* stop_requested() is read once more after the URL was refreshed.
StopPart(i) ==
  /\ PartCanceled(i) /\ Sign(i, NoUrl)
  /\ UNCHANGED <<plan, uploaded, poison, age, saved, held, object>>

\* The entry of this offset is updated or added.
Record(i) == uploaded' = uploaded \cup {i}

\* The part is sent if it has the size of the chunk; the service refuses a URL
\* that has expired meanwhile.
PutPart(i) ==
  /\ i \in flight /\ signed[i] # NoUrl /\ Sign(i, NoUrl)
  /\ IF plan.size[i] = 1 /\ (signed[i] = "new" \/ age < 2)
     THEN /\ held' = held \cup {i}
          /\ \/ PartDone(i) /\ Record(i)
             \/ Fault /\ PartFails(i) /\ UNCHANGED uploaded
     ELSE PartRefused(i) /\ UNCHANGED <<uploaded, held>>
  /\ UNCHANGED <<plan, poison, age, saved, object>>

LosePart(i) ==
  /\ signed[i] # NoUrl /\ plan.size[i] = 1 /\ Fault /\ PartFails(i) /\ Sign(i, NoUrl)
  /\ UNCHANGED <<plan, uploaded, poison, age, saved, held, object>>

JoinParts == Join /\ UNCHANGED <<plan, uploaded, poison, signed, age, saved, held, object>>

-----------------------------------------------------------------------------
(* complete_upload, abort_upload                                           *)

\* sort_dedup_completion_parts: what the completion lists.
Manifest == uploaded

\* send_callback: an answer, or none to a request that was or was not served.
Callback(answered, lost, effect) ==
  \/ answered /\ effect
  \/ Fault /\ lost /\ (effect \/ UNCHANGED object)

\* The server of the callback assembles the parts that are listed.
Complete ==
  /\ pc = "complete"
  /\ IF plan.completes THEN Callback(Completed, CompleteFails, object' = Manifest)
     ELSE Completed /\ UNCHANGED object
  /\ UNCHANGED <<plan, uploaded, poison, signed, age, saved, held>>

\* The abort callback may be missing or fail; nothing local depends on it.
Abort ==
  /\ Callback(Aborted /\ UNCHANGED spent, Aborted, UNCHANGED object)
  /\ UNCHANGED <<plan, uploaded, poison, signed, age, saved, held>>

-----------------------------------------------------------------------------
(* The caller and the clock                                                *)

NewTask == Enqueue /\ UNCHANGED <<plan, uploaded, poison, signed, age, saved, held, object>>
ResumeTask == Resume /\ UNCHANGED <<plan, uploaded, poison, signed, age, saved, held, object>>
Request == Control /\ UNCHANGED <<plan, uploaded, poison, signed, age, saved, held, object>>

\* The caller saves uploaded_parts().
Save ==
  /\ pc \in Busy \cup {"paused"} /\ saved # uploaded /\ saved' = uploaded
  /\ UNCHANGED <<driverVars, plan, uploaded, poison, signed, age, held, object>>

\* validate_resumed_part.
ResumedFits(p) == plan.size[p.number] = p.size

\* with_resumed_parts: one entry for each offset; one that does not fit makes
\* the next prepare fail.
WithResumed(parts) ==
  /\ uploaded' = {p.number : p \in parts} /\ poison' = \E p \in parts : ~ResumedFits(p)

\* A new process gives what was saved to a new instance, and perhaps an entry
\* that was saved for another plan.
NewInstance ==
  /\ Restarted(0) /\ signed' = [i \in Numbers |-> NoUrl] /\ UNCHANGED <<plan, age, saved, held, object>>
  /\ LET parts == [number : saved, size : {1}]
         other == {p \in [number : Numbers, size : 1..2] : plan.size[p.number] # p.size}
     IN \E extra \in {{}} \cup {{p} : p \in other} : WithResumed(parts \cup extra)

Tick ==
  /\ age < MaxAge /\ age' = age + 1
  /\ UNCHANGED <<driverVars, plan, uploaded, poison, signed, saved, held, object>>

Next ==
  \/ Prepare \/ StopPrepare \/ JoinParts \/ Complete \/ Abort
  \/ NewTask \/ ResumeTask \/ Request \/ Save \/ NewInstance \/ Tick
  \/ \E i \in Numbers : SendPart(i) \/ SignPart(i) \/ StopPart(i) \/ PutPart(i) \/ LosePart(i)

Spec == Init /\ [][Next]_vars

-----------------------------------------------------------------------------
(* Properties                                                              *)

\* The completion lists every part of the file, each of which the service has:
\* whatever was saved when, lost, resumed or dropped behind a gap.
ManifestIsWhole == pc = "complete" => uploaded = Parts /\ Parts \subseteq held

\* A part that counts as done is at the service, also when only a saved
\* manifest says so.
AckedIsHeld == pc \in {"parts", "complete"} => acked \subseteq held

\* What is assembled is the whole file.
CommittedIsSource == object # NoObject => object = Parts

\* A run that sent a part and reports Completed has been assembled, if the
\* plan has a completion request.
SentIsCommitted == pc = "done" /\ fresh # {} /\ plan.completes => object = Parts

=============================================================================
