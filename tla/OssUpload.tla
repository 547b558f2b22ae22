------------------------------- MODULE OssUpload -------------------------------
(***************************************************************************)
(* The Aliyun OSS multipart protocol (aliyun-oss-direct/upload.rs) under   *)
(* the executor, with the OSS service it talks to: sessions that outlive   *)
(* their client, requests and answers that are lost, listings that are     *)
(* read page by page, and a completion that merges every part the session  *)
(* holds.  All tasks have one URL, so the session of the instance is kept  *)
(* from one to the next.                                                   *)
(***************************************************************************)
EXTENDS MultipartDriver

CONSTANT MaxSessions   \* sessions the service is asked for, in all

VARIABLES sess,    \* MultipartSession.upload_id, 0 for none
          list,    \* the listing that prepare is reading
          made,    \* service: the sessions created, each by the task it was begun for
          live,    \* service: those that are open
          held,    \* service: the parts of each session, 0 for a missing one
          object,  \* service: what was committed last, for which task and from which session
          known    \* history: the sessions whose id this instance has learnt

vars == <<driverVars, sess, list, made, live, held, object, known>>

Sessions == 1..MaxSessions
NoPart == 0
NoList == [step |-> "no", found |-> {}, marker |-> 0, parts |-> {}]
Held(s) == {<<i, held[s][i]>> : i \in {j \in Numbers : held[s][j] # NoPart}}

Init ==
  /\ DriverInit /\ sess = 0 /\ list = NoList /\ made = <<>> /\ live = {} /\ known = {}
  /\ held = [s \in Sessions |-> [i \in Numbers |-> NoPart]]
  /\ object = [by |-> 0, from |-> 0, parts |-> {}]

-----------------------------------------------------------------------------
(* prepare                                                                 *)

\* The instance has a session for this URL.
Reusable == sess # 0

PrepareKnown ==
  /\ Reusable /\ Prepared(stored)
  /\ UNCHANGED <<sess, list, made, live, held, object, known>>

\* initiate_multipart_upload: the session exists even if its answer is lost.
InitiateMultipart ==
  Len(made) < MaxSessions /\ made' = Append(made, task) /\ live' = live \cup {Len(made')}

Initiate ==
  /\ pc = "prepare" /\ ~Reusable /\ stored = 0 /\ InitiateMultipart
  /\ \/ Prepared(0) /\ sess' = Len(made') /\ known' = known \cup {sess'} /\ UNCHANGED list
     \/ PrepareBreaks /\ UNCHANGED <<sess, known, list>>
  /\ UNCHANGED <<held, object>>

\* Nothing is known of a session, but parts were confirmed: look for it.
Lists == pc = "prepare" /\ sess = 0 /\ stored > 0

\* Which of two sessions holds the confirmed parts cannot be told.
Ambiguous(found) == Cardinality(found) > 1

\* One page of the open sessions, in the order of their ids.
UploadPage ==
  LET more == {s \in live : s > list.marker} IN {s \in more : \A r \in more : s <= r}

\* try_adopt_upload_id_from_list: exactly one session may be found.
ListUploads ==
  /\ Lists /\ list.step = "no"
  /\ LET page == UploadPage
         found == list.found \cup page
     IN \/ /\ page # {} /\ ~Ambiguous(found)
           /\ list' = [list EXCEPT !.found = found, !.marker = CHOOSE s \in page : TRUE]
           /\ UNCHANGED driverVars
        \/ /\ page = {} /\ found # {} /\ list' = [list EXCEPT !.step = "parts", !.marker = 0]
           /\ UNCHANGED driverVars
        \/ Ambiguous(found) /\ list' = NoList /\ PrepareFails
        \/ found = {} /\ list' = NoList /\ PrepareFails
  /\ UNCHANGED <<sess, made, live, held, object, known>>

Candidate == CHOOSE s \in list.found : TRUE

\* expected_part_size: the last part of a task is shorter.
PartSize(t, i) == IF i = Sizes[t] THEN "tail" ELSE "full"

\* Faulty variant of Resumable: parts below the offset are not looked for.
ResumableAny(parts) == \A p \in parts : p[1] <= Total /\ PartSize(p[2], p[1]) = PartSize(task, p[1])

\* validate_remote_parts_for_resume.
Resumable(parts) ==
  /\ \A p \in parts : p[1] <= Total /\ PartSize(p[2], p[1]) = PartSize(task, p[1])
  /\ \A i \in 1..stored : \E p \in parts : p[1] = i

\* The part-number-marker of the next page.
PartMarker(page) == (CHOOSE p \in page : TRUE)[1]

\* One page of list_uploaded_parts.
PartPage ==
  LET more == {p \in Held(Candidate) : p[1] > list.marker} IN {p \in more : \A q \in more : p[1] <= q[1]}

\* The pages are put together; after the last one the session is adopted or not.
ListParts ==
  /\ Lists /\ list.step = "parts"
  /\ LET page == PartPage
     IN \/ /\ Candidate \notin live /\ list' = NoList /\ PrepareFails /\ UNCHANGED <<sess, known>>
        \/ /\ Candidate \in live /\ page # {}
           /\ list' = [list EXCEPT !.parts = @ \cup page, !.marker = PartMarker(page)]
           /\ UNCHANGED <<driverVars, sess, known>>
        \/ /\ Candidate \in live /\ page = {} /\ Resumable(list.parts)
           /\ Prepared(stored) /\ sess' = Candidate /\ known' = known \cup {Candidate} /\ list' = NoList
        \/ /\ Candidate \in live /\ page = {} /\ ~Resumable(list.parts)
           /\ PrepareFails /\ list' = NoList /\ UNCHANGED <<sess, known>>
  /\ UNCHANGED <<made, live, held, object>>

\* The request to begin a session, or a page of a listing, is lost.
PrepareLost ==
  /\ PrepareBreaks /\ list' = NoList
  /\ ~Reusable /\ UNCHANGED <<sess, made, live, held, object, known>>

\* The token is seen between two attempts only.
StopPrepare ==
  /\ list = NoList /\ PrepareStopped
  /\ UNCHANGED <<sess, list, made, live, held, object, known>>

-----------------------------------------------------------------------------
(* upload_chunk, complete_upload, abort_upload                             *)

SendPart(i) == Dispatch(i) /\ UNCHANGED <<sess, list, made, live, held, object, known>>

\* The service stores a part under its number; the answer may be lost, or come
\* without the ETag that acknowledges the part.
ServePart(i) ==
  /\ i \in flight
  /\ IF sess \in live
     THEN /\ held' = [held EXCEPT ![sess][i] = task]
          /\ PartDone(i) \/ PartRefused(i) \/ (Fault /\ PartFails(i))
     ELSE PartRefused(i) /\ UNCHANGED held
  /\ UNCHANGED <<sess, list, made, live, object, known>>

\* The request is refused or lost, or not sent any more.
LosePart(i) ==
  /\ PartRefused(i) \/ (Fault /\ PartFails(i)) \/ PartCanceled(i)
  /\ UNCHANGED <<sess, list, made, live, held, object, known>>

JoinParts == Join /\ UNCHANGED <<sess, list, made, live, held, object, known>>

\* Faulty variant of Forget: the id is dropped before the answer.
ForgetAlways(answered) == sess' = 0

\* The id is forgotten when the service answered.
Forget(answered) == sess' = IF answered THEN 0 ELSE sess

\* complete_upload with x-oss-complete-all: all parts of the session.
Complete ==
  /\ pc = "complete"
  /\ IF sess \in live
     THEN /\ object' = [by |-> task, from |-> sess, parts |-> Held(sess)] /\ live' = live \ {sess}
          /\ \/ Completed /\ Forget(TRUE)
             \/ Fault /\ CompleteFails /\ Forget(FALSE)
     ELSE CompleteFails /\ Forget(FALSE) /\ UNCHANGED <<spent, object, live>>
  /\ UNCHANGED <<list, made, held, known>>

LoseComplete ==
  /\ Fault /\ CompleteFails /\ Forget(FALSE)
  /\ UNCHANGED <<list, made, live, held, object, known>>

\* send_abort_multipart: a 404 counts as success; on failure the id is kept.
SendAbort ==
  \/ UNCHANGED spent /\ live' = live \ {sess} /\ Forget(TRUE)
  \/ Fault /\ live' \in {live, live \ {sess}} /\ Forget(FALSE)

\* abort_upload: nothing to do without a session.
Abort ==
  /\ Aborted
  /\ IF sess = 0 THEN UNCHANGED <<spent, live, sess>> ELSE SendAbort
  /\ UNCHANGED <<list, made, held, object, known>>

-----------------------------------------------------------------------------
(* The caller and the service                                              *)

\* The next task uses the same instance, or a new one.
NewTask ==
  /\ Enqueue
  /\ \/ UNCHANGED <<sess, known>>
     \/ task # 0 /\ sess' = 0 /\ known' = {}
  /\ UNCHANGED <<list, made, live, held, object>>

ResumeTask == Resume /\ UNCHANGED <<sess, list, made, live, held, object, known>>
Request == Control /\ UNCHANGED <<sess, list, made, live, held, object, known>>

NewInstance ==
  /\ Restarted(stored) /\ sess' = 0 /\ known' = {} /\ list' = NoList
  /\ UNCHANGED <<made, live, held, object>>

\* A lifecycle rule of the bucket drops a session that is not completed.
Expire ==
  /\ Fault /\ \E s \in live : live' = live \ {s}
  /\ UNCHANGED <<pc, task, stored, acked, flight, broken, stop, fresh, sess, list, made, held, object, known>>

Step ==
  \/ PrepareKnown \/ Initiate \/ ListUploads \/ ListParts \/ StopPrepare
  \/ JoinParts \/ Complete \/ Abort
  \/ \E i \in Numbers : SendPart(i) \/ ServePart(i)

Next ==
  \/ Step \/ PrepareLost \/ LoseComplete \/ NewTask \/ ResumeTask \/ Request \/ NewInstance \/ Expire
  \/ \E i \in Numbers : LosePart(i)

Spec == Init /\ [][Next]_vars

\* Requests are answered, or their client times out.
FairSpec == Spec /\ WF_vars(Step)

-----------------------------------------------------------------------------
(* Properties                                                              *)

\* What is committed has every part of the file of the task that committed it.
\* When the session was begun for that task there is nothing else.  A session
\* that an earlier task left open when it failed is used again, and then parts
\* of that task may follow the last one: x-oss-complete-all takes what is there.
CommittedIsSource ==
  object.by # 0 =>
    LET own == {<<i, object.by>> : i \in 1..Sizes[object.by]}
        begun == made[object.from]
    IN  /\ own \subseteq object.parts
        /\ \A p \in object.parts \ own : p[1] > Sizes[object.by] /\ begun <= p[2] /\ p[2] < object.by

\* Every part that counts as done is in the session that will be completed,
\* with the content of this task: also after a pause, or when the session was
\* found in a listing.
AckedIsHeld ==
  pc \in {"parts", "complete"} /\ sess \in live => \A i \in acked : held[sess][i] = task

\* An open session whose id was learnt is still the one that would be aborted:
\* none is forgotten, and no second one is begun beside it.
SessionsAccounted == known \cap live \subseteq {sess}

\* A task that sent a part in its last run and reports Completed is committed.
SentIsCommitted == pc = "done" /\ fresh # {} => object.by = task

\* upload_trait.rs says "When computed next offset reaches task.total_size(),
\* the executor calls complete_upload".
DoneIsCommitted == pc = "done" => object.by = task

\* Every run ends, whatever is lost: no page and no part is asked for for ever.
RunEnds == pc \in Busy ~> pc \notin Busy

=============================================================================
