------------------------------ MODULE MCProviders ------------------------------
(***************************************************************************)
(* The multipart uploads for TLC: in each behaviour the uploads of one     *)
(* provider, chosen at the beginning, with the bounds of that provider.    *)
(* The driver's state is shared; that of the other providers is not used.  *)
(***************************************************************************)
EXTENDS Naturals

CONSTANT Providers

VARIABLES provider,
          pc, task, stored, acked, flight, broken, stop, fresh, spent, \* the driver
          held, object,                               \* OSS or presigned parts
          sess, list, made, live, known,              \* OSS
          blocks, uncommitted, blob,                  \* Azure
          plan, uploaded, poison, signed, age, saved  \* presigned

driverVars == <<pc, task, stored, acked, flight, broken, stop, fresh, spent>>
serviceVars == <<held, object>>
ossVars == <<sess, list, made, live, known>>
azureVars == <<blocks, uncommitted, blob>>
presignedVars == <<plan, uploaded, poison, signed, age, saved>>
vars == <<provider, driverVars, serviceVars, ossVars, azureVars, presignedVars>>

\* A file of three parts, and then a shorter one, on one instance or two.
Oss == INSTANCE OssUpload WITH
  Sizes <- <<3, 2>>, Window <- 2, MaxFaults <- 3, MaxStops <- 2, MaxRestarts <- 0, MaxSessions <- 5

\* One task of three parts, run again by up to two later processes.
OssAgain == INSTANCE OssUpload WITH
  Sizes <- <<3>>, Window <- 2, MaxFaults <- 2, MaxStops <- 1, MaxRestarts <- 2, MaxSessions <- 5

\* A file of three blocks, and then a shorter one for the same blob.
Azure == INSTANCE AzureUpload WITH
  Sizes <- <<3, 2>>, Window <- 2, MaxFaults <- 2, MaxStops <- 2, MaxRestarts <- 1, MayExpire <- FALSE

\* One file, whose blocks the service may drop before they are committed.
AzureExpiry == INSTANCE AzureUpload WITH
  Sizes <- <<3>>, Window <- 2, MaxFaults <- 2, MaxStops <- 2, MaxRestarts <- 2, MayExpire <- TRUE

\* Every plan of two parts; the URLs become due and expire.
Presigned == INSTANCE PresignedUpload WITH
  Sizes <- <<2>>, Window <- 2, MaxFaults <- 2, MaxStops <- 1, MaxRestarts <- 1, MaxAge <- 2

NoService == held = {} /\ object = {}
NoOss == sess = {} /\ list = {} /\ made = {} /\ live = {} /\ known = {}
NoAzure == blocks = {} /\ uncommitted = {} /\ blob = {}
NoPresigned == plan = {} /\ uploaded = {} /\ poison = {} /\ signed = {} /\ age = {} /\ saved = {}

Init ==
  /\ provider \in Providers
  /\ \/ provider = "oss" /\ Oss!Init /\ NoAzure /\ NoPresigned
     \/ provider = "oss again" /\ OssAgain!Init /\ NoAzure /\ NoPresigned
     \/ provider = "azure" /\ Azure!Init /\ NoService /\ NoOss /\ NoPresigned
     \/ provider = "azure expiry" /\ AzureExpiry!Init /\ NoService /\ NoOss /\ NoPresigned
     \/ provider = "presigned" /\ Presigned!Init /\ NoOss /\ NoAzure

OssStep ==
  /\ provider = "oss" /\ Oss!Next
  /\ UNCHANGED <<provider, azureVars, presignedVars>>
OssAgainStep ==
  /\ provider = "oss again" /\ OssAgain!Next
  /\ UNCHANGED <<provider, azureVars, presignedVars>>
AzureStep ==
  /\ provider = "azure" /\ Azure!Next
  /\ UNCHANGED <<provider, serviceVars, ossVars, presignedVars>>
AzureExpiryStep ==
  /\ provider = "azure expiry" /\ AzureExpiry!Next
  /\ UNCHANGED <<provider, serviceVars, ossVars, presignedVars>>
PresignedStep ==
  /\ provider = "presigned" /\ Presigned!Next
  /\ UNCHANGED <<provider, ossVars, azureVars>>

Next == OssStep \/ OssAgainStep \/ AzureStep \/ AzureExpiryStep \/ PresignedStep

Spec == Init /\ [][Next]_vars

-----------------------------------------------------------------------------
(* Properties                                                              *)

\* What a provider makes an object of is the file of the task that asked for it:
\* no part missing or out of place, and nothing of an earlier task, save for an
\* OSS session that a failed task left to the next one on its instance, whose
\* later parts are merged too.  And a run that sent a part and reports Completed
\* has made the object, whichever answers were lost on the way (complete_upload
\* of the three providers).
CommittedIsSource ==
  /\ provider = "oss" => Oss!CommittedIsSource /\ Oss!SentIsCommitted
  /\ provider = "oss again" => OssAgain!CommittedIsSource /\ OssAgain!SentIsCommitted
  /\ provider = "azure" => Azure!CommittedIsSource /\ Azure!SentIsCommitted
  /\ provider = "azure expiry" => AzureExpiry!CommittedIsSource /\ AzureExpiry!SentIsCommitted
  /\ provider = "presigned" => /\ Presigned!CommittedIsSource /\ Presigned!SentIsCommitted
                               /\ Presigned!ManifestIsWhole

\* A part that counts as done is in the session that will be completed, with
\* the content of this task: also after a pause, after a restart, or when the
\* session was found in a listing (prepare, upload_chunk).
AckedIsHeld ==
  /\ provider = "oss" => Oss!AckedIsHeld
  /\ provider = "oss again" => OssAgain!AckedIsHeld
  /\ provider = "azure" => Azure!AckedIsKept
  /\ provider = "azure expiry" => AzureExpiry!AckedIsKept
  /\ provider = "presigned" => Presigned!AckedIsHeld

\* An open OSS session whose id was learnt is still the one that would be
\* aborted: none is forgotten, and no second one is begun beside it
\* (MultipartSession.upload_id).
SessionsAccounted ==
  /\ provider = "oss" => Oss!SessionsAccounted
  /\ provider = "oss again" => OssAgain!SessionsAccounted

\* upload_trait.rs: "When computed next offset reaches task.total_size(), the
\* executor calls complete_upload": a task that reports Completed was completed.
DoneIsCommitted ==
  /\ provider = "oss" => Oss!DoneIsCommitted
  /\ provider = "oss again" => OssAgain!DoneIsCommitted

=============================================================================
