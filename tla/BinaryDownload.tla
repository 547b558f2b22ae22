---------------------------- MODULE BinaryDownload ----------------------------
(***************************************************************************)
(* One in-memory download (binary/download.rs): attempts and their retry   *)
(* schedule, the redirect policy, the bounded body and cancellation.  A    *)
(* URL is reduced to its scheme, or to "unsafe" for one with userinfo or   *)
(* another scheme; a body to its length and the attempts it came from.     *)
(***************************************************************************)
EXTENDS Naturals, FiniteSets, FiniteSetsExt

CONSTANTS GlobalMax,       \* max_body_bytes of the client
          TaskMax,         \* max_body_bytes of the task, 0 for none
          RetryDelays,     \* length of retry_delays
          RedirectLimit,
          InitialReserve,  \* INITIAL_BODY_RESERVE_LIMIT
          UnknownReserve,  \* UNKNOWN_BODY_INITIAL_RESERVE
          Sizes            \* sizes of the bodies a server may send

\* BinaryDownloadConfig::validate and BinaryTask::validate.
ValidLimits ==
  /\ GlobalMax \in 1..(64 * 1024 * 1024)
  /\ RedirectLimit \in 0..10 /\ RetryDelays \in 0..8

ValidTask == TaskMax \in 0..GlobalMax

Scheme == {"http", "https"}
Target == Scheme \cup {"unsafe"}

VARIABLES phase,     \* where the worker is
          attempt,   \* attempt_index
          origin,    \* scheme of the task's URL
          url,       \* scheme of the URL being requested
          hops,      \* redirects followed in this attempt
          size,      \* length of the body this response carries
          total,     \* bytes received in this attempt
          capacity,  \* capacity of the body vector
          from,      \* attempts whose bytes are in the vector
          canceled,  \* the cancellation token
          result     \* what download_with_retry returned

vars == <<phase, attempt, origin, url, hops, size, total, capacity, from, canceled, result>>

\* effective_max_body_bytes.
MaxBody == IF TaskMax = 0 THEN GlobalMax ELSE TaskMax

Init ==
  /\ ValidLimits /\ ValidTask
  /\ phase = "sending" /\ attempt = 0 /\ hops = 0
  /\ origin \in Scheme /\ url = origin
  /\ size = 0 /\ total = 0 /\ capacity = 0 /\ from = {}
  /\ canceled = FALSE /\ result = "none"

Return(r) == phase' = "returned" /\ result' = r

Cancel ==
  /\ phase # "returned" /\ ~canceled
  /\ canceled' = TRUE
  /\ UNCHANGED <<phase, attempt, origin, url, hops, size, total, capacity, from, result>>

\* Each of the three awaits of an attempt, and the backoff, see the token.
ObserveCancel ==
  /\ phase # "returned" /\ canceled
  /\ Return("TaskCanceled")
  /\ UNCHANGED <<attempt, origin, url, hops, size, total, capacity, from, canceled>>

-----------------------------------------------------------------------------
(* The request                                                             *)

\* reject_redirect: previous holds the first URL and one per hop.
RejectRedirect(next) ==
  \/ hops + 1 > RedirectLimit
  \/ next = "unsafe"
  \/ url = "https" /\ next = "http"

\* A redirect is followed, or ends the task.
Redirect(next) ==
  /\ phase = "sending"
  /\ \/ RejectRedirect(next) /\ Return("RedirectRejected") /\ UNCHANGED <<url, hops>>
     \/ ~RejectRedirect(next) /\ url' = next /\ hops' = hops + 1 /\ UNCHANGED <<phase, result>>
  /\ UNCHANGED <<attempt, origin, size, total, capacity, from, canceled>>

\* AttemptFailure::Retryable: the next delay, if there is one.
Retry ==
  IF attempt < RetryDelays
  THEN phase' = "backoff" /\ attempt' = attempt + 1 /\ UNCHANGED result
  ELSE Return("HttpError") /\ UNCHANGED attempt

\* The request fails, or times out.
RequestFails ==
  /\ phase = "sending"
  /\ Retry
  /\ UNCHANGED <<origin, url, hops, size, total, capacity, from, canceled>>

StatusFails ==
  /\ phase = "sending"
  /\ Return("ResponseStatusError")
  /\ UNCHANGED <<attempt, origin, url, hops, size, total, capacity, from, canceled>>

\* bounded_initial_capacity.
BoundedInitialCapacity(declared) == Min({declared, MaxBody, InitialReserve})

\* The head of a success; a declared length over the limit ends the task.
ResponseHead(n, declares) ==
  /\ phase = "sending"
  /\ size' = n
  /\ \/ declares /\ n > MaxBody /\ Return("BodyTooLarge") /\ UNCHANGED capacity
     \/ /\ ~declares \/ n <= MaxBody
        /\ phase' = "reading" /\ UNCHANGED result
        /\ capacity' = BoundedInitialCapacity(IF declares THEN n ELSE 0)
  /\ UNCHANGED <<attempt, origin, url, hops, total, from, canceled>>

-----------------------------------------------------------------------------
(* The body                                                                *)

\* Capacity after making room for required bytes.
Grown(required) ==
  LET doubled == Min({2 * Max({capacity, UnknownReserve}), MaxBody})
  IN  IF required <= capacity THEN capacity
      ELSE Min({Max({required, doubled}), MaxBody})

\* A chunk that goes over the limit ends the task before it is stored.
Chunk(n) ==
  /\ phase = "reading" /\ total + n <= size
  /\ total' = total + n
  /\ \/ total + n > MaxBody /\ Return("BodyTooLarge") /\ UNCHANGED <<capacity, from>>
     \/ /\ total + n <= MaxBody
        /\ capacity' = Grown(total + n)
        /\ from' = from \cup {attempt}
        /\ UNCHANGED <<phase, result>>
  /\ UNCHANGED <<attempt, origin, url, hops, size, canceled>>

ReadFails ==
  /\ phase = "reading"
  /\ Retry
  /\ UNCHANGED <<origin, url, hops, size, total, capacity, from, canceled>>

\* The end of a body is only seen after all of it (HTTP framing).
BodyEnds ==
  /\ phase = "reading" /\ total = size
  /\ Return("Ok")
  /\ UNCHANGED <<attempt, origin, url, hops, size, total, capacity, from, canceled>>

\* Faulty variant of NextAttempt: the body is resumed instead of restarted.
NextAttemptResumes ==
  /\ phase = "backoff"
  /\ phase' = "sending"
  /\ url' = origin /\ hops' = 0
  /\ UNCHANGED <<attempt, origin, size, total, capacity, from, canceled, result>>

\* The next attempt is a new request for the task's own URL with a new body.
NextAttempt ==
  /\ phase = "backoff"
  /\ phase' = "sending"
  /\ url' = origin /\ hops' = 0
  /\ size' = 0 /\ total' = 0 /\ capacity' = 0 /\ from' = {}
  /\ UNCHANGED <<attempt, origin, canceled, result>>

-----------------------------------------------------------------------------
Step ==
  \/ ObserveCancel \/ RequestFails \/ StatusFails \/ ReadFails \/ BodyEnds \/ NextAttempt
  \/ \E next \in Target : Redirect(next)
  \/ \E n \in Sizes, declares \in BOOLEAN : ResponseHead(n, declares)
  \/ \E n \in 1..size : Chunk(n)

Next == Cancel \/ Step

Spec == Init /\ [][Next]_vars /\ WF_vars(Step)

-----------------------------------------------------------------------------
(* Properties                                                              *)

\* What is handed over is one whole response within the task's limit, whatever
\* failed attempts received before (download_once starts with an empty body).
OkIsOneResponse ==
  result = "Ok" => total = size /\ total <= MaxBody /\ from \subseteq {attempt}

\* Memory for a body never exceeds the limit, however the server frames it, and
\* always holds what was received (bounded_initial_capacity and the doubling).
MemoryIsBounded ==
  /\ capacity <= MaxBody
  /\ phase = "reading" => total <= capacity

\* An https task is never continued over http, through any chain of redirects
\* and any number of attempts.
StaysSecure == origin = "https" => url = "https"

=============================================================================
