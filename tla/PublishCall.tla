------------------------------ MODULE PublishCall ------------------------------
(***************************************************************************)
(* One call of publish_text, with its containers and its retries inside    *)
(* the call, and what the publish worker makes of the exception that a     *)
(* failed call raises.  An answer of the Threads API is classified twice:  *)
(* as JSON by the client, which decides about another request, and as the  *)
(* text of the exception by the worker, which decides about another run.   *)
(*                                                                         *)
(* PublishQueue takes the call as one step that creates one post at most;  *)
(* OnePostPerCall says when that is so.                                    *)
(***************************************************************************)
EXTENDS Naturals

CONSTANTS
  MaxAttempts,      (* max_attempts: publish requests for one container      *)
  ContainerRetries, (* container_retries                                     *)
  MaxRuns,          (* max_persisted_attempts: calls for one row             *)
  MaxHidden         (* bound on error answers to requests that were carried out *)

ASSUME CallBounds ==
  MaxAttempts \in Nat \ {0} /\ ContainerRetries \in Nat /\ MaxRuns \in Nat \ {0} /\ MaxHidden \in Nat

VARIABLES
  pc,          (* the next request of the call, "judge" or "rest"            *)
  containers,  (* containers this call created                               *)
  attempts,    (* publish requests for the newest one                        *)
  raised,      (* the exception the call raised, as the worker reads it      *)
  verdict,     (* what became of the row                                     *)
  runs,        (* calls so far                                               *)
  (* History, read by the properties only. *)
  posts,       (* posts this call created                                    *)
  hidden,      (* of these, those whose request got an error answer          *)
  met          (* what the error answers to its publish requests said        *)

callVars == <<containers, attempts>>
worker == <<raised, verdict, runs>>
history == <<posts, hidden, met>>
vars == <<pc, callVars, worker, history>>

(***************************************************************************)
(* An error answer: its status, whether its body is JSON with an `error`,  *)
(* and then the type, the code and the message in it.  A message is named  *)
(* by the words the code looks for.  The codes are 24 with subcode 4279009 *)
(* ("gone"), 4, 17, 32 and 613 ("limit"), 10, 190 and 200 ("refused").     *)
(* Status, type, code and words come in every combination.                 *)
(***************************************************************************)
Messages == {"other", "rate limit", "rate-limit", "too many requests", "limit", "limit of 500",
             "500 characters", "too long", "permission", "invalid token"}
Statuses == {400, 403, 429, 500, 503}

Answers ==
  [status : Statuses, json : {TRUE}, type : {"oauth", "permission", "rate", "plain"},
   code : {"gone", "limit", "refused", "other"}, message : Messages] \cup
  [status : Statuses, json : {FALSE}, type : {"plain"}, code : {"other"}, message : Messages]

\* httpx raises the concrete class; only these names of requests without an answer, and
\* the ValueError for an answer without an id, reach the worker.
Exceptions == {"ConnectError", "ConnectTimeout", "ReadTimeout", "ReadError", "ValueError"}

Nothing == [status |-> 0, json |-> FALSE, type |-> "plain", code |-> "other", message |-> "none"]
Exception(x) == [Nothing EXCEPT !.message = x]

Init ==
  /\ pc = "create" /\ containers = 0 /\ attempts = 0
  /\ raised = Nothing /\ verdict = "none" /\ runs = 1
  /\ posts = 0 /\ hidden = 0 /\ met = {}

-----------------------------------------------------------------------------
(***************************************************************************)
(* The client's reading of an answer.                                      *)
(***************************************************************************)

LimitWord(m) == m \in {"rate limit", "rate-limit", "limit", "limit of 500"}
Throttled(m) == m \in {"rate limit", "too many requests"}

\* What _is_non_retryable_publish_error leaves to the worker as a rate limit.
Limited(a) == a.status = 429 \/ (a.json /\ (a.code = "limit" \/ Throttled(a.message)))

\* _is_non_retryable_publish_error.
NonRetryable(a) ==
  /\ a.json /\ a.code # "gone" /\ ~Limited(a)
  /\ a.type \in {"oauth", "permission"} \/ a.message = "permission" \/ a.code = "refused"

\* Mutant: a rate limit is a 400 like any other.
TransientUnlimited(a) ==
  \/ a.status >= 500
  \/ a.status = 400 /\ (a.type # "oauth" \/ a.code = "gone")

\* _is_transient_publish_error: the status is looked at first, and of a 5xx nothing else.
Transient(a) ==
  \/ a.status >= 500
  \/ /\ a.status = 400
     /\ \/ ~a.json \/ a.code = "gone"
        \/ /\ a.type \notin {"oauth", "rate"} /\ a.code # "limit"
           /\ ~LimitWord(a.message) /\ ~Throttled(a.message)

Stops(a) == NonRetryable(a) \/ ~Transient(a)

-----------------------------------------------------------------------------
(***************************************************************************)
(* The worker's reading of the exception: words in a text.  A container    *)
(* request raises with the status line alone; a publish request with the   *)
(* status and the message, type and code, or the body that is not JSON.    *)
(***************************************************************************)

StatusLine(a) == [Nothing EXCEPT !.status = a.status, !.message = "other"]

\* is_permanent_content_rejection: "500", be it the status or the length, with a word
\* about length or limit.  The code is looked for as JSON and the client writes code=24:
\* it is never found.
Says500(r) == r.status = 500 \/ r.message \in {"limit of 500", "500 characters"}
Permanent(r) ==
  Says500(r) /\ (LimitWord(r.message) \/ r.message \in {"500 characters", "too long"})

\* is_rate_limited_publish_result.
RateLimited(r) ==
  r.status = 429 \/ r.code = "limit" \/ Throttled(r.message) \/ r.message = "rate-limit"

\* The words oauth, permission, or invalid and token.
Refused(r) ==
  r.type \in {"oauth", "permission"} \/ r.message \in {"permission", "invalid token"}

\* Mutant: the refusal markers are not looked for.
RetryableRefused(r) == ~Permanent(r) /\ (r.status # 0 \/ r.message = "ConnectError")

\* is_transient_publish_result: a limit; any other HTTP status that is not refused in
\* words; of the exceptions without a status, ConnectError.
Retryable(r) ==
  /\ ~Permanent(r)
  /\ \/ RateLimited(r)
     \/ r.status # 0 /\ ~Refused(r)
     \/ r.message = "ConnectError"

\* History.  A limit that both readings can know for one: below 500, not under the code
\* of a missing container, and without the number 500, which reads as the length limit.
PlainLimit(a) == Limited(a) /\ a.status < 500 /\ a.code # "gone" /\ ~Says500(a)
\* A refusal in words, not by its code alone, and without "rate-limit", which only the
\* worker takes for a limit.
NamedRefusal(a) == NonRetryable(a) /\ Refused(a) /\ ~RateLimited(a)
Kinds(a) ==
  { k \in {"limit", "refusal", "named"} :
      \/ k = "limit" /\ PlainLimit(a)
      \/ k = "refusal" /\ NonRetryable(a)
      \/ k = "named" /\ NamedRefusal(a) }

-----------------------------------------------------------------------------
(***************************************************************************)
(* publish_text.                                                           *)
(***************************************************************************)

Raise(r) == pc' = "judge" /\ raised' = r /\ UNCHANGED <<verdict, runs>>

CreateContainer ==
  /\ pc = "create"
  /\ containers' = containers + 1 /\ attempts' = 0
  /\ pc' = "publish"
  /\ UNCHANGED <<worker, history>>

CreateRejected(a) ==
  /\ pc = "create"
  /\ Raise(StatusLine(a))
  /\ UNCHANGED <<callVars, history>>

CreateRaises(x) ==
  /\ pc = "create"
  /\ Raise(Exception(x))
  /\ UNCHANGED <<callVars, history>>

PublishAccepted ==
  /\ pc = "publish"
  /\ posts' = posts + 1
  /\ pc' = "rest" /\ verdict' = "posted"
  /\ UNCHANGED <<callVars, raised, runs, hidden, met>>

Landed ==
  \/ UNCHANGED <<posts, hidden>>
  \/ hidden < MaxHidden /\ hidden' = hidden + 1 /\ posts' = posts + 1

\* An error answer: the call ends, publishes the container again after a pause, or starts
\* over with a fresh one.
PublishRejected(a) ==
  /\ pc = "publish"
  /\ attempts' = attempts + 1
  /\ \/ /\ Stops(a) \/ (attempts' = MaxAttempts /\ containers > ContainerRetries)
        /\ Raise(a)
     \/ /\ ~Stops(a) /\ attempts' < MaxAttempts
        /\ UNCHANGED <<pc, worker>>
     \/ /\ ~Stops(a) /\ attempts' = MaxAttempts /\ containers <= ContainerRetries
        /\ pc' = "create" /\ UNCHANGED worker
  /\ met' = met \cup Kinds(a)
  /\ Landed /\ UNCHANGED containers

\* Mutant: a request without an answer is repeated.
PublishRepeats(x) ==
  /\ pc = "publish"
  /\ posts' \in {posts, posts + 1}
  /\ UNCHANGED <<pc, callVars, worker, hidden, met>>

\* No answer, or one without an id: the post may be there.  Nothing but a status error is
\* retried inside the call.
PublishRaises(x) ==
  /\ pc = "publish"
  /\ \/ UNCHANGED posts
     \/ x # "ConnectError" /\ posts' = posts + 1
  /\ Raise(Exception(x))
  /\ UNCHANGED <<callVars, hidden, met>>

-----------------------------------------------------------------------------

\* _process_one_row: permanent, out of attempts, retried by a later run, or terminal.
Judge ==
  /\ pc = "judge"
  /\ verdict' = CASE Permanent(raised) -> "manual"
                  [] ~Permanent(raised) /\ runs >= MaxRuns -> "exhausted"
                  [] ~Permanent(raised) /\ runs < MaxRuns /\ Retryable(raised) -> "requeued"
                  [] OTHER -> "terminal"
  /\ pc' = "rest"
  /\ UNCHANGED <<callVars, raised, runs, history>>

\* A later run takes the row that was requeued.
NextRun ==
  /\ pc = "rest" /\ verdict = "requeued"
  /\ pc' = "create" /\ containers' = 0 /\ attempts' = 0
  /\ raised' = Nothing /\ verdict' = "none" /\ runs' = runs + 1
  /\ posts' = 0 /\ hidden' = 0 /\ met' = {}

Next ==
  \/ CreateContainer \/ PublishAccepted \/ Judge \/ NextRun
  \/ \E a \in Answers : CreateRejected(a) \/ PublishRejected(a)
  \/ \E x \in Exceptions : CreateRaises(x) \/ PublishRaises(x)

Spec == Init /\ [][Next]_vars

-----------------------------------------------------------------------------
(***************************************************************************)
(* Correctness.                                                            *)
(***************************************************************************)

CallTyped ==
  /\ pc \in {"create", "publish", "judge", "rest"}
  /\ containers \in Nat /\ attempts \in Nat
  /\ runs \in Nat /\ posts \in Nat /\ hidden \in Nat
  /\ met \subseteq {"limit", "refusal", "named"}

\* A call creates one post at most, unless an error answer hid one: a request that got
\* no answer is never repeated, in this container or a fresh one.
OnePostPerCall == posts <= 1 + hidden

\* A rate limit yields to a later run: the call that meets one makes no more requests,
\* and the worker gives the row up for nothing but its number of attempts.  Said of the
\* limits of PlainLimit: a 5xx is repeated inside the call whatever it says, against the
\* comment at threads_api.py:420, and with the number 500 the worker takes it for a
\* text that is too long.
LimitYields ==
  "limit" \in met => pc \in {"judge", "rest"} /\ verdict \in {"none", "requeued", "exhausted"}

\* A refused publish is final: after an OAuth or permission refusal, in words or by its
\* code, the call makes no more requests; and the row is not requeued when the refusal
\* is in words.  One by its code alone (10, 190, 200) the worker does not know: it
\* requeues the row.
RefusalIsFinal ==
  /\ "refusal" \in met => pc \in {"judge", "rest"} /\ verdict # "posted"
  /\ "named" \in met => verdict # "requeued"

-----------------------------------------------------------------------------
(***************************************************************************)
(* What the documentation says and the code does not do.                   *)
(***************************************************************************)

\* publish_worker.py, is_transient_publish_result: "network, timeout, 429, 5xx, and
\* non-OAuth 400 are transient": a timeout is left to a later run.
TimeoutIsRetried ==
  raised.message \in {"ReadTimeout", "ConnectTimeout"} => verdict # "terminal"
=============================================================================
