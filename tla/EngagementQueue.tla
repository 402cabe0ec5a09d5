--------------------------- MODULE EngagementQueue ---------------------------
(***************************************************************************)
(* The queue of replies to other accounts' posts.  A reply is proposed     *)
(* once per post, decided in Telegram, and published by the `engagement    *)
(* execute' command, which claims the row, checks the target, publishes    *)
(* and records.  There is no retry: whatever goes wrong after the claim    *)
(* ends in `failed' or in a row that stays `executing'.                    *)
(*                                                                         *)
(* Every transition is one PATCH with the expected status in its filter.   *)
(***************************************************************************)
EXTENDS Naturals, Sequences

CONSTANTS
  Posts,      (* rows of the queue, one for each post replied to             *)
  Texts,      (* reply texts                                                 *)
  NoText,
  Executors,  (* `engagement execute' commands that can overlap              *)
  MaxFaults   (* bound on faults                                             *)

ASSUME NoTextAssumption == NoText \notin Texts
ASSUME FaultBound == MaxFaults \in Nat

VARIABLES
  status,    (* of each row; "absent" before it is proposed                  *)
  proposed,  (* proposed_text                                                *)
  pc,        (* what an execute command does next                            *)
  at,        (* the row it was started for                                   *)
  text,      (* proposed_text of the row its claim returned                  *)
  faults,    (* faults so far                                                *)
  (* History, read by the properties only. *)
  sent,      (* the texts published as a reply to a post, in order           *)
  granted,   (* the text that was approved                                   *)
  stranded   (* rows whose command ended without recording an outcome        *)

rowVars == <<status, proposed>>
execVars == <<pc, at, text>>
past == <<sent, granted, stranded>>
queueVars == <<rowVars, execVars, faults, past>>

EngagementStatuses == {"absent", "pending_approval", "approved", "executing", "posted",
                       "rejected", "failed"}

QueueInit ==
  /\ status = [e \in Posts |-> "absent"]
  /\ proposed = [e \in Posts |-> NoText]
  /\ pc = [x \in Executors |-> "idle"]
  /\ at \in [Executors -> Posts]
  /\ text = [x \in Executors |-> NoText]
  /\ faults = 0
  /\ sent = [e \in Posts |-> <<>>]
  /\ granted = [e \in Posts |-> NoText]
  /\ stranded = {}

Fault == faults < MaxFaults /\ faults' = faults + 1

\* _transition: the PATCH finds the row only in the expected status.
Expected(e, from) == status[e] = from
Set(e, to) == status' = [status EXCEPT ![e] = to]

-----------------------------------------------------------------------------
(***************************************************************************)
(* Proposal and decision.                                                  *)
(***************************************************************************)

\* propose_reply: the look-up, or the unique index over account, permalink and
\* action, gives every later proposal the row that is there.
ProposeReply(e, t) ==
  /\ Expected(e, "absent")
  /\ Set(e, "pending_approval")
  /\ proposed' = [proposed EXCEPT ![e] = t]
  /\ UNCHANGED <<execVars, faults, past>>

Undecided(e) == Expected(e, "pending_approval")

EditPendingReply(e, t) ==
  /\ Undecided(e)
  /\ proposed' = [proposed EXCEPT ![e] = t]
  /\ UNCHANGED <<status, execVars, faults, past>>

ApproveReply(e) ==
  /\ Expected(e, "pending_approval")
  /\ Set(e, "approved")
  /\ granted' = [granted EXCEPT ![e] = proposed[e]]
  /\ UNCHANGED <<proposed, execVars, faults, sent, stranded>>

RejectReply(e) ==
  /\ Expected(e, "pending_approval")
  /\ Set(e, "rejected")
  /\ UNCHANGED <<proposed, execVars, faults, past>>

-----------------------------------------------------------------------------
(***************************************************************************)
(* _run_engagement_execute.                                                *)
(***************************************************************************)

Become(x, step) == pc' = [pc EXCEPT ![x] = step]

\* The list the command reads first decides nothing but a dry run.
BeginExecute(x, e) ==
  /\ pc[x] = "idle"
  /\ Become(x, "claim") /\ at' = [at EXCEPT ![x] = e]
  /\ UNCHANGED <<rowVars, text, faults, past>>

\* Mutant: a failed reply is claimed again.
ClaimableFailed(e) == status[e] \in {"approved", "failed"}

Claimable(e) == Expected(e, "approved")

ClaimReply(x) ==
  LET e == at[x] IN
  /\ pc[x] = "claim"
  /\ \/ /\ Claimable(e)
        /\ Set(e, "executing")
        /\ text' = [text EXCEPT ![x] = proposed[e]]
        /\ Become(x, "validate")
     \/ ~Claimable(e) /\ Become(x, "idle") /\ UNCHANGED <<status, text>>
  /\ UNCHANGED <<proposed, at, faults, past>>

\* The claim is carried out and its answer is lost.
ClaimLost(x) ==
  LET e == at[x] IN
  /\ pc[x] = "claim" /\ Claimable(e)
  /\ Set(e, "executing")
  /\ stranded' = stranded \cup {e}
  /\ Become(x, "idle")
  /\ Fault /\ UNCHANGED <<proposed, at, text, sent, granted>>

Known(x) ==
  /\ pc[x] = "validate"
  /\ Become(x, "publish")
  /\ UNCHANGED <<rowVars, at, text, faults, past>>

\* get_media does not know the post: a scraped id, or an error.  The command answers
\* "approved" and leaves the row in executing.
Unknown(x) ==
  /\ pc[x] = "validate"
  /\ stranded' = stranded \cup {at[x]}
  /\ Become(x, "idle")
  /\ UNCHANGED <<rowVars, at, text, faults, sent, granted>>

PublishReply(x) ==
  LET e == at[x] IN
  /\ pc[x] = "publish"
  /\ sent' = [sent EXCEPT ![e] = Append(@, text[x])]
  /\ Become(x, "posted")
  /\ UNCHANGED <<rowVars, at, text, faults, granted, stranded>>

\* publish_text raises; the reply may be on Threads all the same.
PublishFails(x) ==
  LET e == at[x] IN
  /\ pc[x] = "publish"
  /\ \/ sent' = [sent EXCEPT ![e] = Append(@, text[x])]
     \/ UNCHANGED sent
  /\ Become(x, "failed")
  /\ Fault /\ UNCHANGED <<rowVars, at, text, granted, stranded>>

\* Mutant: the reply that is on Threads is not recorded.
MarkNothing(x) ==
  /\ pc[x] = "posted"
  /\ Become(x, "idle")
  /\ UNCHANGED <<rowVars, at, text, faults, past>>

MarkReplyPosted(x) ==
  /\ pc[x] = "posted"
  /\ IF Expected(at[x], "executing") THEN Set(at[x], "posted") ELSE UNCHANGED status
  /\ Become(x, "idle")
  /\ UNCHANGED <<proposed, at, text, faults, past>>

\* The handler of publish_text also catches an error of the posted write.
MarkPostedFails(x) ==
  /\ pc[x] = "posted"
  /\ \/ IF Expected(at[x], "executing") THEN Set(at[x], "posted") ELSE UNCHANGED status
     \/ UNCHANGED status
  /\ Become(x, "failed")
  /\ Fault /\ UNCHANGED <<proposed, at, text, past>>

\* Mutant: the failure is written whatever the row's status.
FailsAny(e) == TRUE

Fails(e) == Expected(e, "executing")

MarkReplyFailed(x) ==
  LET e == at[x] IN
  /\ pc[x] = "failed"
  /\ IF Fails(e) THEN Set(e, "failed") ELSE UNCHANGED status
  /\ Become(x, "idle")
  /\ UNCHANGED <<proposed, at, text, faults, past>>

Holding == {"validate", "publish", "posted", "failed"}

\* The command is killed (the bridge waits 60 seconds), or its last write raises.
Killed(x) ==
  /\ pc[x] # "idle"
  /\ stranded' = IF pc[x] \in Holding THEN stranded \cup {at[x]} ELSE stranded
  /\ Become(x, "idle")
  /\ Fault /\ UNCHANGED <<rowVars, at, text, sent, granted>>

-----------------------------------------------------------------------------

ExecuteStep(x) ==
  \/ ClaimReply(x) \/ ClaimLost(x) \/ Known(x) \/ Unknown(x)
  \/ PublishReply(x) \/ PublishFails(x)
  \/ MarkReplyPosted(x) \/ MarkPostedFails(x) \/ MarkReplyFailed(x) \/ Killed(x)

QueueNext ==
  \/ \E e \in Posts : ApproveReply(e) \/ RejectReply(e)
  \/ \E e \in Posts, t \in Texts : ProposeReply(e, t) \/ EditPendingReply(e, t)
  \/ \E x \in Executors : ExecuteStep(x) \/ \E e \in Posts : BeginExecute(x, e)

QueueSpec == QueueInit /\ [][QueueNext]_queueVars

-----------------------------------------------------------------------------
(***************************************************************************)
(* Correctness.                                                            *)
(***************************************************************************)

RowsTyped ==
  /\ status \in [Posts -> EngagementStatuses]
  /\ proposed \in [Posts -> Texts \cup {NoText}]

ExecTyped ==
  /\ pc \in [Executors -> Holding \cup {"idle", "claim"}]
  /\ at \in [Executors -> Posts]
  /\ text \in [Executors -> Texts \cup {NoText}]

PastTyped ==
  /\ sent \in [Posts -> Seq(Texts \cup {NoText})]
  /\ granted \in [Posts -> Texts \cup {NoText}]
  /\ stranded \subseteq Posts

QueueTypeOK == RowsTyped /\ ExecTyped /\ PastTyped /\ faults \in Nat

\* However many commands are started for a row, and whatever request fails, a post
\* gets at most one reply, with the text that was approved.
RepliedOnceAsApproved ==
  \A e \in Posts : sent[e] = <<>> \/ sent[e] = <<granted[e]>>

\* A row in executing has a command that will record its outcome, or that command
\* ended without: killed, or because the post is not known to the API.
ExecutingIsHeld ==
  \A e \in Posts :
    status[e] = "executing" =>
      e \in stranded \/ \E x \in Executors : at[x] = e /\ pc[x] \in Holding

\* A row that is posted, rejected or failed stays so: a posted write whose answer was
\* lost is not turned into a failure by the handler that follows.
OutcomeIsFinal ==
  [][\A e \in Posts :
       status[e] \in {"posted", "rejected", "failed"} => status'[e] = status[e]]_queueVars
=============================================================================
