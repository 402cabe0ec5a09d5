--------------------------------- MODULE DmSend ---------------------------------
(***************************************************************************)
(* Sending approved direct messages through the browser, and reconciling   *)
(* sends whose outcome is unknown, beside the approval flow that feeds it. *)
(*                                                                         *)
(* A browser job is one process: `dm send` or `dm reconcile`, started by   *)
(* the watchdog or by hand.  The Threads site is outside the program: what *)
(* a page shows and whether Enter sends is left open wherever the code     *)
(* does not look.                                                          *)
(***************************************************************************)
EXTENDS DmOpportunity

CONSTANTS
  Browsers,    (* browser jobs that can overlap                              *)
  MaxBlind     (* bound on reconciliations of a row that was misjudged       *)

ASSUME BlindAssumption == MaxBlind \in Nat

VARIABLES
  target,     (* opportunities whose target_threads_username is filled in    *)
  step,       (* what a browser job does next                                *)
  job,        (* the opportunity it works on                                 *)
  words,      (* the approved text it read                                   *)
  delivered,  (* messages of an opportunity that exist on Threads            *)
  texts,      (* their texts                                                 *)
  blind       (* requeues of an opportunity made while a message existed     *)

browser == <<step, job, words>>
threads == <<delivered, texts>>
sendVars == <<target, browser, threads, blind>>
vars == <<approvalVars, upsets, sendVars>>

\* A job's steps, the ones before its page leaves its hands, the ones after the
\* claim that still decide the row's outcome.
PageSteps == {"open", "prepare", "click", "confirm"}
Holding == {"prepare", "click", "confirm", "markSent", "markUncertain", "markFailed"}
Steps == {"idle", "open", "claim", "look", "found", "absent"} \cup Holding

SendInit ==
  /\ Init
  /\ target = {}
  /\ step = [b \in Browsers |-> "idle"]
  /\ job = [b \in Browsers |-> CHOOSE o \in Opps : TRUE]
  /\ words = [b \in Browsers |-> NoText]
  /\ delivered = [o \in Opps |-> 0]
  /\ texts = [o \in Opps |-> {}]
  /\ blind = [o \in Opps |-> 0]

\* What every browser step leaves alone.
Apart == UNCHANGED <<stale, shown, crossed, commands>>

Move(b, next) ==
  /\ step' = [step EXCEPT ![b] = next]
  /\ UNCHANGED <<job, words>>
Done(b) ==
  /\ step' = [step EXCEPT ![b] = "idle"]
  /\ words' = [words EXCEPT ![b] = NoText]
  /\ UNCHANGED job
Engage(b, o, next) ==
  /\ step[b] = "idle"
  /\ step' = [step EXCEPT ![b] = next]
  /\ job' = [job EXCEPT ![b] = o]
  /\ words' = [words EXCEPT ![b] = opp[o].approved]

\* The row transitions if its status is `from`; the caller ignores the result.
Swap(o, from, to) ==
  IF Matches(o, from) THEN Patch(o, [opp[o] EXCEPT !.status = to]) ELSE UNCHANGED opp

-----------------------------------------------------------------------------
(***************************************************************************)
(* dm send.                                                                *)
(***************************************************************************)

\* No code of the repository fills in the recipient; whoever does is outside it.
FillTarget(o) ==
  /\ opp[o].status # "absent" /\ o \notin target
  /\ target' = target \cup {o}
  /\ Calm /\ Apart /\ UNCHANGED <<opp, browser, threads, blind>>

\* The listing is ordered by created_at descending and cut to one row.
Newest(o) == \A p \in Opps : opp[p].status = "approved" => p <= o

\* run_dm_send_pass and send-next.
BeginPass(b) ==
  /\ \E o \in Opps : opp[o].status = "approved" /\ Newest(o) /\ Engage(b, o, "open")
  /\ Calm /\ Apart /\ UNCHANGED <<opp, target, threads, blind>>

\* `dm send --id`.
BeginSend(b, o) ==
  /\ opp[o].status # "absent"
  /\ Engage(b, o, "open")
  /\ Calm /\ Apart /\ UNCHANGED <<opp, target, threads, blind>>

\* The page opens, check_eligibility, and the row with its approved text is read.
Eligible(o) ==
  /\ opp[o].status = "approved" /\ opp[o].approved # NoText
  /\ o \in target /\ o \notin stale

Check(b) ==
  LET o == job[b] IN
  /\ step[b] = "open"
  /\ \/ /\ Eligible(o)
        /\ step' = [step EXCEPT ![b] = "claim"]
        /\ words' = [words EXCEPT ![b] = opp[o].approved]
        /\ UNCHANGED job
     \/ ~Eligible(o) /\ Done(b)
  /\ Calm /\ Apart /\ UNCHANGED <<opp, target, threads, blind>>

\* Mutant: an unresolved row can be claimed.
ClaimableUnresolved == {"approved", "send_uncertain"}
Claimable == {"approved"}

Claim(b) ==
  LET o == job[b] IN
  /\ step[b] = "claim"
  /\ \/ /\ Matches(o, Claimable)
        /\ Patch(o, [opp[o] EXCEPT !.status = "sending"])
        /\ Move(b, "prepare")
     \/ ~Matches(o, Claimable) /\ Done(b) /\ UNCHANGED opp
  /\ Calm /\ Apart /\ UNCHANGED <<target, threads, blind>>

\* A challenge, the wrong account, no exact recipient, a composer that holds
\* another text: the send is given up before Enter.
Refuse(b) ==
  /\ step[b] = "prepare"
  /\ Move(b, "markFailed")
  /\ Calm /\ Apart /\ UNCHANGED <<opp, target, threads, blind>>

\* The recipient is resolved, the conversation is opened, the composer holds the
\* approved text.
Compose(b) ==
  /\ step[b] = "prepare"
  /\ Move(b, "click")
  /\ Calm /\ Apart /\ UNCHANGED <<opp, target, threads, blind>>

Deliver(b) ==
  LET o == job[b] IN
  /\ delivered' = [delivered EXCEPT ![o] = @ + 1]
  /\ texts' = [texts EXCEPT ![o] = @ \cup {words[b]}]

\* Enter is pressed; Threads may not take it.
Click(b) ==
  /\ step[b] = "click"
  /\ Deliver(b) \/ UNCHANGED threads
  /\ Move(b, "confirm")
  /\ Calm /\ Apart /\ UNCHANGED <<opp, target, blind>>

\* The probe looks for the text anywhere on the page: it can miss a message and
\* it can take the composer for one.
Confirm(b) ==
  /\ step[b] = "confirm"
  /\ Move(b, "markSent") \/ Move(b, "markUncertain")
  /\ Calm /\ Apart /\ UNCHANGED <<opp, target, threads, blind>>

\* Mutants: an unconfirmed send goes back to approved, or counts as failed.
UncertainAgain == "approved"
UncertainFails == "failed"
Uncertain == "send_uncertain"

MarkSent(b) ==
  /\ step[b] = "markSent"
  /\ Swap(job[b], {"sending"}, "sent") /\ Done(b)
  /\ Calm /\ Apart /\ UNCHANGED <<target, threads, blind>>

MarkUncertain(b) ==
  /\ step[b] = "markUncertain"
  /\ Swap(job[b], {"sending"}, Uncertain) /\ Done(b)
  /\ Calm /\ Apart /\ UNCHANGED <<target, threads, blind>>

\* None of the categories that are ever raised is recoverable.
MarkFailed(b) ==
  /\ step[b] = "markFailed"
  /\ Swap(job[b], {"sending", "approved"}, "failed") /\ Done(b)
  /\ Calm /\ Apart /\ UNCHANGED <<target, threads, blind>>

\* The page raises a BrowserCDPError, which only the reconcile probe catches.
\* Enter may have been taken all the same.
PageFails(b) ==
  /\ step[b] \in PageSteps
  /\ \/ step[b] = "click" /\ Deliver(b)
     \/ UNCHANGED threads
  /\ Done(b)
  /\ Upset("page") /\ Apart /\ UNCHANGED <<opp, target, blind>>

\* The process is killed (the watchdog's timeout) or a store call raises.
JobCrash(b) ==
  /\ step[b] # "idle"
  /\ Done(b)
  /\ Upset("crash") /\ Apart /\ UNCHANGED <<opp, target, threads, blind>>

-----------------------------------------------------------------------------
(***************************************************************************)
(* dm reconcile.                                                           *)
(***************************************************************************)

BeginReconcile(b, o) ==
  /\ opp[o].status = "send_uncertain" /\ blind[o] < MaxBlind
  /\ Engage(b, o, "look")
  /\ Calm /\ Apart /\ UNCHANGED <<opp, target, threads, blind>>

\* A fresh page is searched for the text without opening the conversation: a
\* message that exists may not be found, and the text may stand elsewhere.
Look(b) ==
  /\ step[b] = "look"
  /\ Move(b, "found") \/ Move(b, "absent") \/ Done(b)
  /\ Calm /\ Apart /\ UNCHANGED <<opp, target, threads, blind>>

Found(b) ==
  /\ step[b] = "found"
  /\ Swap(job[b], {"send_uncertain"}, "sent") /\ Done(b)
  /\ Calm /\ Apart /\ UNCHANGED <<target, threads, blind>>

Absent(b) ==
  LET o == job[b] IN
  /\ step[b] = "absent"
  /\ Swap(o, {"send_uncertain"}, "approved") /\ Done(b)
  /\ blind' = [blind EXCEPT ![o] =
                 IF Matches(o, {"send_uncertain"}) /\ delivered[o] > 0 THEN @ + 1 ELSE @]
  /\ Calm /\ Apart /\ UNCHANGED <<target, threads>>

-----------------------------------------------------------------------------

SendStep(b) ==
  \/ Check(b) \/ Claim(b) \/ Refuse(b) \/ Compose(b) \/ Click(b) \/ Confirm(b)
  \/ MarkSent(b) \/ MarkUncertain(b) \/ MarkFailed(b)
  \/ Look(b) \/ Found(b) \/ Absent(b)

SendNext ==
  \/ ApprovalNext /\ UNCHANGED sendVars
  \/ \E o \in Opps : FillTarget(o)
  \/ \E b \in Browsers :
       \/ BeginPass(b) \/ SendStep(b) \/ PageFails(b) \/ JobCrash(b)
       \/ \E o \in Opps : BeginSend(b, o) \/ BeginReconcile(b, o)

Spec == SendInit /\ [][SendNext]_vars

-----------------------------------------------------------------------------
(***************************************************************************)
(* Correctness.                                                            *)
(***************************************************************************)

\* The type of every variable.
TypeOK ==
  /\ ApprovalTypeOK
  /\ target \subseteq Opps
  /\ step \in [Browsers -> Steps]
  /\ job \in [Browsers -> Opps]
  /\ words \in [Browsers -> Texts \cup {NoText}]
  /\ delivered \in [Opps -> Nat]
  /\ texts \in [Opps -> SUBSET (Texts \cup {NoText})]
  /\ blind \in [Opps -> Nat]

\* claim_dm_opportunity: "no two workers can hold the same claim".  A job that
\* has claimed a row stays its only sender until it has recorded the outcome.
OneSender ==
  \A b, c \in Browsers :
    b # c /\ step[b] \in Holding /\ step[c] \in Holding => job[b] # job[c]

\* dm_send.py: "sends the exact persisted approved text": whatever edits ran
\* against the approval, what is on Threads is the text that was approved.
OnlyApprovedText ==
  \A o \in Opps : texts[o] \subseteq {opp[o].approved} \ {NoText}

\* A message is sent again only after a reconciliation that put the row back
\* while a message existed.  No crash, failed write or race of senders does it.
ResentOnlyBlindly == \A o \in Opps : delivered[o] <= 1 + blind[o]

\* A message that exists is on record: its row is being sent, sent, to be
\* reconciled, or expired; a row that reads failed, rejected or approved hides
\* no message that a reconciliation has not judged.
DeliveryOnRecord ==
  \A o \in Opps : delivered[o] > blind[o] =>
    opp[o].status \in {"sending", "sent", "send_uncertain", "expired"}

\* The flow implements the promise of DmAuthority: every message spends an
\* authority that was granted, once.
Armed(b, o) == job[b] = o /\ step[b] \in {"prepare", "click"}
AuthOf(o) ==
  IF opp[o].approved = NoText THEN "none"
  ELSE IF \E b \in Browsers : Armed(b, o) THEN "armed"
  ELSE IF opp[o].status = "approved" THEN "granted" ELSE "spent"

Authority == INSTANCE DmAuthority WITH
  auth <- [o \in Opps |-> AuthOf(o)],
  words <- [o \in Opps |-> opp[o].approved],
  copies <- delivered

ImplementsAuthority == Authority!ASpec

-----------------------------------------------------------------------------
(***************************************************************************)
(* What the documentation says and the code does not do.                   *)
(***************************************************************************)

\* dm_send.py: "wrong recipient / duplicate send are the worst outcomes", and a
\* row returns to approved only when the message is "confidently absent".
SentOnce == \A o \in Opps : delivered[o] <= 1

\* dm_send.py, _mark_failed: "Recoverable pre-send failures return to approved
\* for a bounded retry": a row that nobody is sending does not read `sending`.
SendingIsHeld ==
  \A o \in Opps : opp[o].status = "sending" =>
    \E b \in Browsers : step[b] \in Holding /\ job[b] = o

\* operator_cli.py, _run_dm_send_next: "Send the next approved opportunity
\* (oldest first)": a sendable row is tried whatever is approved after it.  With
\* passes that keep coming, true of a single opportunity, not of two.
OldestIsTried ==
  \A o \in Opps :
    opp[o].status = "approved" /\ o \in target ~> (opp[o].status # "approved" \/ o \in stale)
=============================================================================
