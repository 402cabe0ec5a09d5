------------------------------ MODULE OwnReply ------------------------------
(***************************************************************************)
(* Workflow B: a reply under one of the account's own posts becomes a row, *)
(* a classification, a drafted answer, an approval card, and at last an    *)
(* answer published through the Threads API.                               *)
(*                                                                         *)
(* The scan and the publication are commands of the watchdog, which can    *)
(* overlap with a command started by hand; an action is one request with   *)
(* the Python up to the next one.  Every status change is compare-and-swap *)
(* and every failed request may have been carried out all the same.        *)
(***************************************************************************)
EXTENDS Naturals, FiniteSets

CONSTANTS
  Replies,      (* replies under our posts, by their Graph id                *)
  Answers,      (* answer texts                                              *)
  NoAnswer,
  Scans,        (* scan commands that can overlap                            *)
  Publishers,   (* publish-approved commands that can overlap                *)
  MaxAttempts,  (* MAX_REPLY_ATTEMPTS                                        *)
  Kinds,        (* faults considered: "crash", "card", "store", "api"        *)
  MaxFaults     (* bound on faults                                           *)

ASSUME AnswersAssumption == NoAnswer \notin Answers
ASSUME WorkersAssumption == Scans \cap Publishers = {}
ASSUME AttemptsAssumption == MaxAttempts \in Nat \ {0}
ASSUME FaultsAssumption == MaxFaults \in Nat

VARIABLES
  status,    (* of each row; "absent" before the reply is discovered         *)
  proposed,  (* proposed_text                                                *)
  attempts,  (* attempt_count                                                *)
  intent,    (* the stored classification: "none", "lead" or "other"         *)
  linked,    (* rows with a dm_opportunity_id                                *)
  opps,      (* replies whose author and post have a DM opportunity          *)
  pc,        (* what a command does next                                     *)
  at,        (* the row it works on                                          *)
  count,     (* the attempt count it read or wrote                           *)
  again,     (* whether the error it caught is transient                     *)
  nameless,  (* replies for which the Graph API gave no username             *)
  gone,      (* replies that newer ones have pushed out of the scan's lists  *)
  faults,    (* faults so far                                                *)
  (* History, read by the properties only. *)
  cards,     (* approval cards delivered for a row                           *)
  sent,      (* answers that appeared on Threads                             *)
  tries,     (* calls of publish_text                                        *)
  unsure,    (* ... and of the posted write that failed or lost their answer *)
  lastDraft, (* the text that was approved                                   *)
  orphans,   (* rows whose publisher was killed while it held them           *)
  cardless,  (* rows whose card was not delivered                            *)
  stale      (* rows claimed with an attempt count read before another claim *)

rowVars == <<status, proposed, attempts, intent, linked, opps>>
workVars == <<pc, at, count, again>>
ghosts == <<cards, sent, tries, unsure, lastDraft, orphans, cardless, stale>>
ownVars == <<rowVars, workVars, nameless, gone, faults, ghosts>>

Workers == Scans \cup Publishers

ReplyStatuses == {"absent", "discovered", "pending_approval", "approved", "rejected",
                  "ignored", "posting", "posted", "failed"}

Init ==
  /\ status = [r \in Replies |-> "absent"]
  /\ proposed = [r \in Replies |-> NoAnswer]
  /\ attempts = [r \in Replies |-> 0]
  /\ intent = [r \in Replies |-> "none"]
  /\ linked = {} /\ opps = {}
  /\ pc = [p \in Workers |-> "idle"]
  /\ at \in [Workers -> Replies]
  /\ count = [p \in Workers |-> 0]
  /\ again = [p \in Workers |-> FALSE]
  /\ nameless \in SUBSET Replies
  /\ gone = {} /\ faults = 0
  /\ cards = [r \in Replies |-> 0]
  /\ sent = [r \in Replies |-> 0]
  /\ tries = [r \in Replies |-> 0]
  /\ unsure = [r \in Replies |-> 0]
  /\ lastDraft = [r \in Replies |-> NoAnswer]
  /\ orphans = {} /\ cardless = {} /\ stale = {}

Fault(kind) ==
  /\ kind \in Kinds /\ faults < MaxFaults /\ faults' = faults + 1
  /\ UNCHANGED <<nameless, gone>>

Sound == UNCHANGED <<nameless, gone, faults>>

-----------------------------------------------------------------------------
(***************************************************************************)
(* What the commands are made of.                                          *)
(***************************************************************************)

\* What an idle command remembered is gone.
Goto(p, step) ==
  /\ pc' = [pc EXCEPT ![p] = step]
  /\ IF step = "idle"
       THEN count' = [count EXCEPT ![p] = 0] /\ again' = [again EXCEPT ![p] = FALSE]
       ELSE UNCHANGED <<count, again>>
  /\ UNCHANGED at

\* transition_own_reply: PATCH ... WHERE status in `from`, or no row.
In(r, from) == status[r] \in from
Move(r, to) == status' = [status EXCEPT ![r] = to]

\* upsert_own_reply: a reply that is known already, or that another scan inserts
\* first, gives the row that is there.
Discover(r) ==
  /\ In(r, {"absent"})
  /\ Move(r, "discovered")
  /\ Sound /\ UNCHANGED <<proposed, attempts, intent, linked, opps, workVars, ghosts>>

-----------------------------------------------------------------------------
(***************************************************************************)
(* The scan: classify, open a DM opportunity, draft, propose, send a card. *)
(* The backfill classifies pending rows of earlier scans.                  *)
(***************************************************************************)

Leads == {"lead"}

\* The scan looks at the replies of the latest posts only, the backfill at the
\* latest pending rows.
Unlist(r) ==
  /\ In(r, {"discovered", "pending_approval"})
  /\ gone' = gone \cup {r}
  /\ UNCHANGED <<nameless, faults, rowVars, workVars, ghosts>>

\* discover_new_replies returns every listed reply whose row is still discovered.
BeginScan(p, r) ==
  /\ pc[p] = "idle" /\ In(r, {"discovered"}) /\ r \notin gone
  /\ pc' = [pc EXCEPT ![p] = "classify"] /\ at' = [at EXCEPT ![p] = r]
  /\ Sound /\ UNCHANGED <<rowVars, count, again, ghosts>>

\* Mutant: only rows without a classification are looked at again.
UnclassifiedOnly(r) == intent[r] = "none"

Unclassified(r) == intent[r] = "none" \/ (intent[r] \in Leads /\ r \notin linked)

BeginBackfill(p, r) ==
  /\ pc[p] = "idle" /\ In(r, {"pending_approval"}) /\ Unclassified(r) /\ r \notin gone
  /\ pc' = [pc EXCEPT ![p] = "reclassify"] /\ at' = [at EXCEPT ![p] = r]
  /\ Sound /\ UNCHANGED <<rowVars, count, again, ghosts>>

\* An error of the classification is logged: the scan goes on to the draft, the
\* backfill to its next row.
AfterClassify(p) == IF pc[p] \in {"classify", "create", "link"} THEN "draft" ELSE "idle"

\* classify_reply: context and intent are stored on the row.
Classify(p) ==
  LET r == at[p] IN
  /\ pc[p] \in {"classify", "reclassify"}
  /\ \E i \in {"lead", "other"} :
       /\ intent' = [intent EXCEPT ![r] = i]
       /\ Goto(p, IF i \notin Leads THEN AfterClassify(p)
                  ELSE IF pc[p] = "classify" THEN "create" ELSE "recreate")
  /\ Sound /\ UNCHANGED <<status, proposed, attempts, linked, opps, ghosts>>

\* create_dm_opportunity: refused without a request for a reply without a
\* username, which is then not linked; else an insert that a unique key over
\* author and post makes idempotent.
Create(p) ==
  LET r == at[p] IN
  /\ pc[p] \in {"create", "recreate"}
  /\ \/ r \in nameless /\ Goto(p, AfterClassify(p)) /\ UNCHANGED opps
     \/ /\ r \notin nameless
        /\ opps' = opps \cup {r}
        /\ Goto(p, IF pc[p] = "create" THEN "link" ELSE "relink")
  /\ Sound /\ UNCHANGED <<status, proposed, attempts, intent, linked, ghosts>>

\* link_reply_to_dm_opportunity.
Link(p) ==
  /\ pc[p] \in {"link", "relink"}
  /\ linked' = linked \cup {at[p]}
  /\ Goto(p, AfterClassify(p))
  /\ Sound /\ UNCHANGED <<status, proposed, attempts, intent, opps, ghosts>>

\* A request of the classification fails; it may have been carried out.
ClassifyFails(p) ==
  LET r == at[p] IN
  /\ pc[p] \in {"classify", "reclassify", "create", "recreate", "link", "relink"}
  /\ \/ UNCHANGED <<intent, linked, opps>>
     \/ /\ pc[p] \in {"classify", "reclassify"}
        /\ \E i \in {"lead", "other"} : intent' = [intent EXCEPT ![r] = i]
        /\ UNCHANGED <<linked, opps>>
     \/ /\ pc[p] \in {"create", "recreate"} /\ r \notin nameless
        /\ opps' = opps \cup {r} /\ UNCHANGED <<intent, linked>>
     \/ pc[p] \in {"link", "relink"} /\ linked' = linked \cup {r} /\ UNCHANGED <<intent, opps>>
  /\ Goto(p, AfterClassify(p))
  /\ Fault("store") /\ UNCHANGED <<status, proposed, attempts, ghosts>>

\* Mutant: a row that waits for a decision is proposed again.
ProposableAgain(r) == In(r, {"discovered", "pending_approval"})

Proposable(r) == In(r, {"discovered"})

\* generate_reply_draft, then the swap; the card is part of the command's output.
Propose(p) ==
  LET r == at[p] IN
  /\ pc[p] = "draft"
  /\ \/ /\ Proposable(r)
        /\ Move(r, "pending_approval")
        /\ \E t \in Answers : proposed' = [proposed EXCEPT ![r] = t]
        /\ Goto(p, "card")
     \/ ~Proposable(r) /\ Goto(p, "idle") /\ UNCHANGED <<status, proposed>>
  /\ Sound /\ UNCHANGED <<attempts, intent, linked, opps, ghosts>>

\* No draft, or the swap fails or loses its answer: the row is in no output.
ProposeFails(p) ==
  LET r == at[p] IN
  /\ pc[p] = "draft"
  /\ \/ /\ Proposable(r)
        /\ Move(r, "pending_approval")
        /\ \E t \in Answers : proposed' = [proposed EXCEPT ![r] = t]
        /\ cardless' = cardless \cup {r}
     \/ UNCHANGED <<status, proposed, cardless>>
  /\ Goto(p, "idle")
  /\ Fault("store")
  /\ UNCHANGED <<attempts, intent, linked, opps, cards, sent, tries, unsure, lastDraft, orphans, stale>>

\* send_card of the watchdog, when the scan has ended: an error is only logged.
SendCard(p) ==
  LET r == at[p] IN
  /\ pc[p] = "card"
  /\ \/ cards' = [cards EXCEPT ![r] = @ + 1] /\ Sound /\ UNCHANGED cardless
     \/ Fault("card") /\ cardless' = cardless \cup {r} /\ UNCHANGED cards
  /\ Goto(p, "idle")
  /\ UNCHANGED <<rowVars, sent, tries, unsure, lastDraft, orphans, stale>>

-----------------------------------------------------------------------------
(***************************************************************************)
(* A person's taps, each one swap.                                         *)
(***************************************************************************)

\* The swap takes a discovered row as well, but the table wants a proposed text
\* on every row that is not discovered.
Open(r) == In(r, {"discovered", "pending_approval"}) /\ proposed[r] # NoAnswer

Decide(r) ==
  /\ Open(r)
  /\ \E to \in {"approved", "rejected", "ignored"} :
       /\ Move(r, to)
       /\ lastDraft' = IF to = "approved" THEN [lastDraft EXCEPT ![r] = proposed[r]] ELSE lastDraft
  /\ Sound
  /\ UNCHANGED <<proposed, attempts, intent, linked, opps, workVars, cards, sent, tries, unsure,
                 orphans, cardless, stale>>

\* Mutant: an approved answer can still be edited.
EditableApproved(r) == In(r, {"pending_approval", "approved"})

Editable(r) == In(r, {"pending_approval"})

Edit(r, t) ==
  /\ Editable(r)
  /\ proposed' = [proposed EXCEPT ![r] = t]
  /\ Sound /\ UNCHANGED <<status, attempts, intent, linked, opps, workVars, ghosts>>

-----------------------------------------------------------------------------
(***************************************************************************)
(* Publication: claim, publish, record.                                    *)
(***************************************************************************)

\* Mutant: a row that failed once is not tried again.
BeginPublishFresh(p, r) ==
  /\ pc[p] = "idle" /\ In(r, {"approved"}) /\ attempts[r] = 0
  /\ pc' = [pc EXCEPT ![p] = "claim"] /\ at' = [at EXCEPT ![p] = r]
  /\ Sound /\ UNCHANGED <<rowVars, count, again, ghosts>>

\* list_own_replies: the row is read with its attempt count.
BeginPublish(p, r) ==
  /\ pc[p] = "idle" /\ In(r, {"approved"})
  /\ pc' = [pc EXCEPT ![p] = "claim"]
  /\ at' = [at EXCEPT ![p] = r]
  /\ count' = [count EXCEPT ![p] = attempts[r]]
  /\ Sound /\ UNCHANGED <<rowVars, again, ghosts>>

\* Mutant: a row in posting is taken over.
ClaimablePosting(r) == In(r, {"approved", "posting"})

Claimable(r) == In(r, {"approved"})

Claim(p) ==
  LET r == at[p] IN
  /\ pc[p] = "claim"
  /\ \/ /\ Claimable(r)
        /\ Move(r, "posting")
        /\ attempts' = [attempts EXCEPT ![r] = count[p] + 1]
        /\ count' = [count EXCEPT ![p] = @ + 1]
        /\ pc' = [pc EXCEPT ![p] = "publish"] /\ UNCHANGED <<at, again>>
        /\ stale' = IF attempts[r] # count[p] THEN stale \cup {r} ELSE stale
     \/ ~Claimable(r) /\ Goto(p, "idle") /\ UNCHANGED <<status, attempts, stale>>
  /\ Sound
  /\ UNCHANGED <<proposed, intent, linked, opps, cards, sent, tries, unsure, lastDraft,
                 orphans, cardless>>

\* The claim is carried out but its answer is lost: the command ends.
ClaimLost(p) ==
  LET r == at[p] IN
  /\ pc[p] = "claim" /\ Claimable(r)
  /\ Move(r, "posting")
  /\ attempts' = [attempts EXCEPT ![r] = count[p] + 1]
  /\ stale' = IF attempts[r] # count[p] THEN stale \cup {r} ELSE stale
  /\ orphans' = orphans \cup {r}
  /\ Goto(p, "idle")
  /\ Fault("store")
  /\ UNCHANGED <<proposed, intent, linked, opps, cards, sent, tries, unsure, lastDraft, cardless>>

\* publish_text with the claimed row's text.
Publish(p) ==
  LET r == at[p] IN
  /\ pc[p] = "publish"
  /\ sent' = [sent EXCEPT ![r] = @ + 1]
  /\ tries' = [tries EXCEPT ![r] = @ + 1]
  /\ Goto(p, "record")
  /\ Sound /\ UNCHANGED <<rowVars, cards, unsure, lastDraft, orphans, cardless, stale>>

\* publish_text raises.  The answer may be on Threads all the same; whether the
\* error counts as transient is decided by words in its text.
PublishFails(p) ==
  LET r == at[p] IN
  /\ pc[p] = "publish"
  /\ tries' = [tries EXCEPT ![r] = @ + 1]
  /\ \/ /\ sent' = [sent EXCEPT ![r] = @ + 1]
        /\ unsure' = [unsure EXCEPT ![r] = @ + 1]
     \/ UNCHANGED <<sent, unsure>>
  /\ \E b \in BOOLEAN : again' = [again EXCEPT ![p] = b]
  /\ pc' = [pc EXCEPT ![p] = "giveUp"] /\ UNCHANGED <<at, count>>
  /\ Fault("api") /\ UNCHANGED <<rowVars, cards, lastDraft, orphans, cardless, stale>>

\* Mutant: the posted write is forgotten.
RecordNothing(p) ==
  /\ pc[p] = "record"
  /\ Goto(p, "idle")
  /\ Sound /\ UNCHANGED <<rowVars, ghosts>>

Record(p) ==
  LET r == at[p] IN
  /\ pc[p] = "record"
  /\ IF In(r, {"posting"}) THEN Move(r, "posted") ELSE UNCHANGED status
  /\ Goto(p, "idle")
  /\ Sound /\ UNCHANGED <<proposed, attempts, intent, linked, opps, ghosts>>

\* The same handler catches an error of the posted write.
RecordFails(p) ==
  LET r == at[p] IN
  /\ pc[p] = "record"
  /\ \/ IF In(r, {"posting"}) THEN Move(r, "posted") ELSE UNCHANGED status
     \/ UNCHANGED status
  /\ unsure' = [unsure EXCEPT ![r] = @ + 1]
  /\ \E b \in BOOLEAN : again' = [again EXCEPT ![p] = b]
  /\ pc' = [pc EXCEPT ![p] = "giveUp"] /\ UNCHANGED <<at, count>>
  /\ Fault("store")
  /\ UNCHANGED <<proposed, attempts, intent, linked, opps, cards, sent, tries, lastDraft, orphans,
                 cardless, stale>>

\* Mutant: one attempt too many.
RetriesOneMore(p) == again[p] /\ count[p] <= MaxAttempts

\* is_transient_error and MAX_REPLY_ATTEMPTS.
Retries(p) == again[p] /\ count[p] < MaxAttempts

GiveBackable(r) == In(r, {"posting"})

GiveUp(p) ==
  LET r == at[p] IN
  /\ pc[p] = "giveUp"
  /\ IF GiveBackable(r) THEN Move(r, IF Retries(p) THEN "approved" ELSE "failed")
                        ELSE UNCHANGED status
  /\ Goto(p, "idle")
  /\ Sound /\ UNCHANGED <<proposed, attempts, intent, linked, opps, ghosts>>

HeldSteps == {"publish", "record", "giveUp"}

\* A command raises out of its loop or is killed: the watchdog's calls time out.
Crash(p) ==
  LET r == at[p] IN
  /\ pc[p] # "idle"
  /\ orphans' = IF pc[p] \in HeldSteps THEN orphans \cup {r} ELSE orphans
  /\ cardless' = IF pc[p] = "card" THEN cardless \cup {r} ELSE cardless
  /\ Goto(p, "idle")
  /\ Fault("crash") /\ UNCHANGED <<rowVars, cards, sent, tries, unsure, lastDraft, stale>>

-----------------------------------------------------------------------------

ScanStep(p) ==
  \/ Classify(p) \/ Create(p) \/ Link(p) \/ ClassifyFails(p)
  \/ Propose(p) \/ ProposeFails(p) \/ SendCard(p)
PublishStep(p) ==
  \/ Claim(p) \/ ClaimLost(p) \/ Publish(p) \/ PublishFails(p) \/ Record(p) \/ RecordFails(p) \/ GiveUp(p)

Next ==
  \/ \E r \in Replies : Discover(r) \/ Unlist(r) \/ Decide(r) \/ \E t \in Answers : Edit(r, t)
  \/ \E p \in Scans : ScanStep(p) \/ \E r \in Replies : BeginScan(p, r) \/ BeginBackfill(p, r)
  \/ \E p \in Publishers : PublishStep(p) \/ \E r \in Replies : BeginPublish(p, r)
  \/ \E p \in Workers : Crash(p)

Spec == Init /\ [][Next]_ownVars

\* The watchdog scans and publishes every five minutes: a scan drafts the rows that
\* are discovered and then classifies the pending ones, a publisher takes the
\* approved ones, and their commands take their steps.
WatchdogFairness ==
  /\ \A p \in Scans : WF_ownVars(ScanStep(p))
  /\ \A p \in Publishers : WF_ownVars(PublishStep(p))
  /\ \A r \in Replies :
       /\ SF_ownVars(\E p \in Scans : BeginScan(p, r) \/ BeginBackfill(p, r))
       /\ SF_ownVars(\E p \in Publishers : BeginPublish(p, r))

FairSpec == Spec /\ WatchdogFairness

-----------------------------------------------------------------------------
(***************************************************************************)
(* Correctness.                                                            *)
(***************************************************************************)

Steps == {"idle", "classify", "create", "link", "reclassify", "recreate", "relink", "draft",
          "card", "claim"} \cup HeldSteps

\* The type of every variable; the statuses are those of the table.
TypeOK ==
  /\ status \in [Replies -> ReplyStatuses]
  /\ proposed \in [Replies -> Answers \cup {NoAnswer}]
  /\ attempts \in [Replies -> Nat]
  /\ intent \in [Replies -> {"none", "lead", "other"}]
  /\ linked \subseteq Replies /\ opps \subseteq Replies
  /\ pc \in [Workers -> Steps] /\ at \in [Workers -> Replies]
  /\ count \in [Workers -> Nat] /\ again \in [Workers -> BOOLEAN]
  /\ nameless \subseteq Replies
  /\ gone \subseteq Replies /\ faults \in Nat
  /\ cards \in [Replies -> Nat] /\ sent \in [Replies -> Nat]
  /\ tries \in [Replies -> Nat] /\ unsure \in [Replies -> Nat]
  /\ lastDraft \in [Replies -> Answers \cup {NoAnswer}]
  /\ orphans \subseteq Replies /\ cardless \subseteq Replies /\ stale \subseteq Replies

\* A row in posting is held by the publisher that claimed it, unless that was
\* killed: nothing else would ever take it out of there.
PostingHeld ==
  \A r \in Replies :
    status[r] = "posting" =>
      r \in orphans \/ \E p \in Publishers : at[p] = r /\ pc[p] \in HeldSteps

\* However many publishers overlap, a reply gets at most one answer more than
\* there were requests to publish or to record whose outcome was not known, and
\* that one stands on its row, unless its publisher is still at it or was killed.
AnswersAccounted ==
  \A r \in Replies :
    \/ sent[r] <= unsure[r]
    \/ /\ sent[r] = unsure[r] + 1
       /\ \/ status[r] = "posted" \/ r \in orphans
          \/ \E p \in Publishers : at[p] = r /\ pc[p] = "record"

\* What is published is the text that was approved: it stays as it was from the
\* approval on.
ApprovedTextKept ==
  \A r \in Replies :
    status[r] \in {"approved", "posting", "posted", "failed"} => proposed[r] = lastDraft[r]

\* A reply is answered at most MaxAttempts times, unless a publisher wrote an
\* attempt count over one that another had raised since it was read.
AttemptsBounded == \A r \in Replies : tries[r] <= MaxAttempts \/ r \in stale

\* Overlapping scans deliver one card for a reply; a row that waits for a decision
\* has had it, or its card is about to be sent or was lost.
OneCard ==
  \A r \in Replies :
    /\ cards[r] + (IF r \in cardless THEN 1 ELSE 0) <= 1
    /\ status[r] = "pending_approval" =>
         \/ cards[r] > 0 \/ r \in cardless
         \/ \E p \in Scans : at[p] = r /\ pc[p] = "card"

\* A discovered reply is put to the person, and a lead among them is linked to its
\* DM opportunity before it is decided, however the first classification went:
\* unless newer replies pushed it out of the lists, or, for the opportunity, its
\* author has no name.
LeadNoticed ==
  \A r \in Replies :
    /\ []<>(status[r] # "discovered" \/ r \in gone)
    /\ []<>(\/ status[r] # "pending_approval" \/ r \in gone
            \/ intent[r] = "other" \/ r \in nameless
            \/ r \in linked /\ r \in opps)

\* What was approved is answered or failed, unless its publisher was killed.
ApprovedResolves ==
  \A r \in Replies : status[r] = "approved" ~> status[r] \in {"posted", "failed"} \/ r \in orphans

\* docs/two-engagement-workflows.md: API errors never cause duplicate replies.
AnsweredOnce == \A r \in Replies : sent[r] <= 1
=============================================================================
