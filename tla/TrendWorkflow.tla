----------------------------- MODULE TrendWorkflow -----------------------------
(***************************************************************************)
(* Workflow A: a trend candidate becomes a draft, an approval card, a      *)
(* decision and at last a row of the publish queue.                        *)
(*                                                                         *)
(* Every command is a process of its own: the drafting passes of the       *)
(* watchdog, and the commands behind the buttons.  An action is one        *)
(* request to the store (or one Telegram card) with the Python up to the   *)
(* next one.  Status changes are mostly compare-and-swap; the writes of a  *)
(* draft, of `skipped` and of `queued` are not, and act on a row that may  *)
(* have changed since the command read it.                                 *)
(***************************************************************************)
EXTENDS Naturals, FiniteSets, Functions

CONSTANTS
  Cands,       (* trend candidates                                           *)
  Texts,       (* post texts                                                 *)
  NoText,
  Rows,        (* bound: ids of publish-queue rows                           *)
  Passes,      (* drafting passes that can overlap                           *)
  Taps,        (* commands behind buttons that can overlap                   *)
  Found,       (* discovered_at of each candidate                            *)
  DraftLimit,  (* candidates a drafting pass takes                           *)
  Origins,     (* how candidates come to be: "new", "unstamped", "linked"    *)
  UpsetKinds,  (* kinds of failure considered: "crash", "card"               *)
  MaxUpsets    (* bound on failures                                          *)

ASSUME CandsAssumption == Cands # {}
ASSUME RowsAssumption == Rows \subseteq Nat \ {0}
ASSUME TrendTextsAssumption == NoText \notin Texts
ASSUME ProcessesAssumption == Passes \cap Taps = {}
ASSUME TrendUpsetsAssumption == MaxUpsets \in Nat
ASSUME FoundAssumption == Found \in Injection(Cands, Nat)
ASSUME DraftLimitAssumption == DraftLimit \in Nat \ {0}

VARIABLES
  cand,      (* the rows: status, draft text, approval_sent_at, used_in_queue_id *)
  queue,     (* publish-queue rows: the candidate, the text, the status      *)
  pc,        (* what a command does next                                     *)
  at,        (* the candidate it works on                                    *)
  saw,       (* the row as the command read it                               *)
  text,      (* the text it holds                                            *)
  upsets,    (* failures so far                                              *)
  (* History, read by the properties only. *)
  origin,    (* how a candidate came to be                                   *)
  shown,     (* texts a person has seen, on a card, in a preview or typed    *)
  cards,     (* approval cards delivered                                     *)
  lost,      (* ... whose answer was lost                                    *)
  orphans,   (* candidates whose card claim died with its command            *)
  granted,   (* candidates a person approved                                 *)
  refused,   (* candidates a person rejected, skipped or discarded           *)
  outdated,  (* candidates written by a command whose reading was outdated   *)
  twins      (* candidates with overlapping or killed scheduling commands    *)

commands == <<pc, at, saw, text>>
cardHistory == <<cards, lost, orphans>>
history == <<origin, shown, cardHistory, granted, refused, outdated, twins>>
trendVars == <<cand, queue, commands, upsets, history>>


Commands == Passes \cup Taps

Closed == {"rejected", "skipped", "discarded"}
TrendStatuses ==
  {"absent", "discovered", "drafted", "pending_approval", "backlog", "approved", "queued"}
    \cup Closed
RowStatuses == {"absent", "draft", "approved", "posted", "failed"}

NoCand == [status |-> "absent", draft |-> NoText, stamp |-> FALSE, link |-> 0]
NoRow == [cand |-> CHOOSE c \in Cands : TRUE, text |-> NoText, status |-> "absent"]

Init ==
  /\ cand = [c \in Cands |-> NoCand]
  /\ queue = [q \in Rows |-> NoRow]
  /\ pc = [p \in Commands |-> "idle"]
  /\ at = [p \in Commands |-> CHOOSE c \in Cands : TRUE]
  /\ saw = [p \in Commands |-> NoCand]
  /\ text = [p \in Commands |-> NoText]
  /\ upsets = 0
  /\ origin = [c \in Cands |-> "new"]
  /\ shown = [c \in Cands |-> {}]
  /\ cards = [c \in Cands |-> 0]
  /\ lost = [c \in Cands |-> 0]
  /\ orphans = {} /\ granted = {} /\ refused = {} /\ outdated = {} /\ twins = {}

Upset(kind) == kind \in UpsetKinds /\ upsets < MaxUpsets /\ upsets' = upsets + 1
Calm == UNCHANGED upsets

-----------------------------------------------------------------------------
(***************************************************************************)
(* What the handlers are made of.                                          *)
(***************************************************************************)

\* transition_trend_candidate: PATCH ... WHERE status in `from`, or no row.
Matches(c, from) == cand[c].status \in from
\* update_trend_candidate_workflow_a: PATCH ... WHERE id, whatever the status.
Patch(c, row) == cand' = [cand EXCEPT ![c] = row]

Goto(p, step) == pc' = [pc EXCEPT ![p] = step] /\ UNCHANGED <<at, saw, text>>
Leave(p) ==
  /\ pc' = [pc EXCEPT ![p] = "idle"]
  /\ saw' = [saw EXCEPT ![p] = NoCand]
  /\ text' = [text EXCEPT ![p] = NoText]
  /\ UNCHANGED at

\* get_trend_candidate or a line of list_trend_candidates, and what follows.
Start(p, c, step, t) ==
  /\ pc[p] = "idle"
  /\ pc' = [pc EXCEPT ![p] = step]
  /\ at' = [at EXCEPT ![p] = c]
  /\ saw' = [saw EXCEPT ![p] = cand[c]]
  /\ text' = [text EXCEPT ![p] = t]

\* generate_original_draft, refresh_original_draft: a text within the length
\* limit; one that stays too long raises, as in Crash.
ModelTexts == Texts

\* trend_candidate_payload without its status: the draft replaces workflow_a.
Staged(row, t) == [row EXCEPT !.draft = t]
\* card_text: the card shows the draft the command holds.
CardText(p) == text[p]

\* History: a person sees a text; a command writes to a row that it read as it
\* no longer is.
See(c, t) == shown' = [shown EXCEPT ![c] = @ \cup ({t} \cap Texts)]
Outdated(p) ==
  \/ cand[at[p]].status # saw[p].status
  \/ cand[at[p]].draft # saw[p].draft
NoteOutdated(p) == outdated' = IF Outdated(p) THEN outdated \cup {at[p]} ELSE outdated

-----------------------------------------------------------------------------
(***************************************************************************)
(* Candidates arrive.                                                      *)
(***************************************************************************)

\* insert_trend_candidate: one row per (account, permalink); a second insert
\* finds the row or meets the unique constraint and finds it then.
Insert(c) ==
  /\ "new" \in Origins
  /\ cand[c].status = "absent"
  /\ Patch(c, [NoCand EXCEPT !.status = "discovered"])
  /\ Calm /\ UNCHANGED <<queue, commands, history>>

\* Rows from before approval_sent_at: waiting, and no card known to be sent.
InsertUnstamped(c) ==
  /\ "unstamped" \in Origins
  /\ cand[c].status = "absent"
  /\ \E t \in Texts : Patch(c, [NoCand EXCEPT !.status = "pending_approval", !.draft = t])
  /\ origin' = [origin EXCEPT ![c] = "unstamped"]
  /\ Calm /\ UNCHANGED <<queue, commands, shown, cardHistory, granted, refused, outdated, twins>>

NextRow(q) == queue[q].status = "absent" /\ \A r \in Rows : r < q => queue[r].status # "absent"

\* Rows from the older enqueue path: approved, with a draft row of the queue.
InsertLinked(c, q) ==
  /\ "linked" \in Origins
  /\ cand[c].status = "absent" /\ NextRow(q)
  /\ \E t \in Texts :
       /\ Patch(c, [NoCand EXCEPT !.status = "approved", !.draft = t, !.link = q])
       /\ queue' = [queue EXCEPT ![q] = [cand |-> c, text |-> t, status |-> "draft"]]
       /\ See(c, t)
  /\ origin' = [origin EXCEPT ![c] = "linked"]
  /\ granted' = granted \cup {c}
  /\ Calm /\ UNCHANGED <<commands, cardHistory, refused, outdated, twins>>

-----------------------------------------------------------------------------
(***************************************************************************)
(* The drafting pass: score, draft, claim the card, send it, promote.      *)
(***************************************************************************)

\* Mutant: a draft that was saved counts as delivered.
BeginDraftOnce(p, c) ==
  /\ Matches(c, {"discovered"})
  /\ Start(p, c, "compose", NoText)
  /\ Calm /\ UNCHANGED <<cand, queue, history>>

BeginDraft(p, c) ==
  /\ Matches(c, {"discovered", "drafted"})
  /\ Start(p, c, "compose", NoText)
  /\ Calm /\ UNCHANGED <<cand, queue, history>>

\* The verdict is "not relevant": a row read as discovered is closed.
Irrelevant(p) ==
  LET c == at[p] IN
  /\ pc[p] = "compose"
  /\ \/ /\ saw[p].status = "discovered"
        /\ Patch(c, [cand[c] EXCEPT !.status = "skipped"])
        /\ NoteOutdated(p)
     \/ saw[p].status = "drafted" /\ UNCHANGED <<cand, outdated>>
  /\ Leave(p)
  /\ Calm /\ UNCHANGED <<queue, origin, shown, cardHistory, granted, refused, twins>>

\* The draft is saved: by compare-and-swap on a row read as discovered, and
\* without a condition on a row read as drafted.
Stage(p) ==
  LET c == at[p] IN
  /\ pc[p] = "compose"
  /\ \/ /\ saw[p].status = "drafted" \/ Matches(c, {"discovered"})
        /\ \E t \in ModelTexts :
             /\ Patch(c, [Staged(cand[c], t) EXCEPT
                          !.status = IF saw[p].status = "discovered" THEN "drafted" ELSE @])
             /\ text' = [text EXCEPT ![p] = t]
        /\ pc' = [pc EXCEPT ![p] = "claim"] /\ UNCHANGED <<at, saw>>
        /\ NoteOutdated(p)
     \/ /\ saw[p].status = "discovered" /\ ~Matches(c, {"discovered"})
        /\ Leave(p) /\ UNCHANGED <<cand, outdated>>
  /\ Calm /\ UNCHANGED <<queue, origin, shown, cardHistory, granted, refused, twins>>

\* telegram-send on a waiting row.  Its check of approval_sent_at reads a column
\* that the query does not select, so only the claim keeps cards apart.
BeginResend(p, c) ==
  /\ Matches(c, {"pending_approval"})
  /\ Start(p, c, "reclaim", cand[c].draft)
  /\ Calm /\ UNCHANGED <<cand, queue, history>>

\* Mutant: the claim does not look at the stamp.
ClaimableStamped(c) == Matches(c, {"pending_approval", "drafted"})

Claimable(c) == Matches(c, {"pending_approval", "drafted"}) /\ ~cand[c].stamp

\* mark_trend_candidate_approval_sent.
Claim(p) ==
  LET c == at[p] IN
  /\ pc[p] \in {"claim", "reclaim"}
  /\ \/ /\ Claimable(c)
        /\ Patch(c, [cand[c] EXCEPT !.stamp = TRUE])
        /\ Goto(p, IF pc[p] = "claim" THEN "send" ELSE "resend")
     \/ ~Claimable(c) /\ Leave(p) /\ UNCHANGED cand
  /\ Calm /\ UNCHANGED <<queue, history>>

SendCard(p) ==
  LET c == at[p] IN
  /\ pc[p] \in {"send", "resend"}
  /\ cards' = [cards EXCEPT ![c] = @ + 1]
  /\ See(c, CardText(p))
  /\ Goto(p, IF pc[p] = "send" THEN "promote" ELSE "refRead")
  /\ Calm /\ UNCHANGED <<cand, queue, origin, lost, orphans, granted, refused, outdated, twins>>

\* The request raises; the card may have been delivered all the same.
CardFails(p) ==
  LET c == at[p] IN
  /\ pc[p] \in {"send", "resend"}
  /\ \/ /\ cards' = [cards EXCEPT ![c] = @ + 1]
        /\ lost' = [lost EXCEPT ![c] = @ + 1]
        /\ See(c, CardText(p))
     \/ UNCHANGED <<cards, lost, shown>>
  /\ Goto(p, "release")
  /\ Upset("card")
  /\ UNCHANGED <<cand, queue, origin, orphans, granted, refused, outdated, twins>>

\* Mutant: the stamp stays after a failed card.
ReleaseKeeps(p) ==
  /\ pc[p] = "release"
  /\ Leave(p)
  /\ Calm /\ UNCHANGED <<cand, queue, history>>

Release(p) ==
  LET c == at[p] IN
  /\ pc[p] = "release"
  /\ Patch(c, [cand[c] EXCEPT !.stamp = FALSE])
  /\ Leave(p)
  /\ Calm /\ UNCHANGED <<queue, history>>

Promote(p) ==
  LET c == at[p] IN
  /\ pc[p] = "promote"
  /\ \/ /\ Matches(c, {"drafted"})
        /\ Patch(c, [cand[c] EXCEPT !.status = "pending_approval", !.stamp = TRUE])
        /\ Goto(p, "refRead")
     \/ ~Matches(c, {"drafted"}) /\ Leave(p) /\ UNCHANGED cand
  /\ Calm /\ UNCHANGED <<queue, history>>

\* _merge_trend_candidate_approval_ref reads raw_metadata, adds the message's
\* reference and writes all of it back: the draft it read comes back with it.
RefRead(p) ==
  LET c == at[p] IN
  /\ pc[p] = "refRead"
  /\ \/ /\ Matches(c, {"pending_approval"})
        /\ saw' = [saw EXCEPT ![p] = cand[c]]
        /\ pc' = [pc EXCEPT ![p] = "refWrite"] /\ UNCHANGED <<at, text>>
     \/ ~Matches(c, {"pending_approval"}) /\ Leave(p)
  /\ Calm /\ UNCHANGED <<cand, queue, history>>

RefWrite(p) ==
  LET c == at[p] IN
  /\ pc[p] = "refWrite"
  /\ \/ /\ Matches(c, {"pending_approval"})
        /\ Patch(c, [cand[c] EXCEPT !.draft = saw[p].draft])
        /\ NoteOutdated(p)
     \/ ~Matches(c, {"pending_approval"}) /\ UNCHANGED <<cand, outdated>>
  /\ Leave(p)
  /\ Calm /\ UNCHANGED <<queue, origin, shown, cardHistory, granted, refused, twins>>

-----------------------------------------------------------------------------
(***************************************************************************)
(* A person's taps on a card and on the content backlog.                   *)
(***************************************************************************)

\* approve: the row is read, then swapped; the answer shows the draft read.
BeginApprove(p, c) ==
  /\ Matches(c, {"pending_approval"}) /\ cand[c].draft # NoText
  /\ Start(p, c, "approve", NoText)
  /\ Calm /\ UNCHANGED <<cand, queue, history>>

\* use: an unused backlog row is read, then swapped; the answer shows its draft.
BeginUse(p, c) ==
  /\ Matches(c, {"backlog"}) /\ cand[c].link = 0 /\ cand[c].draft # NoText
  /\ Start(p, c, "use", NoText)
  /\ Calm /\ UNCHANGED <<cand, queue, history>>

\* Mutant: a row that was skipped meanwhile is approved as well.
SwappableClosed(p, c) ==
  Matches(c, {"skipped", IF pc[p] = "approve" THEN "pending_approval" ELSE "backlog"})

Swappable(p, c) == Matches(c, {IF pc[p] = "approve" THEN "pending_approval" ELSE "backlog"})

SaveDecision(p) ==
  LET c == at[p] IN
  /\ pc[p] \in {"approve", "use"}
  /\ \/ /\ Swappable(p, c)
        /\ Patch(c, [cand[c] EXCEPT !.status = "approved"])
        /\ granted' = granted \cup {c}
        /\ See(c, saw[p].draft)
        /\ NoteOutdated(p)
     \/ ~Swappable(p, c) /\ UNCHANGED <<cand, granted, shown, outdated>>
  /\ Leave(p)
  /\ Calm /\ UNCHANGED <<queue, origin, cardHistory, refused, twins>>

\* reject and skip on a card, discard on a backlog row.
Refuse(c) ==
  /\ \/ /\ Matches(c, {"pending_approval"})
        /\ \E s \in {"rejected", "skipped"} : Patch(c, [cand[c] EXCEPT !.status = s])
     \/ /\ Matches(c, {"backlog"})
        /\ Patch(c, [cand[c] EXCEPT !.status = "discarded"])
  /\ refused' = refused \cup {c}
  /\ Calm /\ UNCHANGED <<queue, commands, origin, shown, cardHistory, granted, outdated, twins>>

\* edit: the status is read, then the draft written without a condition.
BeginEdit(p, c, t) ==
  /\ Matches(c, {"pending_approval", "backlog"})
  /\ Start(p, c, "edit", t)
  /\ Calm /\ UNCHANGED <<cand, queue, history>>

\* Mutant: an approved row is refreshed as well.
BeginRefreshApproved(p, c) ==
  /\ Matches(c, {"backlog", "approved"})
  /\ \E t \in Texts : Start(p, c, "refresh", t)
  /\ Calm /\ UNCHANGED <<cand, queue, history>>

\* refresh: a backlog row is read, the model writes another text, and that is
\* written without a condition.  The answer does not show the text.
BeginRefresh(p, c) ==
  /\ Matches(c, {"backlog"})
  /\ \E t \in ModelTexts : Start(p, c, "refresh", t)
  /\ Calm /\ UNCHANGED <<cand, queue, history>>

SaveDraft(p) ==
  LET c == at[p] IN
  /\ pc[p] \in {"edit", "refresh"}
  /\ Patch(c, [cand[c] EXCEPT !.draft = text[p]])
  /\ IF pc[p] = "edit" THEN See(c, text[p]) ELSE UNCHANGED shown
  /\ NoteOutdated(p)
  /\ Leave(p)
  /\ Calm /\ UNCHANGED <<queue, origin, cardHistory, granted, refused, twins>>

\* Enrichment and provenance merge their facts into the raw_metadata they read
\* and write all of it back.
BeginRaw(p, c) ==
  /\ cand[c].status # "absent"
  /\ Start(p, c, "rawWrite", NoText)
  /\ Calm /\ UNCHANGED <<cand, queue, history>>

RawWrite(p) ==
  LET c == at[p] IN
  /\ pc[p] = "rawWrite"
  /\ Patch(c, [cand[c] EXCEPT !.draft = saw[p].draft])
  /\ NoteOutdated(p)
  /\ Leave(p)
  /\ Calm /\ UNCHANGED <<queue, origin, shown, cardHistory, granted, refused, twins>>

\* Mutant: the swap to backlog is not conditioned on the status.
TimeOutAny(c) ==
  /\ ~Matches(c, {"absent", "backlog"}) /\ cand[c].stamp
  /\ Patch(c, [cand[c] EXCEPT !.status = "backlog"])
  /\ Calm /\ UNCHANGED <<queue, commands, history>>

\* find_stale_pending_approvals: the stamp is 24 hours old; a row without one
\* never is.
Stale(c) == Matches(c, {"pending_approval"}) /\ cand[c].stamp
\* transition_trend_candidate_backlog, for every row the query returned.
MoveToBacklog(c) == Patch(c, [cand[c] EXCEPT !.status = "backlog"])

TimeOut(c) ==
  /\ Stale(c) /\ MoveToBacklog(c)
  /\ Calm /\ UNCHANGED <<queue, commands, history>>

\* list_trend_backlog: the rows of the backlog that were never scheduled.
Listed(c) == Matches(c, {"backlog"}) /\ cand[c].link = 0

\* backlog: a person reads the drafts of the list.
ShowBacklog(c) ==
  /\ Listed(c)
  /\ See(c, cand[c].draft)
  /\ Calm /\ UNCHANGED <<cand, queue, commands, origin, cardHistory, granted, refused, outdated, twins>>

-----------------------------------------------------------------------------
(***************************************************************************)
(* Scheduling: an approved queue row, then the candidate is queued.        *)
(***************************************************************************)

SchedulingSteps == {"promoteRow", "fetchRow", "insertRow", "finalize", "cancelRow"}
BeingScheduled(c) == \E p \in Commands : at[p] = c /\ pc[p] \in SchedulingSteps
NoteTwin(c) == twins' = IF BeingScheduled(c) THEN twins \cup {c} ELSE twins

\* Mutant: a row that is already queued is scheduled again.
SchedulableAgain(c) == Matches(c, {"approved", "queued"}) /\ cand[c].draft # NoText

\* _load_schedulable_candidate.
Schedulable(c) == Matches(c, {"approved"}) /\ cand[c].draft # NoText

\* schedule-best, schedule-now and schedule-time differ in the time they give.
BeginSchedule(p, c) ==
  /\ Schedulable(c)
  /\ Start(p, c, IF cand[c].link # 0 THEN "promoteRow" ELSE "insertRow", NoText)
  /\ NoteTwin(c)
  /\ Calm /\ UNCHANGED <<cand, queue, origin, shown, cardHistory, granted, refused, outdated>>

SetRow(q, s) == queue' = [queue EXCEPT ![q].status = s]

\* promote_draft_to_approved: PATCH ... WHERE status = draft.
PromoteRow(p) ==
  LET q == saw[p].link IN
  /\ pc[p] = "promoteRow"
  /\ \/ queue[q].status = "draft" /\ SetRow(q, "approved") /\ Goto(p, "finalize")
     \/ queue[q].status # "draft" /\ Goto(p, "fetchRow") /\ UNCHANGED queue
  /\ Calm /\ UNCHANGED <<cand, history>>

Reusable(q) == queue[q].status = "approved"

\* An approved row only gets its new time; another one is replaced.
FetchRow(p) ==
  /\ pc[p] = "fetchRow"
  /\ Goto(p, IF Reusable(saw[p].link) THEN "finalize" ELSE "insertRow")
  /\ Calm /\ UNCHANGED <<cand, queue, history>>

\* enqueue_approved.
InsertRow(p, q) ==
  /\ pc[p] = "insertRow" /\ NextRow(q)
  /\ queue' = [queue EXCEPT ![q] =
                 [cand |-> at[p], text |-> saw[p].draft, status |-> "approved"]]
  /\ saw' = [saw EXCEPT ![p].link = q]
  /\ pc' = [pc EXCEPT ![p] = "finalize"]
  /\ Calm /\ UNCHANGED <<cand, at, text, history>>

\* _finalize_scheduled_candidate, without a condition.
Finalize(p) ==
  LET c == at[p] IN
  /\ pc[p] = "finalize"
  /\ Patch(c, [cand[c] EXCEPT !.status = "queued", !.link = saw[p].link])
  /\ NoteOutdated(p)
  /\ Leave(p)
  /\ Calm /\ UNCHANGED <<queue, origin, shown, cardHistory, granted, refused, twins>>

\* schedule-cancel: a draft row left by the older path is read, then failed
\* without a condition.  The candidate stays as it is.
BeginCancel(p, c) ==
  LET q == cand[c].link IN
  /\ cand[c].status # "queued" /\ q # 0 /\ queue[q].status = "draft"
  /\ Start(p, c, "cancelRow", NoText)
  /\ NoteTwin(c)
  /\ Calm /\ UNCHANGED <<cand, queue, origin, shown, cardHistory, granted, refused, outdated>>

CancelRow(p) ==
  /\ pc[p] = "cancelRow"
  /\ SetRow(saw[p].link, "failed")
  /\ Leave(p)
  /\ Calm /\ UNCHANGED <<cand, history>>

\* The publisher; PublishQueue has its detail.
Publish(q) ==
  /\ queue[q].status = "approved"
  /\ \E s \in {"posted", "failed"} : SetRow(q, s)
  /\ Calm /\ UNCHANGED <<cand, commands, history>>

\* A command raises or is killed (the dispatcher and the watchdog kill one that
\* takes too long).  A write whose answer is lost looks the same: it landed, and
\* the rest did not happen.
Crash(p) ==
  LET c == at[p] IN
  /\ pc[p] # "idle"
  /\ orphans' = IF pc[p] \in {"send", "resend", "promote", "release"}
                  THEN orphans \cup {c} ELSE orphans
  /\ twins' = IF pc[p] \in SchedulingSteps THEN twins \cup {c} ELSE twins
  /\ Leave(p)
  /\ Upset("crash")
  /\ UNCHANGED <<cand, queue, origin, shown, cards, lost, granted, refused, outdated>>

-----------------------------------------------------------------------------

PassStep(p) ==
  \/ Irrelevant(p) \/ Stage(p) \/ Claim(p) \/ SendCard(p) \/ CardFails(p)
  \/ Release(p) \/ Promote(p) \/ RefRead(p) \/ RefWrite(p)
TapStep(p) ==
  \/ SaveDecision(p) \/ SaveDraft(p) \/ RawWrite(p)
  \/ PromoteRow(p) \/ FetchRow(p) \/ (\E q \in Rows : InsertRow(p, q)) \/ Finalize(p)
  \/ CancelRow(p)
BeginTap(p, c) ==
  \/ BeginApprove(p, c) \/ BeginUse(p, c) \/ (\E t \in Texts : BeginEdit(p, c, t))
  \/ BeginRefresh(p, c) \/ BeginRaw(p, c) \/ BeginSchedule(p, c) \/ BeginCancel(p, c)

Next ==
  \/ \E c \in Cands :
       \/ Insert(c) \/ InsertUnstamped(c) \/ (\E q \in Rows : InsertLinked(c, q))
       \/ Refuse(c) \/ TimeOut(c) \/ ShowBacklog(c)
  \/ \E p \in Passes : PassStep(p) \/ \E c \in Cands : BeginDraft(p, c) \/ BeginResend(p, c)
  \/ \E p \in Taps : TapStep(p) \/ \E c \in Cands : BeginTap(p, c)
  \/ \E q \in Rows : Publish(q)
  \/ \E p \in Commands : Crash(p)

Spec == Init /\ [][Next]_trendVars

\* What a pass takes: discovered before drafted, each newest first, cut at the
\* limit.  Its rows leave the list by their status alone.
Waiting(c) == cand[c].status \in {"discovered", "drafted"}
ListedBefore(d, c) ==
  /\ Waiting(d)
  /\ IF cand[d].status = cand[c].status
       THEN Found[d] > Found[c]
       ELSE cand[d].status = "discovered"
InWindow(c) == Waiting(c) /\ Cardinality({d \in Cands : ListedBefore(d, c)}) < DraftLimit

\* The watchdog starts a pass every half hour: a candidate that stays among the
\* first of the list is taken again and again, one behind them may never be.  A
\* command that is not killed takes its steps.
WatchdogFairness ==
  /\ \A p \in Passes : WF_trendVars(PassStep(p))
  /\ \A c \in Cands :
       []<>(~InWindow(c)) \/ SF_trendVars(\E p \in Passes : BeginDraft(p, c))

FairSpec == Spec /\ WatchdogFairness

-----------------------------------------------------------------------------
(***************************************************************************)
(* Correctness.                                                            *)
(***************************************************************************)

CandRows == [status : TrendStatuses, draft : Texts \cup {NoText}, stamp : BOOLEAN,
             link : Rows \cup {0}]

\* The type of every variable: the candidate and queue rows as the migrations
\* declare them, the progress of each command, the history.
TypeOK ==
  /\ cand \in [Cands -> CandRows]
  /\ queue \in [Rows -> [cand : Cands, text : Texts \cup {NoText}, status : RowStatuses]]
  /\ pc \in [Commands -> {"idle", "compose", "claim", "send", "promote", "release",
                          "refRead", "refWrite", "reclaim", "resend", "approve", "use",
                          "edit", "refresh", "rawWrite"} \cup SchedulingSteps]
  /\ at \in [Commands -> Cands]
  /\ saw \in [Commands -> CandRows]
  /\ text \in [Commands -> Texts \cup {NoText}]
  /\ upsets \in Nat
  /\ origin \in [Cands -> {"new", "unstamped", "linked"}]
  /\ shown \in [Cands -> SUBSET Texts]
  /\ cards \in [Cands -> Nat] /\ lost \in [Cands -> Nat]
  /\ orphans \subseteq Cands /\ granted \subseteq Cands /\ refused \subseteq Cands
  /\ outdated \subseteq Cands /\ twins \subseteq Cands

\* Claim before send: a drafted row that carries a stamp is held by a command
\* between its claim and its promotion, unless that command was killed.
ClaimHeld ==
  \A c \in Cands :
    cand[c].status = "drafted" /\ cand[c].stamp =>
      \/ c \in orphans
      \/ \E p \in Passes : at[p] = c /\ pc[p] \in {"send", "release", "promote"}

\* However many passes and legacy resends overlap, a candidate has at most one
\* card more than card requests whose answer was lost.
OneCardUnlessLost == \A c \in Cands : cards[c] <= lost[c] + 1

\* No candidate of today's path waits for a decision, lies in the backlog, is
\* approved or queued before a card of it was delivered.
DecisionAfterCard ==
  \A c \in Cands :
    origin[c] = "new" /\ cand[c].status \in {"pending_approval", "backlog", "approved", "queued"}
      => cards[c] > 0

\* What is scheduled is a text the person has seen, unless a command wrote to or
\* approved the candidate after it had changed since the command read it.
ScheduledWasSeen ==
  \A q \in Rows :
    queue[q].status # "absent" =>
      queue[q].text \in shown[queue[q].cand] \/ queue[q].cand \in outdated

LiveRows(c) == {q \in Rows : queue[q].cand = c /\ queue[q].status \in {"approved", "posted"}}

\* One publish-queue row per candidate, unless two scheduling commands overlapped
\* or one was killed between the row and the candidate.
OneRowUnlessTwins == \A c \in Cands : Cardinality(LiveRows(c)) > 1 => c \in twins

\* A decision excludes the other one for good: what a person refused is never
\* approved, linked or scheduled, and nothing is scheduled without an approval.
DecisionsExclude ==
  /\ granted \cap refused = {}
  /\ \A c \in refused : cand[c].status \in Closed
  /\ \A c \in Cands : cand[c].status \in {"approved", "queued"} => c \in granted
  /\ \A q \in Rows : queue[q].status # "absent" => queue[q].cand \in granted

Edges ==
  {<<"absent", "discovered">>, <<"absent", "pending_approval">>, <<"absent", "approved">>,
   <<"discovered", "drafted">>, <<"discovered", "skipped">>, <<"drafted", "pending_approval">>,
   <<"pending_approval", "approved">>, <<"pending_approval", "rejected">>,
   <<"pending_approval", "skipped">>, <<"pending_approval", "backlog">>,
   <<"backlog", "approved">>, <<"backlog", "discarded">>, <<"approved", "queued">>}

\* The life of a candidate only moves along the documented edges, unless a
\* command wrote a status over a row that had changed since it read it.
LifecycleKept ==
  [][\A c \in Cands :
       cand'[c].status # cand[c].status =>
         <<cand[c].status, cand'[c].status>> \in Edges \/ c \in outdated']_cand

\* A row that never leaves the list: its card claim died with the command, or
\* the model finds its draft irrelevant again and again.
Stuck(c) ==
  \/ <>[](Waiting(c) /\ c \in orphans)
  \/ []<><<\E p \in Passes : at[p] = c /\ Irrelevant(p)>>_trendVars

\* Every candidate gets its card or is closed, unless it is stuck itself or stuck
\* rows fill the whole window: they keep their places, and whatever is listed
\* behind them is never drafted.
Attended ==
  \A c \in Cands :
    \/ []<>(~Waiting(c))
    \/ Stuck(c)
    \/ \E S \in SUBSET (Cands \ {c}) : Cardinality(S) = DraftLimit /\ \A d \in S : Stuck(d)

\* docs/two-engagement-workflows.md: enqueueing is idempotent, duplicates are
\* prevented even under double taps or overlapping workers.
OneRowPerCandidate == \A c \in Cands : Cardinality(LiveRows(c)) <= 1
=============================================================================
