----------------------------- MODULE DmOpportunity -----------------------------
(***************************************************************************)
(* Direct-message opportunities up to their approval: the rows of          *)
(* threads_dm_opportunities, the watchdog passes that draft a message and  *)
(* send its approval card, and the commands that a person's taps start.    *)
(*                                                                         *)
(* Every command is a process of its own.  An action is one request to the *)
(* store (or one Telegram card) with the Python up to the next one; a      *)
(* transition is a compare-and-swap on the row's status.  Nothing is sent  *)
(* to Threads here: DmSend adds the sender.                                *)
(***************************************************************************)
EXTENDS Naturals

CONSTANTS
  Opps,        (* ids of opportunities, in the order of created_at           *)
  Texts,       (* message texts                                              *)
  NoText,
  Watchdogs,   (* approval passes that can overlap                           *)
  Taps,        (* commands started from Telegram that can overlap            *)
  UpsetKinds,  (* kinds of failure considered: "crash", "page"               *)
  MaxUpsets    (* bound on failures                                          *)

ASSUME OppsAssumption == Opps \subseteq Nat /\ Opps # {}
ASSUME TextsAssumption == NoText \notin Texts
ASSUME UpsetsAssumption == MaxUpsets \in Nat

VARIABLES
  opp,     (* the rows: status, draft, approved text, approval_message_ref   *)
  stale,   (* opportunities past their expires_at                            *)
  (* History: texts a person has seen for an opportunity, on a card or typed; *)
  (* the guards read it for whether there is a card to tap.                    *)
  shown,
  crossed, (* opportunities whose card shows another text than their draft: two
              passes drafted at once (history)                               *)
  pc,      (* what a command does next                                       *)
  at,      (* the opportunity it works on                                    *)
  text,    (* the text it holds                                              *)
  upsets   (* failures so far                                                *)

commands == <<pc, at, text>>
approvalVars == <<opp, stale, shown, crossed, commands>>

Commands == Watchdogs \cup Taps

Waiting == {"detected", "drafted", "awaiting_approval"}
Active == Waiting \cup {"approved", "sending"}
Statuses == {"absent", "sent", "rejected", "failed", "expired", "send_uncertain"} \cup Active

NoRow == [status |-> "absent", draft |-> NoText, approved |-> NoText, carded |-> FALSE]

Init ==
  /\ opp = [o \in Opps |-> NoRow]
  /\ stale = {}
  /\ shown = [o \in Opps |-> {}]
  /\ crossed = {}
  /\ pc = [c \in Commands |-> "idle"]
  /\ at = [c \in Commands |-> CHOOSE o \in Opps : TRUE]
  /\ text = [c \in Commands |-> NoText]
  /\ upsets = 0

Upset(kind) == kind \in UpsetKinds /\ upsets < MaxUpsets /\ upsets' = upsets + 1
Calm == UNCHANGED upsets

\* transition_dm_opportunity: PATCH ... WHERE status in `from`, or no row.
Matches(o, from) == opp[o].status \in from
Patch(o, row) == opp' = [opp EXCEPT ![o] = row]

Goto(c, step, t) ==
  /\ pc' = [pc EXCEPT ![c] = step]
  /\ text' = [text EXCEPT ![c] = t]
  /\ UNCHANGED at
Leave(c) == Goto(c, "idle", NoText)
Start(c, o, step, t) ==
  /\ pc[c] = "idle"
  /\ pc' = [pc EXCEPT ![c] = step]
  /\ at' = [at EXCEPT ![c] = o]
  /\ text' = [text EXCEPT ![c] = t]

-----------------------------------------------------------------------------
(***************************************************************************)
(* Detection and time.                                                     *)
(***************************************************************************)

\* create_dm_opportunity: one row per (account, user, root post); a second
\* reply of the same lead meets the unique constraint and finds the row.
Create(o) ==
  /\ opp[o].status = "absent"
  /\ \A p \in Opps : p < o => opp[p].status # "absent"
  /\ Patch(o, [NoRow EXCEPT !.status = "detected"])
  /\ Calm /\ UNCHANGED <<stale, shown, crossed, commands>>

PassDeadline(o) ==
  /\ opp[o].status # "absent" /\ o \notin stale
  /\ stale' = stale \cup {o}
  /\ Calm /\ UNCHANGED <<opp, shown, crossed, commands>>

\* expire_stale_opportunities on one row.
Expire(o) ==
  /\ o \in stale /\ Matches(o, Active)
  /\ Patch(o, [opp[o] EXCEPT !.status = "expired"])
  /\ Calm /\ UNCHANGED <<stale, shown, crossed, commands>>

-----------------------------------------------------------------------------
(***************************************************************************)
(* The watchdog's approval pass: draft, await approval, card, stamp.       *)
(***************************************************************************)

NeedsCard(o) ==
  \/ opp[o].status \in {"detected", "drafted"}
  \/ opp[o].status = "awaiting_approval" /\ ~opp[o].carded

BeginCard(w, o) ==
  /\ NeedsCard(o)
  /\ Start(w, o, "draft", NoText)
  /\ Calm /\ UNCHANGED <<opp, stale, shown, crossed>>

\* Mutant: the draft is generated before the status is looked at.
ReadForDraftLate(w) ==
  LET o == at[w] IN
  /\ pc[w] = "draft"
  /\ \/ /\ o \notin stale /\ Matches(o, {"detected", "drafted"})
        /\ \E t \in Texts : Goto(w, "saveDraft", t)
     \/ /\ o \notin stale /\ Matches(o, {"awaiting_approval"})
        /\ \E t \in Texts : Goto(w, "card", t)
     \/ /\ o \in stale \/ ~Matches(o, Waiting)
        /\ Leave(w)
  /\ Calm /\ UNCHANGED <<opp, stale, shown, crossed>>

\* _run_dm_draft up to its first write.  A row that already awaits approval
\* only needs its card; generating a text changes nothing anyone can see.
ReadForDraft(w) ==
  LET o == at[w] IN
  /\ pc[w] = "draft"
  /\ \/ /\ o \notin stale /\ Matches(o, {"detected", "drafted"})
        /\ \E t \in Texts : Goto(w, "saveDraft", t)
     \/ /\ o \notin stale /\ Matches(o, {"awaiting_approval"})
        /\ Goto(w, "card", opp[o].draft)
     \/ /\ o \in stale \/ ~Matches(o, Waiting)
        /\ Leave(w)
  /\ Calm /\ UNCHANGED <<opp, stale, shown, crossed>>

SaveDraft(w) ==
  LET o == at[w] IN
  /\ pc[w] = "saveDraft"
  /\ \/ /\ Matches(o, {"detected", "drafted"})
        /\ Patch(o, [opp[o] EXCEPT !.status = "drafted", !.draft = text[w]])
        /\ Goto(w, "await", text[w])
     \/ /\ ~Matches(o, {"detected", "drafted"})
        /\ Leave(w) /\ UNCHANGED opp
  /\ Calm /\ UNCHANGED <<stale, shown, crossed>>

\* Mutant: the card is recorded with the move, before it is sent.
AwaitStamped(w) ==
  LET o == at[w] IN
  /\ pc[w] = "await"
  /\ \/ /\ Matches(o, {"drafted"})
        /\ Patch(o, [opp[o] EXCEPT !.status = "awaiting_approval", !.carded = TRUE])
        /\ Goto(w, "card", opp[o].draft)
     \/ /\ ~Matches(o, {"drafted"})
        /\ Goto(w, "card", text[w]) /\ UNCHANGED opp
  /\ Calm /\ UNCHANGED <<stale, shown, crossed>>

\* mark_dm_awaiting_approval.  The card shows the row this call returns or,
\* when the swap fails, the row that SaveDraft returned: the text of this pass,
\* whatever draft another pass has left in the row.
Await(w) ==
  LET o == at[w] IN
  /\ pc[w] = "await"
  /\ \/ /\ Matches(o, {"drafted"})
        /\ Patch(o, [opp[o] EXCEPT !.status = "awaiting_approval"])
        /\ Goto(w, "card", opp[o].draft) /\ UNCHANGED crossed
     \/ /\ ~Matches(o, {"drafted"})
        /\ Goto(w, "card", text[w]) /\ UNCHANGED opp
        /\ crossed' = IF text[w] = opp[o].draft THEN crossed ELSE crossed \cup {o}
  /\ Calm /\ UNCHANGED <<stale, shown>>

SendCard(w) ==
  LET o == at[w] IN
  /\ pc[w] = "card"
  /\ shown' = [shown EXCEPT ![o] = @ \cup {text[w]}]
  /\ Goto(w, "stamp", NoText)
  /\ Calm /\ UNCHANGED <<opp, stale, crossed>>

\* record_dm_approval_card_sent.
Stamp(w) ==
  LET o == at[w] IN
  /\ pc[w] = "stamp"
  /\ \/ /\ Matches(o, {"awaiting_approval"})
        /\ Patch(o, [opp[o] EXCEPT !.carded = TRUE])
     \/ ~Matches(o, {"awaiting_approval"}) /\ UNCHANGED opp
  /\ Leave(w)
  /\ Calm /\ UNCHANGED <<stale, shown, crossed>>

-----------------------------------------------------------------------------
(***************************************************************************)
(* A person's taps on a card.                                              *)
(***************************************************************************)

\* _run_dm_approve and approve_dm_opportunity: read the row, then swap.
BeginApprove(c, o) ==
  /\ shown[o] # {} /\ o \notin stale
  /\ opp[o].draft # NoText /\ opp[o].status # "approved"
  /\ Start(c, o, "approve", opp[o].draft)
  /\ Calm /\ UNCHANGED <<opp, stale, shown, crossed>>

\* Mutant: the swap is conditioned on the row not having been closed.
SaveApprovalOpen(c) ==
  LET o == at[c] IN
  /\ pc[c] = "approve"
  /\ \/ /\ Matches(o, {"awaiting_approval", "approved"})
        /\ Patch(o, [opp[o] EXCEPT !.status = "approved", !.approved = text[c]])
     \/ ~Matches(o, {"awaiting_approval", "approved"}) /\ UNCHANGED opp
  /\ Leave(c)
  /\ Calm /\ UNCHANGED <<stale, shown, crossed>>

SaveApproval(c) ==
  LET o == at[c] IN
  /\ pc[c] = "approve"
  /\ \/ /\ Matches(o, {"awaiting_approval"})
        /\ Patch(o, [opp[o] EXCEPT !.status = "approved", !.approved = text[c]])
     \/ ~Matches(o, {"awaiting_approval"}) /\ UNCHANGED opp
  /\ Leave(c)
  /\ Calm /\ UNCHANGED <<stale, shown, crossed>>

\* The person sends a text after tapping Edit; the row is read, then swapped.
BeginEdit(c, o, t) ==
  /\ shown[o] # {} /\ o \notin stale
  /\ Start(c, o, "edit", t)
  /\ Calm /\ UNCHANGED <<opp, stale, shown, crossed>>

\* Mutant: an edit that comes too late changes the text that was approved.
SaveEditLate(c) ==
  LET o == at[c] IN
  /\ pc[c] = "edit"
  /\ \/ /\ Matches(o, {"awaiting_approval", "approved", "sending"})
        /\ Patch(o, [opp[o] EXCEPT !.draft = text[c],
             !.approved = IF opp[o].status = "awaiting_approval" THEN @ ELSE text[c]])
        /\ shown' = [shown EXCEPT ![o] = @ \cup {text[c]}]
     \/ ~Matches(o, {"awaiting_approval", "approved", "sending"}) /\ UNCHANGED <<opp, shown>>
  /\ Leave(c)
  /\ Calm /\ UNCHANGED <<stale, crossed>>

SaveEdit(c) ==
  LET o == at[c] IN
  /\ pc[c] = "edit"
  /\ \/ /\ Matches(o, {"awaiting_approval"})
        /\ Patch(o, [opp[o] EXCEPT !.draft = text[c]])
        /\ shown' = [shown EXCEPT ![o] = @ \cup {text[c]}]
     \/ ~Matches(o, {"awaiting_approval"}) /\ UNCHANGED <<opp, shown>>
  /\ Leave(c)
  /\ Calm /\ UNCHANGED <<stale, crossed>>

Reject(o) ==
  /\ shown[o] # {} /\ Matches(o, Waiting)
  /\ Patch(o, [opp[o] EXCEPT !.status = "rejected"])
  /\ Calm /\ UNCHANGED <<stale, shown, crossed, commands>>

\* A command raises or is killed.  A write whose answer is lost, and a card that
\* cannot be sent, look the same: the write landed, the rest did not happen.
Crash(c) ==
  /\ pc[c] # "idle"
  /\ Leave(c)
  /\ Upset("crash") /\ UNCHANGED <<opp, stale, shown, crossed>>

-----------------------------------------------------------------------------

PassStep(w) == ReadForDraft(w) \/ SaveDraft(w) \/ Await(w) \/ SendCard(w) \/ Stamp(w)
TapStep(c) == SaveApproval(c) \/ SaveEdit(c)

ApprovalNext ==
  \/ \E o \in Opps : Create(o) \/ PassDeadline(o) \/ Expire(o) \/ Reject(o)
  \/ \E w \in Watchdogs : PassStep(w) \/ \E o \in Opps : BeginCard(w, o)
  \/ \E c \in Taps :
       \/ TapStep(c)
       \/ \E o \in Opps : BeginApprove(c, o) \/ \E t \in Texts : BeginEdit(c, o, t)
  \/ \E c \in Commands : Crash(c)

ApprovalVars == <<approvalVars, upsets>>
ApprovalSpec == Init /\ [][ApprovalNext]_ApprovalVars

-----------------------------------------------------------------------------
(***************************************************************************)
(* Correctness.                                                            *)
(***************************************************************************)

\* The type of every variable: the row as the migrations declare it, the
\* progress of each command.
ApprovalTypeOK ==
  /\ opp \in [Opps -> [status : Statuses, draft : Texts \cup {NoText},
                       approved : Texts \cup {NoText}, carded : BOOLEAN]]
  /\ stale \subseteq Opps
  /\ shown \in [Opps -> SUBSET Texts]
  /\ crossed \subseteq Opps
  /\ pc \in [Commands -> {"idle", "draft", "saveDraft", "await", "card", "stamp",
                          "approve", "edit"}]
  /\ at \in [Commands -> Opps]
  /\ text \in [Commands -> Texts \cup {NoText}]
  /\ upsets \in Nat

\* approve_dm_opportunity: a decision is final.  An approved text never changes
\* and its row never waits for approval again, whatever edits, drafts and
\* second taps are still under way.
ApprovalIsFinal ==
  [][\A o \in Opps : opp[o].approved # NoText =>
       /\ opp'[o].approved = opp[o].approved
       /\ opp'[o].status \notin Waiting]_opp

\* No text is approved that a person has not seen, whatever edits, taps and crashes
\* come between the draft, its card and the approval: the card shows the draft that an
\* approval will take.  But for `crossed`: two passes draft the row at once, the one moves
\* it with the other's draft, and the card of the other still shows its own.
ApprovedWasSeen ==
  \A o \in Opps :
    opp[o].approved # NoText => opp[o].approved \in shown[o] \/ o \in crossed

\* run_dm_approval_pass: an opportunity nobody was shown a card of stays in the list of the
\* passes to come until it is closed, whichever of the draft, the card and the stamp a
\* pass died between and whatever another pass did to the row meanwhile.
UncardedIsListed ==
  \A o \in Opps : opp[o].status \in Waiting /\ shown[o] = {} => NeedsCard(o)
=============================================================================
