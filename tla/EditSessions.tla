----------------------------- MODULE EditSessions -----------------------------
(***************************************************************************)
(* Edit sessions of the Telegram gateway: who owes which row a replacement *)
(* text, and who owes a candidate a time.  All dispatchers of the gateway  *)
(* keep them in one JSON file, replaced as a whole by every change; the    *)
(* gateway is one asyncio process, so a handler is atomic up to its await  *)
(* of the command line.                                                    *)
(*                                                                         *)
(* Which dispatcher the gateway offers a text to first is not in this      *)
(* repository: any of them may take it.                                    *)
(***************************************************************************)
EXTENDS Naturals

CONSTANTS
  Senders,     (* a chat and a user                                          *)
  Flows,       (* workflows whose rows are edited by text                    *)
  Rows,        (* <<flow, id>> of their rows; each workflow counts from 1    *)
  Listing,     (* those whose Edit button looks the row up first             *)
  Times,       (* publishing times a user can name                           *)
  Handlers,    (* handlers waiting for the command line                      *)
  MaxSessions, (* bound on sessions created                                  *)
  MaxFaults    (* bound on faults                                            *)

Ids == { r[2] : r \in Rows }

ASSUME RowsAssumption == Listing \subseteq Flows /\ Rows \subseteq Flows \X Ids
ASSUME TagAssumption == Times \cap {"edit", "input"} = {}

VARIABLES
  sessions,  (* the file: records [from, id, tag, token], listed by token; the tag is
                "edit", "input" for a time that is asked for, or the time to confirm *)
  minted,    (* tokens drawn                                                 *)
  open,      (* <<flow, id>> of rows that can still be edited                *)
  pc,        (* what a handler waits for                                     *)
  job,       (* what it asked the command line to do                         *)
  faults,
  (* History, read by the properties only. *)
  asked,     (* <<sender, id>> of Edit and Choose Time buttons tapped        *)
  edited,    (* <<sender, id>> of texts the command line took                *)
  shown,     (* <<sender, time>> of confirmation cards                       *)
  scheduled  (* <<sender, time>> of schedules made by Confirm                *)

fileVars == <<sessions, minted>>
handlerVars == <<pc, job>>
history == <<asked, edited, shown, scheduled>>
sessionVars == <<fileVars, open, handlerVars, faults, history>>

NoJob == [flow |-> "none", by |-> "none", session |-> [token |-> 0]]

SessionInit ==
  /\ sessions = {} /\ minted = 0
  /\ open = Rows
  /\ pc = [h \in Handlers |-> "idle"] /\ job = [h \in Handlers |-> NoJob]
  /\ faults = 0
  /\ asked = {} /\ edited = {} /\ shown = {} /\ scheduled = {}

-----------------------------------------------------------------------------
(***************************************************************************)
(* PendingEditStore.                                                       *)
(***************************************************************************)

\* create: the sender's session for the same id is replaced, whatever its workflow.
Create(q, u, i, tag) ==
  /\ minted < MaxSessions /\ minted' = minted + 1
  /\ sessions' = { s \in q : ~(s.from = u /\ s.id = i) } \cup
                   {[from |-> u, id |-> i, tag |-> tag, token |-> minted + 1]}

\* Mutant: any sender's session answers.
Anybodys(u) == sessions

\* find_for_sender: the oldest session of this chat and user.
Sessions(u) == { s \in sessions : s.from = u }
Oldest(S) == CHOOSE s \in S : \A r \in S : s.token <= r.token
First(u) == Oldest(Sessions(u))

\* Mutant: what is removed is any session of the same sender and row.
CloseRow(q, s) == { r \in q : ~(r.from = s.from /\ r.id = s.id) }

Close(q, s) == { r \in q : r.token # s.token }

\* _load drops what has expired; every session lives equally long.
Expire ==
  /\ sessions # {} /\ sessions' = Close(sessions, Oldest(sessions))
  /\ UNCHANGED <<minted, open, handlerVars, faults, history>>

-----------------------------------------------------------------------------
(***************************************************************************)
(* Edit buttons and replacement texts.                                     *)
(***************************************************************************)

Asks(u, i) ==
  /\ Create(sessions, u, i, "edit")
  /\ asked' = asked \cup {<<u, i>>}
  /\ UNCHANGED <<open, handlerVars, faults, edited, shown, scheduled>>

TapEdit(u, f, i) == f \notin Listing /\ Asks(u, i)

\* The engagement bridge lists the pending rows before it asks for a text.
TapEditListed(u, f, i) == f \in Listing /\ <<f, i>> \in open /\ Asks(u, i)

\* The row is decided, by a button of its card.
Decide(f, i) ==
  /\ <<f, i>> \in open /\ open' = open \ {<<f, i>>}
  /\ UNCHANGED <<fileVars, handlerVars, faults, history>>

Starts(h, step, f, u) ==
  /\ pc[h] = "idle"
  /\ pc' = [pc EXCEPT ![h] = step]
  /\ job' = [job EXCEPT ![h] = [flow |-> f, by |-> u, session |-> First(u)]]

Ends(h) ==
  /\ pc' = [pc EXCEPT ![h] = "idle"]
  /\ job' = [job EXCEPT ![h] = NoJob]

\* handle_text of the dispatcher of f: the sender's oldest session, whatever it was
\* opened for, names the row.
SendText(h, u, f) ==
  /\ Sessions(u) # {}
  /\ Starts(h, "edit", f, u)
  /\ UNCHANGED <<fileVars, open, faults, history>>

SendCancel(u) ==
  /\ Sessions(u) # {}
  /\ sessions' = Close(sessions, First(u))
  /\ UNCHANGED <<minted, open, handlerVars, faults, history>>

Took(h) ==
  LET j == job[h] IN
  IF <<j.flow, j.session.id>> \in open THEN edited \cup {<<j.by, j.session.id>>} ELSE edited

\* The command line took the text, or answers that the row is no longer open.
EditAnswered(h) ==
  /\ pc[h] = "edit"
  /\ edited' = Took(h)
  /\ sessions' = Close(sessions, job[h].session)
  /\ Ends(h)
  /\ UNCHANGED <<minted, open, faults, asked, shown, scheduled>>

\* An error, the timeout of 60 seconds or the end of the gateway: the text may have been
\* taken; the session stays open.
EditFails(h) ==
  /\ pc[h] = "edit"
  /\ faults < MaxFaults /\ faults' = faults + 1
  /\ edited' \in {edited, Took(h)}
  /\ Ends(h)
  /\ UNCHANGED <<fileVars, open, asked, shown, scheduled>>

-----------------------------------------------------------------------------
(***************************************************************************)
(* Choosing a time: trendsched.                                            *)
(***************************************************************************)

TapChoose(u, i) ==
  /\ Create(sessions, u, i, "input")
  /\ asked' = asked \cup {<<u, i>>}
  /\ UNCHANGED <<open, handlerVars, faults, edited, shown, scheduled>>

\* The text names a time: the session is replaced by one that holds the time.
NameTime(u, t) ==
  LET s == First(u) IN
  /\ Sessions(u) # {} /\ s.tag = "input"
  /\ Create(Close(sessions, s), u, s.id, t)
  /\ shown' = shown \cup {<<u, t>>}
  /\ UNCHANGED <<open, handlerVars, faults, asked, edited, scheduled>>

\* _run_cancel, for the Cancel button.
TapCancel(u) ==
  /\ Sessions(u) # {}
  /\ sessions' = Close(sessions, First(u))
  /\ UNCHANGED <<minted, open, handlerVars, faults, history>>

\* The word "cancel" removes the session, and _run_cancel the sender's next one.
CancelTime(u) ==
  LET s == First(u)
      others == Sessions(u) \ {s} IN
  /\ Sessions(u) # {} /\ s.tag = "input"
  /\ sessions' = IF others = {} THEN Close(sessions, s) ELSE Close(Close(sessions, s), Oldest(others))
  /\ UNCHANGED <<minted, open, handlerVars, faults, history>>

\* _run_confirm: the time is that of the sender's oldest session, which need not be
\* the tapped candidate's; without a time nothing is scheduled.
TapConfirm(h, u) ==
  /\ Sessions(u) # {} /\ First(u).tag \in Times
  /\ Starts(h, "confirm", "trendsched", u)
  /\ UNCHANGED <<fileVars, open, faults, history>>

\* schedule-time answers; the session ends whatever the answer.
ConfirmAnswered(h) ==
  /\ pc[h] = "confirm"
  /\ scheduled' \in {scheduled, scheduled \cup {<<job[h].by, job[h].session.tag>>}}
  /\ sessions' = Close(sessions, job[h].session)
  /\ Ends(h)
  /\ UNCHANGED <<minted, open, faults, asked, edited, shown>>

\* The gateway ends while it waits.
ConfirmDies(h) ==
  /\ pc[h] = "confirm"
  /\ faults < MaxFaults /\ faults' = faults + 1
  /\ scheduled' \in {scheduled, scheduled \cup {<<job[h].by, job[h].session.tag>>}}
  /\ Ends(h)
  /\ UNCHANGED <<fileVars, open, asked, edited, shown>>

-----------------------------------------------------------------------------

SessionNext ==
  \/ Expire
  \/ \E f \in Flows, i \in Ids :
       Decide(f, i) \/ \E u \in Senders : TapEdit(u, f, i) \/ TapEditListed(u, f, i)
  \/ \E u \in Senders :
       \/ SendCancel(u) \/ TapCancel(u) \/ CancelTime(u)
       \/ \E t \in Times : NameTime(u, t)
       \/ \E i \in Ids : TapChoose(u, i)
       \/ \E h \in Handlers : TapConfirm(h, u) \/ \E f \in Flows : SendText(h, u, f)
  \/ \E h \in Handlers :
       EditAnswered(h) \/ EditFails(h) \/ ConfirmAnswered(h) \/ ConfirmDies(h)

SessionSpec == SessionInit /\ [][SessionNext]_sessionVars

-----------------------------------------------------------------------------
(***************************************************************************)
(* Correctness.                                                            *)
(***************************************************************************)

\* A text is taken only from a sender who opened a session for that row's number, by
\* Edit or by Choose Time, and never through another sender's session.
TextsAreAskedFor ==
  edited \subseteq asked

\* Confirm schedules a time that a confirmation card has shown to the sender who taps.
ConfirmedTimeWasShown == scheduled \subseteq shown

\* The answer to a text closes the session that text was read for and no other: a
\* session opened again for the same row while the text was under way stays open.
LaterAskStays ==
  [][\A h \in Handlers :
       pc[h] = "edit" /\ pc'[h] = "idle" =>
         \A s \in sessions : s.token # job[h].session.token => s \in sessions']_sessionVars
=============================================================================
