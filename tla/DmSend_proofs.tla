------------------------------ MODULE DmSend_proofs ------------------------------
(***************************************************************************)
(* Theorems about DmSend, for every number of opportunities, texts,        *)
(* watchdogs, taps and browser jobs.                                       *)
(***************************************************************************)
EXTENDS DmSend, TLAPS

Undecided == Waiting \cup {"absent", "rejected"}
Decided == {"approved", "sending", "sent", "failed", "send_uncertain"}

RowType == [status : Statuses, draft : Texts \cup {NoText},
            approved : Texts \cup {NoText}, carded : BOOLEAN]
CommandSteps ==
  {"idle", "draft", "saveDraft", "await", "card", "stamp", "approve", "edit"}

\* A row has an approved text exactly when it was decided, and a draft before
\* anyone is asked about it.
Shape(row) ==
  /\ row.status \in Undecided => row.approved = NoText
  /\ row.status \in Decided => row.approved \in Texts
  /\ row.status \in {"drafted", "awaiting_approval"} => row.draft \in Texts

CommandInv(c) ==
  pc[c] \in {"saveDraft", "await", "card", "approve", "edit"} => text[c] \in Texts

ApprovalInv ==
  /\ ApprovalTypeOK
  /\ \A o \in Opps : Shape(opp[o])
  /\ \A c \in Commands : CommandInv(c)

\* A message is paid for: by the approval or by a blind requeue.
CountInv(o) ==
  /\ texts[o] \subseteq {opp[o].approved} \ {NoText}
  /\ delivered[o] <= 1 + blind[o]
  /\ opp[o].status \in Undecided \cup {"approved", "failed"} => delivered[o] <= blind[o]

\* A job holds the approved text and, until it has pressed Enter, no message
\* of its own is out.
JobInv(b) ==
  /\ step[b] \in Holding => opp[job[b]].status \in {"sending", "expired"}
  /\ step[b] \in Holding \cup {"claim"} =>
       words[b] = opp[job[b]].approved /\ opp[job[b]].approved \in Texts
  /\ step[b] \in {"prepare", "click", "markFailed"} => delivered[job[b]] <= blind[job[b]]

IInv ==
  /\ ApprovalInv
  /\ TypeOK
  /\ OneSender
  /\ \A o \in Opps : CountInv(o)
  /\ \A b \in Browsers : JobInv(b)

-----------------------------------------------------------------------------
(***************************************************************************)
(* The approval flow.                                                      *)
(***************************************************************************)

\* All that a step of the approval flow does to a row.
Turn(old, new) ==
  \/ new = old
  \/ /\ old.status \in Undecided /\ new.status \in Undecided
     /\ new.approved = old.approved
  \/ /\ old.status = "awaiting_approval" /\ new.status = "approved"
     /\ new.approved \in Texts
  \/ /\ old.status \in Active /\ new.status = "expired"
     /\ new.approved = old.approved

RowsGood == opp' \in [Opps -> RowType] /\ \A p \in Opps : Shape(opp'[p]) /\ Turn(opp[p], opp'[p])
CommandsGood ==
  /\ pc' \in [Commands -> CommandSteps]
  /\ text' \in [Commands -> Texts \cup {NoText}]
  /\ \A d \in Commands : CommandInv(d)'
RestGood ==
  /\ stale' \subseteq Opps
  /\ shown' \in [Opps -> SUBSET Texts]
  /\ crossed' \subseteq Opps
  /\ at' \in [Commands -> Opps]
  /\ upsets' \in Nat

\* A row is written.
LEMMA RowWritten ==
  ASSUME ApprovalInv, NEW o \in Opps, NEW row \in RowType, Shape(row), Turn(opp[o], row),
         opp' = [opp EXCEPT ![o] = row]
  PROVE  RowsGood
<1>1. opp \in [Opps -> RowType]
  BY DEF ApprovalInv, ApprovalTypeOK, RowType
<1>2. opp' \in [Opps -> RowType]
  BY <1>1
<1>3. ASSUME NEW p \in Opps PROVE Shape(opp'[p]) /\ Turn(opp[p], opp'[p])
  <2>1. CASE p = o
    BY <2>1, <1>1
  <2>2. CASE p # o
    BY <2>2, <1>1 DEF ApprovalInv, Turn
  <2> QED
    BY <2>1, <2>2
<1> QED
  BY <1>2, <1>3 DEF RowsGood

\* No row is written.
LEMMA RowsAlone ==
  ASSUME ApprovalInv, UNCHANGED opp
  PROVE  RowsGood
BY DEF ApprovalInv, ApprovalTypeOK, RowType, RowsGood, Turn

\* A command goes on, or none does.
LEMMA CommandMoved ==
  ASSUME ApprovalInv, NEW c \in Commands, NEW next \in CommandSteps,
         NEW t \in Texts \cup {NoText},
         next \in {"saveDraft", "await", "card", "approve", "edit"} => t \in Texts,
         pc' = [pc EXCEPT ![c] = next], text' = [text EXCEPT ![c] = t]
  PROVE  CommandsGood
BY DEF ApprovalInv, ApprovalTypeOK, CommandsGood, CommandInv, CommandSteps

LEMMA CommandsAlone ==
  ASSUME ApprovalInv, UNCHANGED commands
  PROVE  CommandsGood
BY DEF ApprovalInv, ApprovalTypeOK, CommandsGood, CommandInv, CommandSteps, commands

LEMMA Together ==
  ASSUME RowsGood, CommandsGood, RestGood
  PROVE  ApprovalInv' /\ \A p \in Opps : Turn(opp[p], opp'[p])
BY DEF RowsGood, CommandsGood, RestGood, ApprovalInv, ApprovalTypeOK, RowType, CommandSteps

\* A row appears.
LEMMA CreateStep ==
  ASSUME ApprovalInv, NEW o \in Opps, Create(o)
  PROVE  ApprovalInv' /\ \A p \in Opps : Turn(opp[p], opp'[p])
<1>1. RowsGood
  <2>1. [NoRow EXCEPT !.status = "detected"] \in RowType
    BY DEF ApprovalInv, ApprovalTypeOK, RowType, Statuses, Active, Waiting, Create, Patch, NoRow
  <2>2. Shape([NoRow EXCEPT !.status = "detected"]) /\ Turn(opp[o], [NoRow EXCEPT !.status = "detected"])
    BY TextsAssumption DEF ApprovalInv, ApprovalTypeOK, RowType, Statuses, Active, Waiting, Shape, Turn, Undecided, Decided, Create, Patch, NoRow
  <2>3. opp' = [opp EXCEPT ![o] = [NoRow EXCEPT !.status = "detected"]]
    BY DEF Create, Patch, NoRow
  <2> QED
    BY <2>1, <2>2, <2>3, RowWritten
<1>2. CommandsGood
  BY CommandsAlone DEF Create
<1>3. RestGood
  BY DEF RestGood, ApprovalInv, ApprovalTypeOK, CommandInv, Commands, Calm, commands, Create
<1> QED
  BY <1>1, <1>2, <1>3, Together

\* Time passes.
LEMMA PassDeadlineStep ==
  ASSUME ApprovalInv, NEW o \in Opps, PassDeadline(o)
  PROVE  ApprovalInv' /\ \A p \in Opps : Turn(opp[p], opp'[p])
<1>1. RowsGood
  BY RowsAlone DEF PassDeadline
<1>2. CommandsGood
  BY CommandsAlone DEF PassDeadline
<1>3. RestGood
  BY DEF RestGood, ApprovalInv, ApprovalTypeOK, CommandInv, Commands, Calm, commands, PassDeadline
<1> QED
  BY <1>1, <1>2, <1>3, Together

\* A row expires.
LEMMA ExpireStep ==
  ASSUME ApprovalInv, NEW o \in Opps, Expire(o)
  PROVE  ApprovalInv' /\ \A p \in Opps : Turn(opp[p], opp'[p])
<1>1. RowsGood
  <2>1. [opp[o] EXCEPT !.status = "expired"] \in RowType
    BY SMTT(30) DEF ApprovalInv, ApprovalTypeOK, RowType, Statuses, Active, Waiting, Expire, Patch, Matches
  <2>2. Shape([opp[o] EXCEPT !.status = "expired"]) /\ Turn(opp[o], [opp[o] EXCEPT !.status = "expired"])
    BY TextsAssumption DEF ApprovalInv, ApprovalTypeOK, RowType, Statuses, Active, Waiting, Shape, Turn, Undecided, Decided, Expire, Patch, Matches
  <2>3. opp' = [opp EXCEPT ![o] = [opp[o] EXCEPT !.status = "expired"]]
    BY DEF Expire, Patch, Matches
  <2> QED
    BY <2>1, <2>2, <2>3, RowWritten
<1>2. CommandsGood
  BY CommandsAlone DEF Expire
<1>3. RestGood
  BY DEF RestGood, ApprovalInv, ApprovalTypeOK, CommandInv, Commands, Calm, commands, Expire
<1> QED
  BY <1>1, <1>2, <1>3, Together

\* A row is rejected.
LEMMA RejectStep ==
  ASSUME ApprovalInv, NEW o \in Opps, Reject(o)
  PROVE  ApprovalInv' /\ \A p \in Opps : Turn(opp[p], opp'[p])
<1>1. RowsGood
  <2>1. [opp[o] EXCEPT !.status = "rejected"] \in RowType
    BY DEF ApprovalInv, ApprovalTypeOK, RowType, Statuses, Active, Waiting, Reject, Patch, Matches
  <2>2. Shape([opp[o] EXCEPT !.status = "rejected"]) /\ Turn(opp[o], [opp[o] EXCEPT !.status = "rejected"])
    BY TextsAssumption DEF ApprovalInv, ApprovalTypeOK, RowType, Statuses, Active, Waiting, Shape, Turn, Undecided, Decided, Reject, Patch, Matches
  <2>3. opp' = [opp EXCEPT ![o] = [opp[o] EXCEPT !.status = "rejected"]]
    BY DEF Reject, Patch, Matches
  <2> QED
    BY <2>1, <2>2, <2>3, RowWritten
<1>2. CommandsGood
  BY CommandsAlone DEF Reject
<1>3. RestGood
  BY DEF RestGood, ApprovalInv, ApprovalTypeOK, CommandInv, Commands, Calm, commands, Reject
<1> QED
  BY <1>1, <1>2, <1>3, Together

\* A pass takes up a row.
LEMMA BeginCardStep ==
  ASSUME ApprovalInv, NEW c \in Watchdogs, NEW o \in Opps, BeginCard(c, o)
  PROVE  ApprovalInv' /\ \A p \in Opps : Turn(opp[p], opp'[p])
<1>1. RowsGood
  BY RowsAlone DEF BeginCard
<1>2. CommandsGood
  BY CommandMoved, OppsAssumption, TextsAssumption
     DEF BeginCard, Start, CommandSteps, Commands, ApprovalInv, ApprovalTypeOK
<1>3. RestGood
  BY DEF RestGood, ApprovalInv, ApprovalTypeOK, CommandInv, Commands, Calm, commands, BeginCard, Start
<1> QED
  BY <1>1, <1>2, <1>3, Together

\* A pass reads it.
LEMMA ReadForDraftStep ==
  ASSUME ApprovalInv, NEW c \in Watchdogs, ReadForDraft(c)
  PROVE  ApprovalInv' /\ \A p \in Opps : Turn(opp[p], opp'[p])
<1>1. RowsGood
  BY RowsAlone DEF ReadForDraft
<1>2. CommandsGood
  <2>1. CASE \E t \in Texts : Goto(c, "saveDraft", t)
    BY <2>1, CommandMoved DEF Goto, CommandSteps, Commands
  <2>2. CASE Matches(at[c], {"awaiting_approval"}) /\ Goto(c, "card", opp[at[c]].draft)
    <3>1. opp[at[c]].draft \in Texts
      BY <2>2 DEF Matches, Commands, ApprovalInv, ApprovalTypeOK, Shape
    <3> QED
      BY <2>2, <3>1, CommandMoved DEF Goto, CommandSteps, Commands
  <2>3. CASE Leave(c)
    BY <2>3, CommandMoved DEF Leave, Goto, CommandSteps, Commands
  <2> QED
    BY <2>1, <2>2, <2>3 DEF ReadForDraft
<1>3. RestGood
  BY DEF RestGood, ApprovalInv, ApprovalTypeOK, CommandInv, Commands, Calm, commands, ReadForDraft, Leave, Goto
<1> QED
  BY <1>1, <1>2, <1>3, Together

\* A pass saves a draft.
LEMMA SaveDraftStep ==
  ASSUME ApprovalInv, NEW c \in Watchdogs, SaveDraft(c)
  PROVE  ApprovalInv' /\ \A p \in Opps : Turn(opp[p], opp'[p])
<1>1. RowsGood
  <2> DEFINE o == at[c]  row == [opp[o] EXCEPT !.status = "drafted", !.draft = text[c]]
  <2>1. o \in Opps /\ opp[o] \in RowType /\ Shape(opp[o])
    BY DEF ApprovalInv, ApprovalTypeOK, RowType, Statuses, Active, Waiting, Commands
  <2>2. CASE Matches(o, {"detected", "drafted"})
    <3>1. row \in RowType /\ Shape(row) /\ Turn(opp[o], row)
      BY <2>1, <2>2, TextsAssumption DEF ApprovalInv, ApprovalTypeOK, RowType, Statuses, Active, Waiting, Shape, Turn, Undecided, Decided, Matches, CommandInv, Commands, SaveDraft
    <3>2. opp' = [opp EXCEPT ![o] = row]
      BY <2>2 DEF SaveDraft, Patch
    <3> HIDE DEF row
    <3> QED
      BY <2>1, <3>1, <3>2, RowWritten
  <2>3. CASE ~Matches(o, {"detected", "drafted"})
    BY <2>3, RowsAlone DEF SaveDraft, Matches
  <2> QED
    BY <2>2, <2>3
<1>2. CommandsGood
  <2>1. text[c] \in Texts
    BY DEF SaveDraft, ApprovalInv, CommandInv, Commands
  <2>2. CASE Goto(c, "await", text[c])
    BY <2>1, <2>2, CommandMoved DEF Goto, CommandSteps, Commands
  <2>3. CASE Leave(c)
    BY <2>3, CommandMoved DEF Leave, Goto, CommandSteps, Commands
  <2> QED
    BY <2>2, <2>3 DEF SaveDraft
<1>3. RestGood
  BY DEF RestGood, ApprovalInv, ApprovalTypeOK, CommandInv, Commands, Calm, commands, SaveDraft, Leave, Goto
<1> QED
  BY <1>1, <1>2, <1>3, Together

\* The row is put before a person.
LEMMA AwaitStep ==
  ASSUME ApprovalInv, NEW c \in Watchdogs, Await(c)
  PROVE  ApprovalInv' /\ \A p \in Opps : Turn(opp[p], opp'[p])
<1>1. RowsGood
  <2> DEFINE o == at[c]  row == [opp[o] EXCEPT !.status = "awaiting_approval"]
  <2>1. o \in Opps /\ opp[o] \in RowType /\ Shape(opp[o])
    BY DEF ApprovalInv, ApprovalTypeOK, RowType, Statuses, Active, Waiting, Commands
  <2>2. CASE Matches(o, {"drafted"})
    <3>1. row \in RowType /\ Shape(row) /\ Turn(opp[o], row)
      BY <2>1, <2>2, TextsAssumption DEF ApprovalInv, ApprovalTypeOK, RowType, Statuses, Active, Waiting, Shape, Turn, Undecided, Decided, Matches, CommandInv, Commands, Await
    <3>2. opp' = [opp EXCEPT ![o] = row]
      BY <2>2 DEF Await, Patch
    <3> HIDE DEF row
    <3> QED
      BY <2>1, <3>1, <3>2, RowWritten
  <2>3. CASE ~Matches(o, {"drafted"})
    BY <2>3, RowsAlone DEF Await, Matches
  <2> QED
    BY <2>2, <2>3
<1>2. CommandsGood
  <2>1. text[c] \in Texts
    BY DEF Await, ApprovalInv, CommandInv, Commands
  <2>2. CASE Matches(at[c], {"drafted"}) /\ Goto(c, "card", opp[at[c]].draft)
    <3>1. opp[at[c]].draft \in Texts
      BY <2>2 DEF Matches, Commands, ApprovalInv, ApprovalTypeOK, Shape
    <3> QED
      BY <2>2, <3>1, CommandMoved DEF Goto, CommandSteps, Commands
  <2>3. CASE Goto(c, "card", text[c])
    BY <2>1, <2>3, CommandMoved DEF Goto, CommandSteps, Commands
  <2> QED
    BY <2>2, <2>3 DEF Await
<1>3. RestGood
  BY DEF RestGood, ApprovalInv, ApprovalTypeOK, CommandInv, Commands, Calm, commands, Await, Goto
<1> QED
  BY <1>1, <1>2, <1>3, Together

\* The card is sent.
LEMMA SendCardStep ==
  ASSUME ApprovalInv, NEW c \in Watchdogs, SendCard(c)
  PROVE  ApprovalInv' /\ \A p \in Opps : Turn(opp[p], opp'[p])
<1>1. RowsGood
  BY RowsAlone DEF SendCard
<1>2. CommandsGood
  BY CommandMoved DEF SendCard, Goto, CommandSteps, Commands
<1>3. RestGood
  BY DEF RestGood, ApprovalInv, ApprovalTypeOK, CommandInv, Commands, Calm, commands, SendCard, Goto
<1> QED
  BY <1>1, <1>2, <1>3, Together

\* The card is recorded.
LEMMA StampStep ==
  ASSUME ApprovalInv, NEW c \in Watchdogs, Stamp(c)
  PROVE  ApprovalInv' /\ \A p \in Opps : Turn(opp[p], opp'[p])
<1>1. RowsGood
  <2> DEFINE o == at[c]  row == [opp[o] EXCEPT !.carded = TRUE]
  <2>1. o \in Opps /\ opp[o] \in RowType /\ Shape(opp[o])
    BY DEF ApprovalInv, ApprovalTypeOK, RowType, Statuses, Active, Waiting, Commands
  <2>2. CASE Matches(o, {"awaiting_approval"})
    <3>1. row \in RowType /\ Shape(row) /\ Turn(opp[o], row)
      BY <2>1, <2>2, TextsAssumption DEF ApprovalInv, ApprovalTypeOK, RowType, Statuses, Active, Waiting, Shape, Turn, Undecided, Decided, Matches, CommandInv, Commands, Stamp
    <3>2. opp' = [opp EXCEPT ![o] = row]
      BY <2>2 DEF Stamp, Patch
    <3> HIDE DEF row
    <3> QED
      BY <2>1, <3>1, <3>2, RowWritten
  <2>3. CASE ~Matches(o, {"awaiting_approval"})
    BY <2>3, RowsAlone DEF Stamp, Matches
  <2> QED
    BY <2>2, <2>3
<1>2. CommandsGood
  BY CommandMoved, TextsAssumption DEF Stamp, Leave, Goto, CommandSteps, Commands
<1>3. RestGood
  BY DEF RestGood, ApprovalInv, ApprovalTypeOK, CommandInv, Commands, Calm, commands, Stamp, Leave, Goto
<1> QED
  BY <1>1, <1>2, <1>3, Together

\* An approval reads the draft.
LEMMA BeginApproveStep ==
  ASSUME ApprovalInv, NEW c \in Taps, NEW o \in Opps, BeginApprove(c, o)
  PROVE  ApprovalInv' /\ \A p \in Opps : Turn(opp[p], opp'[p])
<1>1. RowsGood
  BY RowsAlone DEF BeginApprove
<1>2. CommandsGood
  <2>1. opp[o].draft \in Texts
    BY DEF BeginApprove, ApprovalInv, ApprovalTypeOK
  <2> QED
    BY <2>1, CommandMoved DEF BeginApprove, Start, CommandSteps, Commands
<1>3. RestGood
  BY DEF RestGood, ApprovalInv, ApprovalTypeOK, CommandInv, Commands, Calm, commands, BeginApprove, Start
<1> QED
  BY <1>1, <1>2, <1>3, Together

\* An approval is recorded.
LEMMA SaveApprovalStep ==
  ASSUME ApprovalInv, NEW c \in Taps, SaveApproval(c)
  PROVE  ApprovalInv' /\ \A p \in Opps : Turn(opp[p], opp'[p])
<1>1. RowsGood
  <2> DEFINE o == at[c]  row == [opp[o] EXCEPT !.status = "approved", !.approved = text[c]]
  <2>1. o \in Opps /\ opp[o] \in RowType /\ Shape(opp[o])
    BY DEF ApprovalInv, ApprovalTypeOK, RowType, Statuses, Active, Waiting, Commands
  <2>2. CASE Matches(o, {"awaiting_approval"})
    <3>1. row \in RowType /\ Shape(row) /\ Turn(opp[o], row)
      BY <2>1, <2>2, TextsAssumption DEF ApprovalInv, ApprovalTypeOK, RowType, Statuses, Active, Waiting, Shape, Turn, Undecided, Decided, Matches, CommandInv, Commands, SaveApproval
    <3>2. opp' = [opp EXCEPT ![o] = row]
      BY <2>2 DEF SaveApproval, Patch
    <3> HIDE DEF row
    <3> QED
      BY <2>1, <3>1, <3>2, RowWritten
  <2>3. CASE ~Matches(o, {"awaiting_approval"})
    BY <2>3, RowsAlone DEF SaveApproval, Matches
  <2> QED
    BY <2>2, <2>3
<1>2. CommandsGood
  BY CommandMoved, TextsAssumption DEF SaveApproval, Leave, Goto, CommandSteps, Commands
<1>3. RestGood
  BY DEF RestGood, ApprovalInv, ApprovalTypeOK, CommandInv, Commands, Calm, commands, SaveApproval, Leave, Goto
<1> QED
  BY <1>1, <1>2, <1>3, Together

\* An edit reads the row.
LEMMA BeginEditStep ==
  ASSUME ApprovalInv, NEW c \in Taps, NEW o \in Opps, NEW t \in Texts, BeginEdit(c, o, t)
  PROVE  ApprovalInv' /\ \A p \in Opps : Turn(opp[p], opp'[p])
<1>1. RowsGood
  BY RowsAlone DEF BeginEdit
<1>2. CommandsGood
  BY CommandMoved DEF BeginEdit, Start, CommandSteps, Commands
<1>3. RestGood
  BY DEF RestGood, ApprovalInv, ApprovalTypeOK, CommandInv, Commands, Calm, commands, BeginEdit, Start
<1> QED
  BY <1>1, <1>2, <1>3, Together

\* An edit is recorded.
LEMMA SaveEditStep ==
  ASSUME ApprovalInv, NEW c \in Taps, SaveEdit(c)
  PROVE  ApprovalInv' /\ \A p \in Opps : Turn(opp[p], opp'[p])
<1>1. RowsGood
  <2> DEFINE o == at[c]  row == [opp[o] EXCEPT !.draft = text[c]]
  <2>1. o \in Opps /\ opp[o] \in RowType /\ Shape(opp[o])
    BY DEF ApprovalInv, ApprovalTypeOK, RowType, Statuses, Active, Waiting, Commands
  <2>2. CASE Matches(o, {"awaiting_approval"})
    <3>1. row \in RowType /\ Shape(row) /\ Turn(opp[o], row)
      BY <2>1, <2>2, TextsAssumption DEF ApprovalInv, ApprovalTypeOK, RowType, Statuses, Active, Waiting, Shape, Turn, Undecided, Decided, Matches, CommandInv, Commands, SaveEdit
    <3>2. opp' = [opp EXCEPT ![o] = row]
      BY <2>2 DEF SaveEdit, Patch
    <3> HIDE DEF row
    <3> QED
      BY <2>1, <3>1, <3>2, RowWritten
  <2>3. CASE ~Matches(o, {"awaiting_approval"})
    BY <2>3, RowsAlone DEF SaveEdit, Matches
  <2> QED
    BY <2>2, <2>3
<1>2. CommandsGood
  BY CommandMoved, TextsAssumption DEF SaveEdit, Leave, Goto, CommandSteps, Commands
<1>3. RestGood
  BY DEF RestGood, ApprovalInv, ApprovalTypeOK, CommandInv, Commands, Calm, commands, SaveEdit, Leave, Goto
<1> QED
  BY <1>1, <1>2, <1>3, Together

\* A command dies.
LEMMA CrashStep ==
  ASSUME ApprovalInv, NEW c \in Commands, Crash(c)
  PROVE  ApprovalInv' /\ \A p \in Opps : Turn(opp[p], opp'[p])
<1>1. RowsGood
  BY RowsAlone DEF Crash
<1>2. CommandsGood
  BY CommandMoved, TextsAssumption DEF Crash, Leave, Goto, CommandSteps, Commands
<1>3. RestGood
  BY DEF RestGood, ApprovalInv, ApprovalTypeOK, CommandInv, Commands, Calm, commands, Crash, Leave, Goto, Upset
<1> QED
  BY <1>1, <1>2, <1>3, Together

LEMMA ApprovalStep ==
  ASSUME ApprovalInv, ApprovalNext
  PROVE  ApprovalInv' /\ \A p \in Opps : Turn(opp[p], opp'[p])
<1> DEFINE Good == ApprovalInv' /\ \A p \in Opps : Turn(opp[p], opp'[p])
<1>1. ASSUME NEW o \in Opps, Create(o) \/ PassDeadline(o) \/ Expire(o) \/ Reject(o)
      PROVE  Good
  BY <1>1, CreateStep, PassDeadlineStep, ExpireStep, RejectStep
<1>2. ASSUME NEW w \in Watchdogs, PassStep(w) \/ \E o \in Opps : BeginCard(w, o)
      PROVE  Good
  BY <1>2, BeginCardStep, ReadForDraftStep, SaveDraftStep, AwaitStep, SendCardStep,
     StampStep DEF PassStep
<1>3. ASSUME NEW c \in Taps,
             \/ TapStep(c)
             \/ \E o \in Opps : BeginApprove(c, o) \/ \E t \in Texts : BeginEdit(c, o, t)
      PROVE  Good
  BY <1>3, BeginApproveStep, SaveApprovalStep, BeginEditStep, SaveEditStep DEF TapStep
<1>4. ASSUME NEW c \in Commands, Crash(c)
      PROVE  Good
  BY <1>4, CrashStep
<1> QED
  BY <1>1, <1>2, <1>3, <1>4 DEF ApprovalNext

LEMMA ApprovalInit == Init => ApprovalInv
<1> SUFFICES ASSUME Init PROVE ApprovalInv
  OBVIOUS
<1> USE OppsAssumption, TextsAssumption, UpsetsAssumption
<1>1. NoRow \in RowType /\ (CHOOSE o \in Opps : TRUE) \in Opps
  BY DEF NoRow, RowType, Statuses
<1>2. opp \in [Opps -> RowType] /\ at \in [Commands -> Opps]
  BY <1>1 DEF Init
<1>3. /\ stale \subseteq Opps /\ upsets \in Nat
      /\ shown \in [Opps -> SUBSET Texts] /\ crossed \subseteq Opps
  BY DEF Init
<1>4. pc \in [Commands -> CommandSteps] /\ text \in [Commands -> Texts \cup {NoText}]
  BY DEF Init, CommandSteps
<1>5. ApprovalTypeOK
  BY <1>2, <1>3, <1>4 DEF ApprovalTypeOK, RowType, CommandSteps
<1> QED
  BY <1>5 DEF Init, ApprovalInv, Shape, CommandInv, NoRow, Undecided, Decided, Waiting

\* approve_dm_opportunity: once an approval has fixed a text, no edit, no draft and
\* no second tap changes it or puts the row back before a person.
THEOREM ApprovalFinal == ApprovalSpec => ApprovalIsFinal
<1>1. ApprovalInv /\ [ApprovalNext]_ApprovalVars => ApprovalInv'
  <2>1. CASE ApprovalNext
    BY <2>1, ApprovalStep
  <2>2. CASE UNCHANGED ApprovalVars
    BY <2>2 DEF ApprovalVars, approvalVars, commands, ApprovalInv, ApprovalTypeOK, CommandInv
  <2> QED
    BY <2>1, <2>2
<1>2. ASSUME ApprovalInv, [ApprovalNext]_ApprovalVars
      PROVE  [\A o \in Opps : opp[o].approved # NoText =>
                /\ opp'[o].approved = opp[o].approved
                /\ opp'[o].status \notin Waiting]_opp
  <2>1. CASE ApprovalNext
    <3> SUFFICES ASSUME NEW o \in Opps, opp[o].approved # NoText
                 PROVE  /\ opp'[o].approved = opp[o].approved
                        /\ opp'[o].status \notin Waiting
      OBVIOUS
    <3>1. Turn(opp[o], opp'[o]) /\ Shape(opp[o])
      BY <1>2, <2>1, ApprovalStep DEF ApprovalInv
    <3>2. opp[o].status \notin Undecided
      BY <3>1 DEF Shape
    <3> QED
      BY <3>1, <3>2 DEF Turn, Undecided, Waiting
  <2>2. CASE UNCHANGED ApprovalVars
    BY <2>2 DEF ApprovalVars, approvalVars
  <2> QED
    BY <1>2, <2>1, <2>2
<1> QED
  BY ApprovalInit, <1>1, <1>2, PTL DEF ApprovalSpec, ApprovalIsFinal

-----------------------------------------------------------------------------
(***************************************************************************)
(* The browser jobs.                                                       *)
(***************************************************************************)

\* A step of the approval flow leaves the jobs and their rows' texts alone.
LEMMA ApprovalKeepsSend ==
  ASSUME IInv, ApprovalNext, UNCHANGED sendVars
  PROVE  IInv'
<1>1. ApprovalInv' /\ \A p \in Opps : Turn(opp[p], opp'[p])
  BY ApprovalStep DEF IInv
<1>2. TypeOK'
  BY <1>1 DEF IInv, TypeOK, ApprovalInv, sendVars, browser, threads
<1>3. OneSender'
  BY DEF IInv, OneSender, sendVars, browser
<1>4. ASSUME NEW o \in Opps PROVE CountInv(o)'
  BY <1>1, TextsAssumption
     DEF IInv, CountInv, ApprovalInv, Shape, Turn, Undecided, Waiting, sendVars, threads, TypeOK
<1>5. ASSUME NEW b \in Browsers PROVE JobInv(b)'
  <2>1. job[b] \in Opps
    BY DEF IInv, TypeOK
  <2>2. step[b] \in Holding => opp'[job[b]].status \in {"sending", "expired"}
    BY <1>1, <2>1 DEF IInv, JobInv, Turn, Undecided, Waiting
  <2>3. opp[job[b]].approved \in Texts => opp'[job[b]].approved = opp[job[b]].approved
    BY <1>1, <2>1, TextsAssumption DEF IInv, ApprovalInv, Shape, Turn, Undecided, Waiting
  <2> QED
    BY <2>2, <2>3 DEF IInv, JobInv, sendVars, browser, threads
<1> QED
  BY <1>1, <1>2, <1>3, <1>4, <1>5 DEF IInv

\* No row is written by a browser step.
LEMMA NoSwap ==
  ASSUME ApprovalInv, UNCHANGED opp, Apart, upsets' \in Nat
  PROVE  ApprovalInv'
BY DEF ApprovalInv, ApprovalTypeOK, CommandInv, Apart, commands

\* A decided row moves on to another decided status.
LEMMA Swapped ==
  ASSUME ApprovalInv, NEW o \in Opps, NEW from \in SUBSET Decided, NEW to \in Decided,
         Swap(o, from, to), Apart, upsets' \in Nat
  PROVE  /\ ApprovalInv'
         /\ \A p \in Opps : p # o => opp'[p] = opp[p]
         /\ opp'[o].approved = opp[o].approved
         /\ opp[o].status \in from => opp'[o].status = to
         /\ opp[o].status \notin from => opp'[o].status = opp[o].status
<1> DEFINE row == [opp[o] EXCEPT !.status = to]
<1>1. opp[o] \in RowType /\ opp \in [Opps -> RowType] /\ Decided \subseteq Statuses
  BY DEF ApprovalInv, ApprovalTypeOK, RowType, Decided, Statuses, Active
<1>2. CASE opp[o].status \in from
  <2>1. opp' = [opp EXCEPT ![o] = row]
    BY <1>2 DEF Swap, Matches, Patch
  <2>2. row \in RowType /\ row.status = to /\ row.approved = opp[o].approved
    BY <1>1 DEF RowType
  <2>3. Shape(row)
    BY <1>1, <1>2, <2>2, TextsAssumption DEF ApprovalInv, Shape, Undecided, Decided, Waiting
  <2>4. opp' \in [Opps -> RowType] /\ opp'[o] = row /\ \A p \in Opps : p # o => opp'[p] = opp[p]
    BY <1>1, <2>1, <2>2
  <2>5. \A p \in Opps : Shape(opp'[p])
    BY <2>3, <2>4 DEF ApprovalInv
  <2>6. ApprovalInv'
    BY <2>4, <2>5 DEF ApprovalInv, ApprovalTypeOK, RowType, CommandInv, Apart, commands
  <2> QED
    BY <1>2, <2>2, <2>4, <2>6
<1>3. CASE opp[o].status \notin from
  <2>1. UNCHANGED opp
    BY <1>3 DEF Swap, Matches
  <2> QED
    BY <1>3, <2>1, NoSwap
<1> QED
  BY <1>2, <1>3

\* What a job can read as an approved text.
LEMMA ApprovedType ==
  ASSUME IInv
  PROVE  \A o \in Opps : opp[o].approved \in Texts \cup {NoText}
BY DEF IInv, TypeOK, ApprovalTypeOK

\* A recipient is filled in.
LEMMA FillTargetKeeps ==
  ASSUME IInv, NEW o \in Opps, FillTarget(o)
  PROVE  IInv'
<1>1. ApprovalInv'
  BY NoSwap DEF IInv, TypeOK, ApprovalTypeOK, FillTarget, Calm
<1>2. TypeOK'
  BY <1>1 DEF IInv, TypeOK, ApprovalInv, Steps, Holding, FillTarget, browser, threads
<1>3. OneSender'
  BY <1>2 DEF IInv, OneSender, TypeOK, Holding, FillTarget, browser, threads
<1>4. ASSUME NEW p \in Opps PROVE CountInv(p)'
  BY <1>1, <1>2 DEF IInv, CountInv, TypeOK, FillTarget, browser, threads
<1>5. ASSUME NEW c \in Browsers PROVE JobInv(c)'
  BY <1>1, <1>2 DEF IInv, JobInv, TypeOK, CountInv, Holding, FillTarget, browser, threads
<1> QED
  BY <1>1, <1>2, <1>3, <1>4, <1>5 DEF IInv

\* A pass takes up the newest approved row.
LEMMA BeginPassKeeps ==
  ASSUME IInv, NEW b \in Browsers, BeginPass(b)
  PROVE  IInv'
<1>1. ApprovalInv'
  BY NoSwap DEF IInv, TypeOK, ApprovalTypeOK, BeginPass, Calm
<1>2. TypeOK'
  BY <1>1, ApprovedType DEF IInv, TypeOK, ApprovalInv, Steps, Holding, BeginPass, Engage, browser, threads
<1>3. OneSender'
  BY <1>2 DEF IInv, OneSender, TypeOK, Holding, BeginPass, Engage, browser, threads
<1>4. ASSUME NEW p \in Opps PROVE CountInv(p)'
  BY <1>1, <1>2 DEF IInv, CountInv, TypeOK, BeginPass, Engage, browser, threads
<1>5. ASSUME NEW c \in Browsers PROVE JobInv(c)'
  BY <1>1, <1>2 DEF IInv, JobInv, TypeOK, CountInv, Holding, BeginPass, Engage, browser, threads
<1> QED
  BY <1>1, <1>2, <1>3, <1>4, <1>5 DEF IInv

\* A person sends a row.
LEMMA BeginSendKeeps ==
  ASSUME IInv, NEW b \in Browsers, NEW o \in Opps, BeginSend(b, o)
  PROVE  IInv'
<1>1. ApprovalInv'
  BY NoSwap DEF IInv, TypeOK, ApprovalTypeOK, BeginSend, Calm
<1>2. TypeOK'
  BY <1>1, ApprovedType DEF IInv, TypeOK, ApprovalInv, Steps, Holding, BeginSend, Engage, browser, threads
<1>3. OneSender'
  BY <1>2 DEF IInv, OneSender, TypeOK, Holding, BeginSend, Engage, browser, threads
<1>4. ASSUME NEW p \in Opps PROVE CountInv(p)'
  BY <1>1, <1>2 DEF IInv, CountInv, TypeOK, BeginSend, Engage, browser, threads
<1>5. ASSUME NEW c \in Browsers PROVE JobInv(c)'
  BY <1>1, <1>2 DEF IInv, JobInv, TypeOK, CountInv, Holding, BeginSend, Engage, browser, threads
<1> QED
  BY <1>1, <1>2, <1>3, <1>4, <1>5 DEF IInv

\* A person reconciles a row.
LEMMA BeginReconcileKeeps ==
  ASSUME IInv, NEW b \in Browsers, NEW o \in Opps, BeginReconcile(b, o)
  PROVE  IInv'
<1>1. ApprovalInv'
  BY NoSwap DEF IInv, TypeOK, ApprovalTypeOK, BeginReconcile, Calm
<1>2. TypeOK'
  BY <1>1, ApprovedType DEF IInv, TypeOK, ApprovalInv, Steps, Holding, BeginReconcile, Engage, browser, threads
<1>3. OneSender'
  BY <1>2 DEF IInv, OneSender, TypeOK, Holding, BeginReconcile, Engage, browser, threads
<1>4. ASSUME NEW p \in Opps PROVE CountInv(p)'
  BY <1>1, <1>2 DEF IInv, CountInv, TypeOK, BeginReconcile, Engage, browser, threads
<1>5. ASSUME NEW c \in Browsers PROVE JobInv(c)'
  BY <1>1, <1>2 DEF IInv, JobInv, TypeOK, CountInv, Holding, BeginReconcile, Engage, browser, threads
<1> QED
  BY <1>1, <1>2, <1>3, <1>4, <1>5 DEF IInv

\* The row is read.
LEMMA CheckKeeps ==
  ASSUME IInv, NEW b \in Browsers, Check(b)
  PROVE  IInv'
<1>1. ApprovalInv'
  BY NoSwap DEF IInv, TypeOK, ApprovalTypeOK, Check, Calm
<1>2. TypeOK'
  BY <1>1, ApprovedType DEF IInv, TypeOK, ApprovalInv, Steps, Holding, Check, Eligible, Done, browser, threads
<1>3. OneSender'
  BY <1>2 DEF IInv, OneSender, TypeOK, Holding, Check, Eligible, Done, browser, threads
<1>4. ASSUME NEW p \in Opps PROVE CountInv(p)'
  BY <1>1, <1>2 DEF IInv, CountInv, TypeOK, Check, Eligible, Done, browser, threads
<1>5. ASSUME NEW c \in Browsers PROVE JobInv(c)'
  BY <1>1, <1>2 DEF IInv, JobInv, TypeOK, ApprovalTypeOK, Holding, Check, Eligible, Done, browser, threads
<1> QED
  BY <1>1, <1>2, <1>3, <1>4, <1>5 DEF IInv

\* The row is claimed: nobody else holds it, for it was approved.
LEMMA ClaimKeeps ==
  ASSUME IInv, NEW b \in Browsers, Claim(b)
  PROVE  IInv'
<1>1. /\ ApprovalInv'
      /\ \A p \in Opps : p # job[b] => opp'[p] = opp[p]
      /\ opp'[job[b]].approved = opp[job[b]].approved
      /\ opp[job[b]].status = "approved" => opp'[job[b]].status = "sending"
      /\ opp[job[b]].status # "approved" => opp'[job[b]].status = opp[job[b]].status
  <2>1. Swap(job[b], {"approved"}, "sending")
    BY DEF Claim, Swap, Matches, Claimable, Done
  <2> QED
    BY <2>1, Swapped DEF IInv, TypeOK, ApprovalTypeOK, Decided, Claim, Calm
<1>2. TypeOK'
  BY <1>1 DEF IInv, TypeOK, ApprovalInv, Steps, Holding, Claim, Claimable, Matches, Move, Done, browser, threads
<1>3. OneSender'
  BY <1>2 DEF IInv, OneSender, JobInv, TypeOK, Holding, Claim, Claimable, Matches, Move, Done
<1>4. ASSUME NEW p \in Opps PROVE CountInv(p)'
  BY <1>1, <1>2 DEF IInv, CountInv, TypeOK, Undecided, Waiting, Claim, threads
<1>5. ASSUME NEW c \in Browsers PROVE JobInv(c)'
  BY <1>1, <1>2 DEF IInv, JobInv, TypeOK, CountInv, Holding, Claim, Claimable, Matches, Move, Done, browser, threads
<1> QED
  BY <1>1, <1>2, <1>3, <1>4, <1>5 DEF IInv

\* The send is given up before Enter.
LEMMA RefuseKeeps ==
  ASSUME IInv, NEW b \in Browsers, Refuse(b)
  PROVE  IInv'
<1>1. ApprovalInv'
  BY NoSwap DEF IInv, TypeOK, ApprovalTypeOK, Refuse, Calm
<1>2. TypeOK'
  BY <1>1 DEF IInv, TypeOK, ApprovalInv, Steps, Holding, Refuse, Move, browser, threads
<1>3. OneSender'
  BY <1>2 DEF IInv, OneSender, TypeOK, Holding, Refuse, Move, browser, threads
<1>4. ASSUME NEW p \in Opps PROVE CountInv(p)'
  BY <1>1, <1>2 DEF IInv, CountInv, TypeOK, Refuse, Move, browser, threads
<1>5. ASSUME NEW c \in Browsers PROVE JobInv(c)'
  BY <1>1, <1>2 DEF IInv, JobInv, TypeOK, CountInv, Holding, Refuse, Move, browser, threads
<1> QED
  BY <1>1, <1>2, <1>3, <1>4, <1>5 DEF IInv

\* The composer is filled.
LEMMA ComposeKeeps ==
  ASSUME IInv, NEW b \in Browsers, Compose(b)
  PROVE  IInv'
<1>1. ApprovalInv'
  BY NoSwap DEF IInv, TypeOK, ApprovalTypeOK, Compose, Calm
<1>2. TypeOK'
  BY <1>1 DEF IInv, TypeOK, ApprovalInv, Steps, Holding, Compose, Move, browser, threads
<1>3. OneSender'
  BY <1>2 DEF IInv, OneSender, TypeOK, Holding, Compose, Move, browser, threads
<1>4. ASSUME NEW p \in Opps PROVE CountInv(p)'
  BY <1>1, <1>2 DEF IInv, CountInv, TypeOK, Compose, Move, browser, threads
<1>5. ASSUME NEW c \in Browsers PROVE JobInv(c)'
  BY <1>1, <1>2 DEF IInv, JobInv, TypeOK, CountInv, Holding, Compose, Move, browser, threads
<1> QED
  BY <1>1, <1>2, <1>3, <1>4, <1>5 DEF IInv

\* Enter is pressed.
LEMMA ClickKeeps ==
  ASSUME IInv, NEW b \in Browsers, Click(b)
  PROVE  IInv'
<1>1. ApprovalInv'
  BY NoSwap DEF IInv, TypeOK, ApprovalTypeOK, Click, Calm
<1>2. TypeOK'
  BY <1>1 DEF IInv, TypeOK, ApprovalInv, Steps, Holding, Click, Deliver, Move, browser, threads
<1>3. OneSender'
  BY <1>2 DEF IInv, OneSender, TypeOK, Holding, Click, Deliver, Move, browser, threads
<1>4. ASSUME NEW p \in Opps PROVE CountInv(p)'
  BY <1>1, <1>2, TextsAssumption DEF IInv, CountInv, JobInv, TypeOK, Holding, Undecided, Waiting, Click, Deliver, threads
<1>5. ASSUME NEW c \in Browsers PROVE JobInv(c)'
  <2>1. step[c] \in Holding /\ c # b => job[c] # job[b]
    BY DEF IInv, OneSender, Holding, Click
  <2> QED
    BY <1>1, <1>2, <2>1 DEF IInv, JobInv, TypeOK, Holding, PageSteps, Click, Deliver, Move, threads
<1> QED
  BY <1>1, <1>2, <1>3, <1>4, <1>5 DEF IInv

\* The page is asked.
LEMMA ConfirmKeeps ==
  ASSUME IInv, NEW b \in Browsers, Confirm(b)
  PROVE  IInv'
<1>1. ApprovalInv'
  BY NoSwap DEF IInv, TypeOK, ApprovalTypeOK, Confirm, Calm
<1>2. TypeOK'
  BY <1>1 DEF IInv, TypeOK, ApprovalInv, Steps, Holding, Confirm, Move, browser, threads
<1>3. OneSender'
  BY <1>2 DEF IInv, OneSender, TypeOK, Holding, Confirm, Move, browser, threads
<1>4. ASSUME NEW p \in Opps PROVE CountInv(p)'
  BY <1>1, <1>2 DEF IInv, CountInv, TypeOK, Confirm, Move, browser, threads
<1>5. ASSUME NEW c \in Browsers PROVE JobInv(c)'
  BY <1>1, <1>2 DEF IInv, JobInv, TypeOK, CountInv, Holding, Confirm, Move, browser, threads
<1> QED
  BY <1>1, <1>2, <1>3, <1>4, <1>5 DEF IInv

\* The outcome is recorded.
LEMMA MarkSentKeeps ==
  ASSUME IInv, NEW b \in Browsers, MarkSent(b)
  PROVE  IInv'
<1>1. /\ ApprovalInv'
      /\ \A p \in Opps : p # job[b] => opp'[p] = opp[p]
      /\ opp'[job[b]].approved = opp[job[b]].approved
      /\ opp[job[b]].status \in {"sending"} => opp'[job[b]].status = "sent"
      /\ opp[job[b]].status \notin {"sending"} => opp'[job[b]].status = opp[job[b]].status
  BY Swapped DEF IInv, TypeOK, ApprovalTypeOK, Decided, MarkSent, Calm
<1>2. TypeOK'
  BY <1>1 DEF IInv, TypeOK, ApprovalInv, Steps, Holding, MarkSent, Done, browser, threads
<1>3. OneSender'
  BY <1>2 DEF IInv, OneSender, TypeOK, Holding, MarkSent, Done, browser, threads
<1>4. ASSUME NEW p \in Opps PROVE CountInv(p)'
  BY <1>1, <1>2 DEF IInv, CountInv, JobInv, TypeOK, Holding, Undecided, Waiting, MarkSent, threads
<1>5. ASSUME NEW c \in Browsers PROVE JobInv(c)'
  <2>1. step[c] \in Holding /\ c # b => job[c] # job[b]
    BY DEF IInv, OneSender, Holding, MarkSent
  <2> QED
    BY <1>1, <1>2, <2>1 DEF IInv, JobInv, TypeOK, Holding, MarkSent, Done, threads
<1> QED
  BY <1>1, <1>2, <1>3, <1>4, <1>5 DEF IInv

\* The outcome is recorded.
LEMMA MarkUncertainKeeps ==
  ASSUME IInv, NEW b \in Browsers, MarkUncertain(b)
  PROVE  IInv'
<1>1. /\ ApprovalInv'
      /\ \A p \in Opps : p # job[b] => opp'[p] = opp[p]
      /\ opp'[job[b]].approved = opp[job[b]].approved
      /\ opp[job[b]].status \in {"sending"} => opp'[job[b]].status = "send_uncertain"
      /\ opp[job[b]].status \notin {"sending"} => opp'[job[b]].status = opp[job[b]].status
  BY Swapped DEF IInv, TypeOK, ApprovalTypeOK, Decided, MarkUncertain, Uncertain, Calm
<1>2. TypeOK'
  BY <1>1 DEF IInv, TypeOK, ApprovalInv, Steps, Holding, MarkUncertain, Done, browser, threads
<1>3. OneSender'
  BY <1>2 DEF IInv, OneSender, TypeOK, Holding, MarkUncertain, Done, browser, threads
<1>4. ASSUME NEW p \in Opps PROVE CountInv(p)'
  BY <1>1, <1>2 DEF IInv, CountInv, JobInv, TypeOK, Holding, Undecided, Waiting, MarkUncertain, threads
<1>5. ASSUME NEW c \in Browsers PROVE JobInv(c)'
  <2>1. step[c] \in Holding /\ c # b => job[c] # job[b]
    BY DEF IInv, OneSender, Holding, MarkUncertain
  <2> QED
    BY <1>1, <1>2, <2>1 DEF IInv, JobInv, TypeOK, Holding, MarkUncertain, Done, threads
<1> QED
  BY <1>1, <1>2, <1>3, <1>4, <1>5 DEF IInv

\* The outcome is recorded.
LEMMA MarkFailedKeeps ==
  ASSUME IInv, NEW b \in Browsers, MarkFailed(b)
  PROVE  IInv'
<1>1. /\ ApprovalInv'
      /\ \A p \in Opps : p # job[b] => opp'[p] = opp[p]
      /\ opp'[job[b]].approved = opp[job[b]].approved
      /\ opp[job[b]].status \in {"sending", "approved"} => opp'[job[b]].status = "failed"
      /\ opp[job[b]].status \notin {"sending", "approved"} => opp'[job[b]].status = opp[job[b]].status
  BY Swapped DEF IInv, TypeOK, ApprovalTypeOK, Decided, MarkFailed, Calm
<1>2. TypeOK'
  BY <1>1 DEF IInv, TypeOK, ApprovalInv, Steps, Holding, MarkFailed, Done, browser, threads
<1>3. OneSender'
  BY <1>2 DEF IInv, OneSender, TypeOK, Holding, MarkFailed, Done, browser, threads
<1>4. ASSUME NEW p \in Opps PROVE CountInv(p)'
  BY <1>1, <1>2 DEF IInv, CountInv, JobInv, TypeOK, Holding, Undecided, Waiting, MarkFailed, threads
<1>5. ASSUME NEW c \in Browsers PROVE JobInv(c)'
  <2>1. step[c] \in Holding /\ c # b => job[c] # job[b]
    BY DEF IInv, OneSender, Holding, MarkFailed
  <2> QED
    BY <1>1, <1>2, <2>1 DEF IInv, JobInv, TypeOK, Holding, MarkFailed, Done, threads
<1> QED
  BY <1>1, <1>2, <1>3, <1>4, <1>5 DEF IInv

\* The page raises, maybe after Enter was taken.
LEMMA PageFailsKeeps ==
  ASSUME IInv, NEW b \in Browsers, PageFails(b)
  PROVE  IInv'
<1>1. ApprovalInv'
  BY NoSwap DEF IInv, TypeOK, ApprovalTypeOK, PageFails, Upset
<1>2. TypeOK'
  BY <1>1 DEF IInv, TypeOK, ApprovalInv, Steps, Holding, PageFails, PageSteps, Deliver, Done, browser, threads
<1>3. OneSender'
  BY <1>2 DEF IInv, OneSender, TypeOK, Holding, PageFails, PageSteps, Deliver, Done, browser, threads
<1>4. ASSUME NEW p \in Opps PROVE CountInv(p)'
  BY <1>1, <1>2, TextsAssumption DEF IInv, CountInv, JobInv, TypeOK, Holding, Undecided, Waiting, PageFails, Deliver, threads
<1>5. ASSUME NEW c \in Browsers PROVE JobInv(c)'
  <2>1. step[b] = "click" /\ step[c] \in Holding /\ c # b => job[c] # job[b]
    BY DEF IInv, OneSender, Holding
  <2> QED
    BY <1>1, <1>2, <2>1 DEF IInv, JobInv, TypeOK, Holding, PageSteps, PageFails, Deliver, Done, threads
<1> QED
  BY <1>1, <1>2, <1>3, <1>4, <1>5 DEF IInv

\* The job dies.
LEMMA JobCrashKeeps ==
  ASSUME IInv, NEW b \in Browsers, JobCrash(b)
  PROVE  IInv'
<1>1. ApprovalInv'
  BY NoSwap DEF IInv, TypeOK, ApprovalTypeOK, JobCrash, Upset
<1>2. TypeOK'
  BY <1>1 DEF IInv, TypeOK, ApprovalInv, Steps, Holding, JobCrash, Done, browser, threads
<1>3. OneSender'
  BY <1>2 DEF IInv, OneSender, TypeOK, Holding, JobCrash, Done, browser, threads
<1>4. ASSUME NEW p \in Opps PROVE CountInv(p)'
  BY <1>1, <1>2 DEF IInv, CountInv, TypeOK, JobCrash, Done, browser, threads
<1>5. ASSUME NEW c \in Browsers PROVE JobInv(c)'
  BY <1>1, <1>2 DEF IInv, JobInv, TypeOK, CountInv, Holding, JobCrash, Done, browser, threads
<1> QED
  BY <1>1, <1>2, <1>3, <1>4, <1>5 DEF IInv

\* The page is searched.
LEMMA LookKeeps ==
  ASSUME IInv, NEW b \in Browsers, Look(b)
  PROVE  IInv'
<1>1. ApprovalInv'
  BY NoSwap DEF IInv, TypeOK, ApprovalTypeOK, Look, Calm
<1>2. TypeOK'
  BY <1>1 DEF IInv, TypeOK, ApprovalInv, Steps, Holding, Look, Move, Done, browser, threads
<1>3. OneSender'
  BY <1>2 DEF IInv, OneSender, TypeOK, Holding, Look, Move, Done, browser, threads
<1>4. ASSUME NEW p \in Opps PROVE CountInv(p)'
  BY <1>1, <1>2 DEF IInv, CountInv, TypeOK, Look, Move, Done, browser, threads
<1>5. ASSUME NEW c \in Browsers PROVE JobInv(c)'
  BY <1>1, <1>2 DEF IInv, JobInv, TypeOK, CountInv, Holding, Look, Move, Done, browser, threads
<1> QED
  BY <1>1, <1>2, <1>3, <1>4, <1>5 DEF IInv

\* The message was found.
LEMMA FoundKeeps ==
  ASSUME IInv, NEW b \in Browsers, Found(b)
  PROVE  IInv'
<1>1. /\ ApprovalInv'
      /\ \A p \in Opps : p # job[b] => opp'[p] = opp[p]
      /\ opp'[job[b]].approved = opp[job[b]].approved
      /\ opp[job[b]].status \in {"send_uncertain"} => opp'[job[b]].status = "sent"
      /\ opp[job[b]].status \notin {"send_uncertain"} => opp'[job[b]].status = opp[job[b]].status
  BY Swapped DEF IInv, TypeOK, ApprovalTypeOK, Decided, Found, Calm
<1>2. TypeOK'
  BY <1>1 DEF IInv, TypeOK, ApprovalInv, Steps, Holding, Found, Done, browser, threads
<1>3. OneSender'
  BY <1>2 DEF IInv, OneSender, TypeOK, Holding, Found, Done, browser, threads
<1>4. ASSUME NEW p \in Opps PROVE CountInv(p)'
  BY <1>1, <1>2 DEF IInv, CountInv, TypeOK, Undecided, Waiting, Found, threads
<1>5. ASSUME NEW c \in Browsers PROVE JobInv(c)'
  <2>1. opp[job[b]].status = "send_uncertain" /\ step[c] \in Holding => job[c] # job[b]
    BY DEF IInv, JobInv
  <2> QED
    BY <1>1, <1>2, <2>1 DEF IInv, JobInv, TypeOK, Holding, Found, Done, threads
<1> QED
  BY <1>1, <1>2, <1>3, <1>4, <1>5 DEF IInv

\* It was not found: the row goes back, and the requeue is blind if it existed.
LEMMA AbsentKeeps ==
  ASSUME IInv, NEW b \in Browsers, Absent(b)
  PROVE  IInv'
<1>1. /\ ApprovalInv'
      /\ \A p \in Opps : p # job[b] => opp'[p] = opp[p]
      /\ opp'[job[b]].approved = opp[job[b]].approved
      /\ opp[job[b]].status \in {"send_uncertain"} => opp'[job[b]].status = "approved"
      /\ opp[job[b]].status \notin {"send_uncertain"} => opp'[job[b]].status = opp[job[b]].status
  BY Swapped DEF IInv, TypeOK, ApprovalTypeOK, Decided, Absent, Calm
<1>2. TypeOK'
  BY <1>1 DEF IInv, TypeOK, ApprovalInv, Steps, Holding, Absent, Matches, Done, browser, threads
<1>3. OneSender'
  BY <1>2 DEF IInv, OneSender, TypeOK, Holding, Absent, Matches, Done, browser, threads
<1>4. ASSUME NEW p \in Opps PROVE CountInv(p)'
  BY <1>1, <1>2 DEF IInv, CountInv, TypeOK, Undecided, Waiting, Absent, Matches, threads
<1>5. ASSUME NEW c \in Browsers PROVE JobInv(c)'
  <2>1. opp[job[b]].status = "send_uncertain" /\ step[c] \in Holding => job[c] # job[b]
    BY DEF IInv, JobInv
  <2> QED
    BY <1>1, <1>2, <2>1 DEF IInv, JobInv, TypeOK, Holding, Absent, Done, Matches, threads
<1> QED
  BY <1>1, <1>2, <1>3, <1>4, <1>5 DEF IInv

-----------------------------------------------------------------------------
(***************************************************************************)
(* The invariant.                                                          *)
(***************************************************************************)

LEMMA InitInv == SendInit => IInv
<1> SUFFICES ASSUME SendInit PROVE IInv
  OBVIOUS
<1> USE OppsAssumption, TextsAssumption, UpsetsAssumption, BlindAssumption
<1>1. ApprovalInv
  BY ApprovalInit DEF SendInit
<1>2. ApprovalTypeOK
  BY <1>1 DEF ApprovalInv
<1>3. TypeOK
  BY <1>2 DEF SendInit, TypeOK, Steps
<1>4. OneSender
  BY DEF SendInit, OneSender, Holding
<1>5. ASSUME NEW o \in Opps PROVE CountInv(o)
  <2>1. delivered[o] = 0 /\ blind[o] = 0 /\ texts[o] = {}
    BY DEF SendInit
  <2> QED
    BY <2>1 DEF CountInv
<1>6. \A b \in Browsers : JobInv(b)
  BY DEF SendInit, JobInv, Holding
<1> QED
  BY <1>1, <1>3, <1>4, <1>5, <1>6 DEF IInv

LEMMA StutterKeeps ==
  ASSUME IInv, UNCHANGED vars
  PROVE  IInv'
BY DEF IInv, ApprovalInv, ApprovalTypeOK, CommandInv, TypeOK, OneSender, CountInv, JobInv, vars,
       approvalVars, commands, sendVars, browser, threads

LEMMA NextKeeps ==
  ASSUME IInv, SendNext
  PROVE  IInv'
<1>1. ASSUME NEW b \in Browsers, SendStep(b)
      PROVE  IInv'
  BY <1>1, CheckKeeps, ClaimKeeps, RefuseKeeps, ComposeKeeps, ClickKeeps, ConfirmKeeps,
     MarkSentKeeps, MarkUncertainKeeps, MarkFailedKeeps, LookKeeps, FoundKeeps, AbsentKeeps
     DEF SendStep
<1>2. ASSUME NEW b \in Browsers, BeginPass(b) \/ PageFails(b) \/ JobCrash(b)
      PROVE  IInv'
  BY <1>2, BeginPassKeeps, PageFailsKeeps, JobCrashKeeps
<1>3. ASSUME NEW b \in Browsers, NEW o \in Opps, BeginSend(b, o) \/ BeginReconcile(b, o)
      PROVE  IInv'
  BY <1>3, BeginSendKeeps, BeginReconcileKeeps
<1> QED
  BY <1>1, <1>2, <1>3, ApprovalKeepsSend, FillTargetKeeps DEF SendNext

\* The inductive invariant, from which the properties below follow.
THEOREM Inductive == Spec => []IInv
<1>1. IInv /\ [SendNext]_vars => IInv'
  BY NextKeeps, StutterKeeps
<1> QED
  BY InitInv, <1>1, PTL DEF Spec

\* Every variable keeps its type: a row only ever has a status that the table's
\* CHECK constraint lists.
THEOREM TypeCorrect == Spec => []TypeOK
<1>1. IInv => TypeOK
  BY DEF IInv
<1> QED
  BY Inductive, <1>1, PTL

\* claim_dm_opportunity: "no two workers can hold the same claim", whatever expires,
\* fails or is reconciled meanwhile.
THEOREM ClaimExclusive == Spec => []OneSender
<1>1. IInv => OneSender
  BY DEF IInv
<1> QED
  BY Inductive, <1>1, PTL

\* dm_send.py: what reaches Threads is the approved text, against every edit and
\* every second tap.
THEOREM ApprovedTextOnly == Spec => []OnlyApprovedText
<1>1. IInv => OnlyApprovedText
  BY DEF IInv, CountInv, OnlyApprovedText
<1> QED
  BY Inductive, <1>1, PTL

\* The only way to a duplicate message is a reconciliation that puts the row back
\* while a message exists: crashes, page errors and racing senders make none.
THEOREM ResendNeedsBlindRequeue == Spec => []ResentOnlyBlindly
<1>1. IInv => ResentOnlyBlindly
  BY DEF IInv, CountInv, ResentOnlyBlindly
<1> QED
  BY Inductive, <1>1, PTL

\* No failed, rejected or approved row hides a message that no reconciliation judged.
THEOREM NothingUnrecorded == Spec => []DeliveryOnRecord
<1>1. IInv => DeliveryOnRecord
  <2> SUFFICES ASSUME IInv, NEW o \in Opps, delivered[o] > blind[o]
               PROVE  opp[o].status \in {"sending", "sent", "send_uncertain", "expired"}
    BY DEF DeliveryOnRecord
  <2>1. opp[o].status \in Statuses /\ delivered[o] \in Nat /\ blind[o] \in Nat
    BY DEF IInv, TypeOK, ApprovalTypeOK
  <2>2. ~(opp[o].status \in Undecided \cup {"approved", "failed"})
    BY <2>1 DEF IInv, CountInv
  <2> QED
    BY <2>1, <2>2 DEF Statuses, Active, Undecided
<1> QED
  BY Inductive, <1>1, PTL

-----------------------------------------------------------------------------
(***************************************************************************)
(* The text of an approval was seen, and a row without a card is listed.   *)
(***************************************************************************)

Early == {"absent", "detected", "drafted"}

\* Before it awaits approval nothing of a row was shown, a card that is recorded was, and
\* what was shown includes the draft and the text approved.
RowSeen(p) ==
  /\ opp[p].status \in Early => shown[p] = {}
  /\ opp[p].carded => shown[p] # {}
  /\ p \notin crossed /\ shown[p] # {} => opp[p].draft \in shown[p]
  /\ p \notin crossed /\ opp[p].approved # NoText => opp[p].approved \in shown[p]

\* The card a pass is about to send shows the draft, and a tap that is about to approve
\* holds a text that was shown.
CommandSeen(c) ==
  LET o == at[c] IN
  /\ pc[c] = "await" => opp[o].status \notin {"absent", "detected"}
  /\ pc[c] = "card" => opp[o].status \notin Early
  /\ pc[c] = "card" /\ o \notin crossed => text[c] = opp[o].draft \/ opp[o].draft \in shown[o]
  /\ pc[c] \in {"stamp", "approve"} => shown[o] # {}
  /\ pc[c] = "approve" /\ o \notin crossed => text[c] \in shown[o]

SeenInv == (\A p \in Opps : RowSeen(p)) /\ (\A c \in Commands : CommandSeen(c))

\* How a row may go on under the commands that work on it.
Develops(p) ==
  /\ RowSeen(p)'
  /\ shown[p] \subseteq shown'[p] /\ (p \in crossed => p \in crossed')
  /\ opp[p].status \notin Early => opp'[p].status \notin Early
  /\ opp[p].status \notin {"absent", "detected"} => opp'[p].status \notin {"absent", "detected"}
  /\ opp[p].status \notin Early => opp'[p].draft \in {opp[p].draft} \cup shown'[p]

\* A command stays where it is.
Waits(c) == pc'[c] = pc[c] /\ at'[c] = at[c] /\ text'[c] = text[c]

LEMMA RowStays ==
  ASSUME NEW p \in Opps, RowSeen(p), opp'[p] = opp[p], shown'[p] = shown[p],
         p \in crossed <=> p \in crossed'
  PROVE  Develops(p)
BY DEF RowSeen, Develops

LEMMA CommandStays ==
  ASSUME NEW c \in Commands, CommandSeen(c), Develops(at[c]), Waits(c)
  PROVE  CommandSeen(c)'
<1> DEFINE o == at[c]
<1>1. pc[c] = "card" /\ o \notin crossed' => text[c] = opp'[o].draft \/ opp'[o].draft \in shown'[o]
  BY DEF CommandSeen, Develops
<1>2. pc[c] = "approve" /\ o \notin crossed' => text[c] \in shown'[o]
  BY DEF CommandSeen, Develops
<1>3. pc[c] \in {"stamp", "approve"} => shown'[o] # {}
  BY DEF CommandSeen, Develops
<1>4. /\ pc[c] = "await" => opp'[o].status \notin {"absent", "detected"}
      /\ pc[c] = "card" => opp'[o].status \notin Early
  BY DEF CommandSeen, Develops
<1> QED
  BY <1>1, <1>2, <1>3, <1>4 DEF CommandSeen, Waits

LEMMA SeenTogether ==
  ASSUME ApprovalInv, SeenInv, \A p \in Opps : Develops(p),
         \A c \in Commands : CommandSeen(c)' \/ Waits(c)
  PROVE  SeenInv'
<1>1. \A c \in Commands : at[c] \in Opps
  BY DEF ApprovalInv, ApprovalTypeOK
<1>2. \A c \in Commands : CommandSeen(c)'
  BY <1>1, CommandStays DEF SeenInv
<1>3. \A p \in Opps : RowSeen(p)'
  BY DEF Develops
<1> QED
  BY <1>2, <1>3 DEF SeenInv

\* One row is written.
LEMMA OtherRowsStay ==
  ASSUME ApprovalInv, SeenInv, NEW o \in Opps, NEW row, opp' = [opp EXCEPT ![o] = row],
         NEW p \in Opps, p # o, shown'[p] = shown[p], p \in crossed <=> p \in crossed'
  PROVE  Develops(p)
<1>1. opp'[p] = opp[p]
  BY DEF ApprovalInv, ApprovalTypeOK
<1> QED
  BY <1>1, RowStays DEF SeenInv

LEMMA RowsStay ==
  ASSUME SeenInv, UNCHANGED <<opp, shown, crossed>>
  PROVE  \A p \in Opps : Develops(p)
BY RowStays DEF SeenInv

\* One command goes on.
LEMMA OthersWait ==
  ASSUME ApprovalInv, NEW c \in Commands, NEW next, NEW t, Goto(c, next, t)
  PROVE  /\ \A d \in Commands : d # c => Waits(d)
         /\ pc'[c] = next /\ text'[c] = t /\ at'[c] = at[c]
BY DEF ApprovalInv, ApprovalTypeOK, Goto, Waits

LEMMA OthersWaitStart ==
  ASSUME ApprovalInv, NEW c \in Commands, NEW o \in Opps, NEW next, NEW t, Start(c, o, next, t)
  PROVE  /\ \A d \in Commands : d # c => Waits(d)
         /\ pc'[c] = next /\ text'[c] = t /\ at'[c] = o
BY DEF ApprovalInv, ApprovalTypeOK, Start, Waits

Harmless == {"idle", "draft", "saveDraft", "edit"}
LEMMA HarmlessStep ==
  ASSUME NEW c \in Commands, pc'[c] \in Harmless
  PROVE  CommandSeen(c)'
BY DEF CommandSeen, Harmless

-----------------------------------------------------------------------------

\* Time passes, rows appear and are closed.
LEMMA SeenRows ==
  ASSUME ApprovalInv, SeenInv, NEW o \in Opps, Create(o) \/ PassDeadline(o) \/ Expire(o) \/ Reject(o)
  PROVE  SeenInv'
<1>1. \A c \in Commands : Waits(c)
  BY DEF Create, PassDeadline, Expire, Reject, commands, Waits
<1>2. UNCHANGED <<shown, crossed>>
  BY DEF Create, PassDeadline, Expire, Reject
<1>3. opp \in [Opps -> RowType] /\ Shape(opp[o]) /\ RowSeen(o)
  BY DEF ApprovalInv, ApprovalTypeOK, RowType, SeenInv
<1>4. CASE Create(o)
  <2>1. opp' = [opp EXCEPT ![o] = [NoRow EXCEPT !.status = "detected"]] /\ opp[o].status = "absent"
    BY <1>4 DEF Create, Patch
  <2>2. Develops(o)
    <3>1. /\ opp'[o].status = "detected" /\ opp'[o].approved = NoText /\ ~opp'[o].carded
          /\ shown[o] = {}
      BY <1>3, <2>1 DEF NoRow, RowSeen, Early
    <3> QED
      BY <1>2, <2>1, <3>1 DEF Develops, RowSeen, Early
  <2> QED
    BY <1>1, <1>2, <2>1, <2>2, OtherRowsStay, SeenTogether
<1>5. CASE PassDeadline(o)
  BY <1>1, <1>2, <1>5, RowsStay, SeenTogether DEF PassDeadline
<1>6. ASSUME NEW to \in {"expired", "rejected"}, opp' = [opp EXCEPT ![o] = [opp[o] EXCEPT !.status = to]]
      PROVE  SeenInv'
  <2>1. /\ opp'[o].status = to /\ opp'[o].approved = opp[o].approved
        /\ opp'[o].draft = opp[o].draft /\ opp'[o].carded = opp[o].carded
    BY <1>3, <1>6 DEF RowType
  <2>2. Develops(o)
    BY <1>2, <1>3, <2>1 DEF Develops, RowSeen, Early
  <2> QED
    BY <1>1, <1>2, <1>6, <2>2, OtherRowsStay, SeenTogether
<1>7. CASE Expire(o)
  BY <1>6, <1>7 DEF Expire, Patch
<1>8. CASE Reject(o)
  BY <1>6, <1>8 DEF Reject, Patch
<1> QED
  BY <1>4, <1>5, <1>7, <1>8

\* A pass takes up a row and reads it.
LEMMA SeenBeginCard ==
  ASSUME ApprovalInv, SeenInv, NEW c \in Watchdogs, NEW o \in Opps, BeginCard(c, o)
  PROVE  SeenInv'
<1>1. c \in Commands /\ Start(c, o, "draft", NoText) /\ UNCHANGED <<opp, shown, crossed>>
  BY DEF BeginCard, Commands
<1>2. CommandSeen(c)' /\ \A d \in Commands : d # c => Waits(d)
  BY <1>1, OthersWaitStart, HarmlessStep DEF Harmless
<1> QED
  BY <1>1, <1>2, RowsStay, SeenTogether

LEMMA SeenReadForDraft ==
  ASSUME ApprovalInv, SeenInv, NEW c \in Watchdogs, ReadForDraft(c)
  PROVE  SeenInv'
<1>1. c \in Commands /\ at[c] \in Opps /\ UNCHANGED <<opp, shown, crossed>>
  BY DEF ReadForDraft, Commands, ApprovalInv, ApprovalTypeOK
<1>2. CASE \E t \in Texts : Goto(c, "saveDraft", t)
  <2>1. PICK t \in Texts : Goto(c, "saveDraft", t)
    BY <1>2
  <2>2. CommandSeen(c)' /\ \A d \in Commands : d # c => Waits(d)
    BY <1>1, <2>1, OthersWait, HarmlessStep DEF Harmless
  <2> QED
    BY <1>1, <2>2, RowsStay, SeenTogether
<1>3. CASE Leave(c)
  <2>1. CommandSeen(c)' /\ \A d \in Commands : d # c => Waits(d)
    BY <1>1, <1>3, OthersWait, HarmlessStep DEF Leave, Harmless
  <2> QED
    BY <1>1, <2>1, RowsStay, SeenTogether
<1>4. CASE Matches(at[c], {"awaiting_approval"}) /\ Goto(c, "card", opp[at[c]].draft)
  <2>1. /\ \A d \in Commands : d # c => Waits(d)
        /\ pc'[c] = "card" /\ text'[c] = opp[at[c]].draft /\ at'[c] = at[c]
    BY <1>1, <1>4, OthersWait
  <2>2. CommandSeen(c)'
    BY <1>1, <1>4, <2>1 DEF CommandSeen, Matches, Early
  <2> QED
    BY <1>1, <2>1, <2>2, RowsStay, SeenTogether
<1> QED
  BY <1>2, <1>3, <1>4 DEF ReadForDraft

\* A pass saves its draft: nothing of the row was shown, and no card is under way.
LEMMA SeenSaveDraft ==
  ASSUME ApprovalInv, SeenInv, NEW c \in Watchdogs, SaveDraft(c)
  PROVE  SeenInv'
<1>0. PICK o \in Opps : o = at[c]
  BY DEF ApprovalInv, ApprovalTypeOK, Commands
<1> USE <1>0
<1>1. c \in Commands /\ o \in Opps /\ UNCHANGED <<shown, crossed>>
  BY DEF SaveDraft, Commands, ApprovalInv, ApprovalTypeOK
<1>2. opp \in [Opps -> RowType] /\ Shape(opp[o]) /\ RowSeen(o)
  BY <1>1 DEF ApprovalInv, ApprovalTypeOK, RowType, SeenInv
<1>3. CASE ~Matches(o, {"detected", "drafted"})
  <2>1. Leave(c) /\ UNCHANGED opp
    BY <1>3 DEF SaveDraft
  <2>2. CommandSeen(c)' /\ \A d \in Commands : d # c => Waits(d)
    BY <1>1, <2>1, OthersWait, HarmlessStep DEF Leave, Harmless
  <2> QED
    BY <1>1, <2>1, <2>2, RowsStay, SeenTogether
<1>4. CASE Matches(o, {"detected", "drafted"})
  <2>1. /\ opp' = [opp EXCEPT ![o] = [opp[o] EXCEPT !.status = "drafted", !.draft = text[c]]]
        /\ Goto(c, "await", text[c])
    BY <1>4 DEF SaveDraft, Patch, Matches
  <2>2. /\ opp'[o].status = "drafted" /\ opp'[o].approved = opp[o].approved
        /\ opp'[o].carded = opp[o].carded /\ opp[o].status \in Early
    BY <1>1, <1>2, <1>4, <2>1 DEF RowType, Matches, Early
  <2>3. Develops(o)
    <3>1. shown[o] = {} /\ shown'[o] = {}
      BY <1>1, <1>2, <2>2 DEF RowSeen
    <3>2. RowSeen(o)'
      BY <1>1, <1>2, <2>2, <3>1 DEF RowSeen, Early
    <3> QED
      BY <1>1, <2>2, <3>1, <3>2 DEF Develops
  <2>4. /\ \A d \in Commands : d # c => Waits(d)
        /\ pc'[c] = "await" /\ at'[c] = o
    BY <1>1, <2>1, OthersWait
  <2>5. CommandSeen(c)'
    BY <2>2, <2>4 DEF CommandSeen
  <2>6. \A p \in Opps : Develops(p)
    BY <1>1, <2>1, <2>3, OtherRowsStay
  <2> QED
    BY <2>4, <2>5, <2>6, SeenTogether
<1> QED
  BY <1>3, <1>4

\* A pass moves the row, or finds it moved by another and shows its own text.
LEMMA SeenAwait ==
  ASSUME ApprovalInv, SeenInv, NEW c \in Watchdogs, Await(c)
  PROVE  SeenInv'
<1>0. PICK o \in Opps : o = at[c]
  BY DEF ApprovalInv, ApprovalTypeOK, Commands
<1> USE <1>0
<1>1. c \in Commands /\ o \in Opps /\ UNCHANGED shown /\ pc[c] = "await"
  BY DEF Await, Commands, ApprovalInv, ApprovalTypeOK
<1>2. opp \in [Opps -> RowType] /\ RowSeen(o) /\ CommandSeen(c)
  BY <1>1 DEF ApprovalInv, ApprovalTypeOK, RowType, SeenInv
<1>3. CASE Matches(o, {"drafted"})
  <2>1. /\ opp' = [opp EXCEPT ![o] = [opp[o] EXCEPT !.status = "awaiting_approval"]]
        /\ Goto(c, "card", opp[o].draft) /\ UNCHANGED crossed
    BY <1>3 DEF Await, Patch, Matches
  <2>2. /\ opp'[o].status = "awaiting_approval" /\ opp'[o].approved = opp[o].approved
        /\ opp'[o].carded = opp[o].carded /\ opp'[o].draft = opp[o].draft
    BY <1>1, <1>2, <2>1 DEF RowType
  <2>3. Develops(o)
    BY <1>1, <1>2, <2>1, <2>2 DEF Develops, RowSeen, Early
  <2>4. /\ \A d \in Commands : d # c => Waits(d)
        /\ pc'[c] = "card" /\ at'[c] = o /\ text'[c] = opp[o].draft
    BY <1>1, <2>1, OthersWait
  <2>5. CommandSeen(c)'
    BY <2>2, <2>4 DEF CommandSeen, Early
  <2>6. \A p \in Opps : Develops(p)
    BY <1>1, <2>1, <2>3, OtherRowsStay
  <2> QED
    BY <2>4, <2>5, <2>6, SeenTogether
<1>4. CASE ~Matches(o, {"drafted"})
  <2>1. /\ UNCHANGED opp /\ Goto(c, "card", text[c])
        /\ crossed' = IF text[c] = opp[o].draft THEN crossed ELSE crossed \cup {o}
    BY <1>4 DEF Await, Matches
  <2>2. Develops(o)
    BY <1>1, <1>2, <2>1 DEF Develops, RowSeen
  <2>3. \A p \in Opps : p # o => Develops(p)
    BY <1>1, <2>1, RowStays DEF SeenInv
  <2>4. /\ \A d \in Commands : d # c => Waits(d)
        /\ pc'[c] = "card" /\ at'[c] = o /\ text'[c] = text[c]
    BY <1>1, <2>1, OthersWait
  <2>5. opp[o].status \notin Early
    BY <1>1, <1>2, <1>4 DEF CommandSeen, Matches, Early
  <2>6. CommandSeen(c)'
    BY <2>1, <2>4, <2>5 DEF CommandSeen
  <2>7. \A p \in Opps : Develops(p)
    BY <2>2, <2>3
  <2> QED
    BY <2>4, <2>6, <2>7, SeenTogether
<1> QED
  BY <1>3, <1>4

\* The card shows the text of its pass.
LEMMA SeenSendCard ==
  ASSUME ApprovalInv, SeenInv, NEW c \in Watchdogs, SendCard(c)
  PROVE  SeenInv'
<1>0. PICK o \in Opps : o = at[c]
  BY DEF ApprovalInv, ApprovalTypeOK, Commands
<1> USE <1>0
<1>1. c \in Commands /\ o \in Opps /\ UNCHANGED <<opp, crossed>> /\ pc[c] = "card"
  BY DEF SendCard, Commands, ApprovalInv, ApprovalTypeOK
<1>2. RowSeen(o) /\ CommandSeen(c)
  BY <1>1 DEF SeenInv
<1>3. /\ shown'[o] = shown[o] \cup {text[c]}
      /\ \A p \in Opps : p # o => shown'[p] = shown[p]
  BY <1>1 DEF SendCard, ApprovalInv, ApprovalTypeOK
<1>4. Develops(o)
  <2>1. opp[o].status \notin Early
    BY <1>1, <1>2 DEF CommandSeen
  <2>2. o \notin crossed => opp[o].draft \in shown'[o]
    BY <1>1, <1>2, <1>3 DEF CommandSeen
  <2>3. RowSeen(o)'
    BY <1>1, <1>2, <1>3, <2>1, <2>2 DEF RowSeen
  <2> QED
    BY <1>1, <1>3, <2>1, <2>3 DEF Develops
<1>5. /\ \A d \in Commands : d # c => Waits(d)
      /\ pc'[c] = "stamp" /\ at'[c] = o
  BY <1>1, OthersWait DEF SendCard
<1>6. CommandSeen(c)'
  BY <1>3, <1>5 DEF CommandSeen
<1>7. \A p \in Opps : Develops(p)
  BY <1>1, <1>3, <1>4, RowStays DEF SeenInv
<1> QED
  BY <1>5, <1>6, <1>7, SeenTogether

\* A card that was sent is recorded.
LEMMA SeenStamp ==
  ASSUME ApprovalInv, SeenInv, NEW c \in Watchdogs, Stamp(c)
  PROVE  SeenInv'
<1>0. PICK o \in Opps : o = at[c]
  BY DEF ApprovalInv, ApprovalTypeOK, Commands
<1> USE <1>0
<1>1. c \in Commands /\ o \in Opps /\ UNCHANGED <<shown, crossed>> /\ pc[c] = "stamp" /\ Leave(c)
  BY DEF Stamp, Commands, ApprovalInv, ApprovalTypeOK
<1>2. opp \in [Opps -> RowType] /\ RowSeen(o) /\ shown[o] # {}
  BY <1>1 DEF ApprovalInv, ApprovalTypeOK, RowType, SeenInv, CommandSeen
<1>3. CommandSeen(c)' /\ \A d \in Commands : d # c => Waits(d)
  BY <1>1, OthersWait, HarmlessStep DEF Leave, Harmless
<1>4. CASE Matches(o, {"awaiting_approval"})
  <2>1. opp' = [opp EXCEPT ![o] = [opp[o] EXCEPT !.carded = TRUE]]
    BY <1>4 DEF Stamp, Patch, Matches
  <2>2. /\ opp'[o].status = opp[o].status /\ opp'[o].approved = opp[o].approved
        /\ opp'[o].draft = opp[o].draft
    BY <1>1, <1>2, <2>1 DEF RowType
  <2>3. Develops(o)
    BY <1>1, <1>2, <2>2 DEF Develops, RowSeen
  <2>4. \A p \in Opps : Develops(p)
    BY <1>1, <2>1, <2>3, OtherRowsStay
  <2> QED
    BY <1>3, <2>4, SeenTogether
<1>5. CASE ~Matches(o, {"awaiting_approval"})
  <2>1. UNCHANGED opp
    BY <1>5 DEF Stamp, Matches
  <2> QED
    BY <1>1, <1>3, <2>1, RowsStay, SeenTogether
<1> QED
  BY <1>4, <1>5

\* An approval reads a draft that was shown, and saves what it read.
LEMMA SeenBeginApprove ==
  ASSUME ApprovalInv, SeenInv, NEW c \in Taps, NEW o \in Opps, BeginApprove(c, o)
  PROVE  SeenInv'
<1>1. /\ c \in Commands /\ Start(c, o, "approve", opp[o].draft)
      /\ shown[o] # {} /\ UNCHANGED <<opp, shown, crossed>>
  BY DEF BeginApprove, Commands
<1>2. /\ \A d \in Commands : d # c => Waits(d)
      /\ pc'[c] = "approve" /\ at'[c] = o /\ text'[c] = opp[o].draft
  BY <1>1, OthersWaitStart
<1>3. CommandSeen(c)'
  BY <1>1, <1>2 DEF CommandSeen, SeenInv, RowSeen
<1> QED
  BY <1>1, <1>2, <1>3, RowsStay, SeenTogether

LEMMA SeenSaveApproval ==
  ASSUME ApprovalInv, SeenInv, NEW c \in Taps, SaveApproval(c)
  PROVE  SeenInv'
<1>0. PICK o \in Opps : o = at[c]
  BY DEF ApprovalInv, ApprovalTypeOK, Commands
<1> USE <1>0
<1>1. c \in Commands /\ o \in Opps /\ UNCHANGED <<shown, crossed>> /\ pc[c] = "approve" /\ Leave(c)
  BY DEF SaveApproval, Commands, ApprovalInv, ApprovalTypeOK
<1>2. opp \in [Opps -> RowType] /\ RowSeen(o) /\ (o \notin crossed => text[c] \in shown[o])
  BY <1>1 DEF ApprovalInv, ApprovalTypeOK, RowType, SeenInv, CommandSeen
<1>3. CommandSeen(c)' /\ \A d \in Commands : d # c => Waits(d)
  BY <1>1, OthersWait, HarmlessStep DEF Leave, Harmless
<1>4. CASE Matches(o, {"awaiting_approval"})
  <2>1. opp' = [opp EXCEPT ![o] = [opp[o] EXCEPT !.status = "approved", !.approved = text[c]]]
    BY <1>4 DEF SaveApproval, Patch, Matches
  <2>2. /\ opp'[o].status = "approved" /\ opp'[o].approved = text[c]
        /\ opp'[o].draft = opp[o].draft /\ opp'[o].carded = opp[o].carded
    BY <1>1, <1>2, <2>1 DEF RowType
  <2>3. Develops(o)
    BY <1>1, <1>2, <2>2 DEF Develops, RowSeen, Early
  <2>4. \A p \in Opps : Develops(p)
    BY <1>1, <2>1, <2>3, OtherRowsStay
  <2> QED
    BY <1>3, <2>4, SeenTogether
<1>5. CASE ~Matches(o, {"awaiting_approval"})
  <2>1. UNCHANGED opp
    BY <1>5 DEF SaveApproval, Matches
  <2> QED
    BY <1>1, <1>3, <2>1, RowsStay, SeenTogether
<1> QED
  BY <1>4, <1>5

\* An edit shows what it saves.
LEMMA SeenBeginEdit ==
  ASSUME ApprovalInv, SeenInv, NEW c \in Taps, NEW o \in Opps, NEW t \in Texts, BeginEdit(c, o, t)
  PROVE  SeenInv'
<1>1. c \in Commands /\ Start(c, o, "edit", t) /\ UNCHANGED <<opp, shown, crossed>>
  BY DEF BeginEdit, Commands
<1>2. CommandSeen(c)' /\ \A d \in Commands : d # c => Waits(d)
  BY <1>1, OthersWaitStart, HarmlessStep DEF Harmless
<1> QED
  BY <1>1, <1>2, RowsStay, SeenTogether

LEMMA SeenSaveEdit ==
  ASSUME ApprovalInv, SeenInv, NEW c \in Taps, SaveEdit(c)
  PROVE  SeenInv'
<1>0. PICK o \in Opps : o = at[c]
  BY DEF ApprovalInv, ApprovalTypeOK, Commands
<1> USE <1>0
<1>1. c \in Commands /\ o \in Opps /\ UNCHANGED crossed /\ Leave(c)
  BY DEF SaveEdit, Commands, ApprovalInv, ApprovalTypeOK
<1>2. opp \in [Opps -> RowType] /\ RowSeen(o)
  BY <1>1 DEF ApprovalInv, ApprovalTypeOK, RowType, SeenInv
<1>3. CommandSeen(c)' /\ \A d \in Commands : d # c => Waits(d)
  BY <1>1, OthersWait, HarmlessStep DEF Leave, Harmless
<1>4. CASE Matches(o, {"awaiting_approval"})
  <2>1. /\ opp' = [opp EXCEPT ![o] = [opp[o] EXCEPT !.draft = text[c]]]
        /\ shown' = [shown EXCEPT ![o] = @ \cup {text[c]}]
    BY <1>4 DEF SaveEdit, Patch, Matches
  <2>2. /\ opp'[o].status = opp[o].status /\ opp'[o].approved = opp[o].approved
        /\ opp'[o].draft = text[c] /\ opp'[o].carded = opp[o].carded
        /\ shown'[o] = shown[o] \cup {text[c]}
        /\ \A p \in Opps : p # o => shown'[p] = shown[p]
    BY <1>1, <1>2, <2>1 DEF RowType, ApprovalInv, ApprovalTypeOK
  <2>3. opp[o].status \notin Early
    BY <1>4 DEF Matches, Early
  <2>4. RowSeen(o)'
    BY <1>1, <1>2, <2>2, <2>3 DEF RowSeen
  <2>5. Develops(o)
    BY <1>1, <2>2, <2>3, <2>4 DEF Develops, Early
  <2>6. \A p \in Opps : Develops(p)
    BY <1>1, <2>1, <2>2, <2>5, OtherRowsStay
  <2> QED
    BY <1>3, <2>6, SeenTogether
<1>5. CASE ~Matches(o, {"awaiting_approval"})
  <2>1. UNCHANGED <<opp, shown>>
    BY <1>5 DEF SaveEdit, Matches
  <2> QED
    BY <1>1, <1>3, <2>1, RowsStay, SeenTogether
<1> QED
  BY <1>4, <1>5

LEMMA SeenCrash ==
  ASSUME ApprovalInv, SeenInv, NEW c \in Commands, Crash(c)
  PROVE  SeenInv'
<1>1. Leave(c) /\ UNCHANGED <<opp, shown, crossed>>
  BY DEF Crash
<1>2. CommandSeen(c)' /\ \A d \in Commands : d # c => Waits(d)
  BY <1>1, OthersWait, HarmlessStep DEF Leave, Harmless
<1> QED
  BY <1>1, <1>2, RowsStay, SeenTogether

LEMMA SeenApprovalStep ==
  ASSUME ApprovalInv, SeenInv, ApprovalNext
  PROVE  SeenInv'
<1>1. ASSUME NEW w \in Watchdogs, PassStep(w) \/ \E o \in Opps : BeginCard(w, o)
      PROVE  SeenInv'
  BY <1>1, SeenBeginCard, SeenReadForDraft, SeenSaveDraft, SeenAwait, SeenSendCard, SeenStamp
     DEF PassStep
<1>2. ASSUME NEW c \in Taps,
             \/ TapStep(c)
             \/ \E o \in Opps : BeginApprove(c, o) \/ \E t \in Texts : BeginEdit(c, o, t)
      PROVE  SeenInv'
  BY <1>2, SeenBeginApprove, SeenSaveApproval, SeenBeginEdit, SeenSaveEdit DEF TapStep
<1> QED
  BY <1>1, <1>2, SeenRows, SeenCrash DEF ApprovalNext

LEMMA SeenInit == Init => SeenInv
<1> SUFFICES ASSUME Init PROVE SeenInv
  OBVIOUS
<1>1. /\ \A o \in Opps : opp[o] = NoRow /\ shown[o] = {}
      /\ \A c \in Commands : pc[c] = "idle"
  BY DEF Init
<1>2. NoRow.approved = NoText /\ ~NoRow.carded
  BY DEF NoRow
<1> QED
  BY <1>1, <1>2 DEF SeenInv, RowSeen, CommandSeen

\* What a person approves is a text that a person has seen, on the card or typed, for any
\* number of overlapping approval passes: mark_dm_awaiting_approval's card shows the draft
\* that an approval takes, unless two passes crossed on the row.
THEOREM ApprovedTextWasSeen == ApprovalSpec => []ApprovedWasSeen
<1>1. ApprovalInv /\ SeenInv /\ [ApprovalNext]_ApprovalVars => ApprovalInv' /\ SeenInv'
  <2> SUFFICES ASSUME ApprovalInv, SeenInv, [ApprovalNext]_ApprovalVars
               PROVE  ApprovalInv' /\ SeenInv'
    OBVIOUS
  <2>1. CASE ApprovalNext
    BY <2>1, ApprovalStep, SeenApprovalStep
  <2>2. CASE UNCHANGED ApprovalVars
    <3>1. ApprovalInv'
      BY <2>2 DEF ApprovalVars, approvalVars, commands, ApprovalInv, ApprovalTypeOK, CommandInv
    <3>2. SeenInv'
      BY <2>2 DEF ApprovalVars, approvalVars, commands, SeenInv, RowSeen, CommandSeen
    <3> QED
      BY <3>1, <3>2
  <2> QED
    BY <2>1, <2>2
<1>2. SeenInv => ApprovedWasSeen
  BY DEF SeenInv, RowSeen, ApprovedWasSeen
<1> QED
  BY ApprovalInit, SeenInit, <1>1, <1>2, PTL DEF ApprovalSpec

\* A browser job moves decided rows only, and shows nobody anything.
Late ==
  /\ Apart
  /\ \A p \in Opps :
       \/ opp'[p] = opp[p]
       \/ /\ opp[p].status \in Decided /\ opp'[p].status \in Decided
          /\ opp'[p] = [opp[p] EXCEPT !.status = opp'[p].status]

LEMMA LateKeepsSeen ==
  ASSUME ApprovalInv, SeenInv, Late
  PROVE  SeenInv'
<1>1. \A c \in Commands : Waits(c)
  BY DEF Late, Apart, commands, Waits
<1>2. ASSUME NEW p \in Opps PROVE Develops(p)
  <2>1. opp[p] \in RowType /\ RowSeen(p) /\ UNCHANGED <<shown, crossed>>
    BY DEF ApprovalInv, ApprovalTypeOK, RowType, SeenInv, Late, Apart
  <2>2. CASE opp'[p] = opp[p]
    BY <2>1, <2>2, RowStays
  <2>3. CASE /\ opp[p].status \in Decided /\ opp'[p].status \in Decided
             /\ opp'[p] = [opp[p] EXCEPT !.status = opp'[p].status]
    <3>1. /\ opp'[p].approved = opp[p].approved /\ opp'[p].draft = opp[p].draft
          /\ opp'[p].carded = opp[p].carded
      BY <2>1, <2>3 DEF RowType
    <3>2. opp[p].status \notin Early /\ opp'[p].status \notin Early
      BY <2>3 DEF Decided, Early
    <3> QED
      BY <2>1, <3>1, <3>2 DEF Develops, RowSeen, Early
  <2> QED
    BY <2>2, <2>3 DEF Late
<1> QED
  BY <1>1, <1>2, SeenTogether

LEMMA LateSwap ==
  ASSUME IInv, NEW o \in Opps, NEW from \in SUBSET Decided, NEW to \in Decided,
         Swap(o, from, to), Apart
  PROVE  Late
<1>1. opp \in [Opps -> RowType]
  BY DEF IInv, ApprovalInv, ApprovalTypeOK, RowType
<1>2. CASE Matches(o, from)
  <2>1. opp' = [opp EXCEPT ![o] = [opp[o] EXCEPT !.status = to]]
    BY <1>2 DEF Swap, Patch
  <2>2. /\ opp'[o] = [opp[o] EXCEPT !.status = to] /\ opp'[o].status = to
        /\ opp[o].status \in Decided
        /\ \A p \in Opps : p # o => opp'[p] = opp[p]
    BY <1>1, <1>2, <2>1 DEF RowType, Matches
  <2>3. opp'[o] = [opp[o] EXCEPT !.status = opp'[o].status]
    BY <2>2
  <2> QED
    BY <2>2, <2>3 DEF Late
<1>3. CASE ~Matches(o, from)
  BY <1>3 DEF Swap, Late
<1> QED
  BY <1>2, <1>3

LEMMA LateJob ==
  ASSUME IInv, NEW b \in Browsers, SendStep(b)
  PROVE  Late
<1>1. job[b] \in Opps
  BY DEF IInv, TypeOK
<1>2. CASE Check(b) \/ Refuse(b) \/ Compose(b) \/ Click(b) \/ Confirm(b) \/ Look(b)
  BY <1>2 DEF Check, Refuse, Compose, Click, Confirm, Look, Late
<1>3. CASE Claim(b)
  <2>1. Swap(job[b], {"approved"}, "sending") /\ Apart
    BY <1>3 DEF Claim, Claimable, Swap
  <2> QED
    BY <1>1, <2>1, LateSwap DEF Decided
<1>4. CASE MarkSent(b)
  BY <1>1, <1>4, LateSwap DEF MarkSent, Decided
<1>5. CASE MarkUncertain(b)
  BY <1>1, <1>5, LateSwap DEF MarkUncertain, Uncertain, Decided
<1>6. CASE MarkFailed(b)
  BY <1>1, <1>6, LateSwap DEF MarkFailed, Decided
<1>7. CASE Found(b)
  BY <1>1, <1>7, LateSwap DEF Found, Decided
<1>8. CASE Absent(b)
  BY <1>1, <1>8, LateSwap DEF Absent, Decided
<1> QED
  BY <1>2, <1>3, <1>4, <1>5, <1>6, <1>7, <1>8 DEF SendStep

LEMMA SeenSendStep ==
  ASSUME IInv, SeenInv, [SendNext]_vars
  PROVE  SeenInv'
<1>0. ApprovalInv
  BY DEF IInv
<1>1. CASE ApprovalNext
  BY <1>0, <1>1, SeenApprovalStep
<1>2. ASSUME NEW b \in Browsers, SendStep(b)
      PROVE  SeenInv'
  BY <1>0, <1>2, LateJob, LateKeepsSeen
<1>3. ASSUME NEW b \in Browsers,
             BeginPass(b) \/ PageFails(b) \/ JobCrash(b)
               \/ \E o \in Opps : BeginSend(b, o) \/ BeginReconcile(b, o)
      PROVE  SeenInv'
  <2>1. Late
    BY <1>3 DEF BeginPass, PageFails, JobCrash, BeginSend, BeginReconcile, Late
  <2> QED
    BY <1>0, <2>1, LateKeepsSeen
<1>4. ASSUME NEW o \in Opps, FillTarget(o)
      PROVE  SeenInv'
  <2>1. Late
    BY <1>4 DEF FillTarget, Late
  <2> QED
    BY <1>0, <2>1, LateKeepsSeen
<1>5. CASE UNCHANGED vars
  <2>1. Late
    BY <1>5 DEF vars, approvalVars, Late, Apart
  <2> QED
    BY <1>0, <2>1, LateKeepsSeen
<1> QED
  BY <1>1, <1>2, <1>3, <1>4, <1>5 DEF SendNext

LEMMA SeenInvariance == Spec => []SeenInv
<1>1. IInv /\ SeenInv /\ [SendNext]_vars => SeenInv'
  BY SeenSendStep
<1>2. SendInit => SeenInv
  BY SeenInit DEF SendInit
<1> QED
  BY Inductive, <1>1, <1>2, PTL DEF Spec

\* The same beside the browser jobs, and its consequence from end to end: every message on
\* Threads is a text that a person has seen for that opportunity, unless two approval
\* passes crossed on it.
SentWasSeen == \A o \in Opps : texts[o] \subseteq shown[o] \/ o \in crossed

THEOREM SentTextWasSeen == Spec => [](ApprovedWasSeen /\ SentWasSeen)
<1>1. IInv /\ SeenInv => ApprovedWasSeen /\ SentWasSeen
  BY DEF IInv, CountInv, SeenInv, RowSeen, ApprovedWasSeen, SentWasSeen
<1> QED
  BY Inductive, SeenInvariance, <1>1, PTL

\* run_dm_approval_pass: a row that waits and of which nobody was shown a card is in the
\* list of the next pass, for any number of passes and wherever they died.
THEOREM UncardedListed == Spec => []UncardedIsListed
<1>1. SeenInv => UncardedIsListed
  BY DEF SeenInv, RowSeen, UncardedIsListed, NeedsCard, Waiting
<1> QED
  BY SeenInvariance, <1>1, PTL

-----------------------------------------------------------------------------
(***************************************************************************)
(* DmSend implements DmAuthority.                                          *)
(***************************************************************************)


\* What the abstract state holds of one opportunity stays, or changes.
Rest(o) == opp'[o].approved = opp[o].approved /\ delivered'[o] = delivered[o]
Same(o) == AuthOf(o)' = AuthOf(o) /\ Rest(o)
Granted(o) ==
  /\ AuthOf(o) = "none" /\ AuthOf(o)' = "granted"
  /\ opp'[o].approved \in Texts /\ delivered'[o] = delivered[o]
Delivered(o) ==
  /\ AuthOf(o) = "armed" /\ AuthOf(o)' = "spent"
  /\ opp'[o].approved = opp[o].approved /\ delivered'[o] = delivered[o] + 1
Turned(o) ==
  /\ Rest(o)
  /\ \/ AuthOf(o) = "granted" /\ AuthOf(o)' = "armed"
     \/ AuthOf(o) \in {"granted", "armed"} /\ AuthOf(o)' = "spent"
     \/ AuthOf(o) = "spent" /\ AuthOf(o)' = "granted"
Moved(o) == Same(o) \/ Granted(o) \/ Delivered(o) \/ Turned(o)

Auth == [o \in Opps |-> AuthOf(o)]
Words == [o \in Opps |-> opp[o].approved]

\* One opportunity changes, as one action of DmAuthority changes it.
LEMMA OneMoved ==
  ASSUME TypeOK, TypeOK', NEW o \in Opps, Moved(o), \A p \in Opps : p # o => Same(p)
  PROVE  [Authority!ANext]_(Authority!avars)
<1>1. delivered \in [Opps -> Nat] /\ delivered' \in [Opps -> Nat]
  BY DEF TypeOK
<1>2. CASE Same(o)
  <2>1. Auth' = Auth /\ Words' = Words /\ delivered' = delivered
    BY <1>1, <1>2 DEF Same, Rest, Auth, Words
  <2> QED
    BY <2>1 DEF Authority!avars, Auth, Words
<1>3. CASE Granted(o)
  <2>1. Auth[o] = "none" /\ Auth' = [Auth EXCEPT ![o] = "granted"]
    BY <1>3 DEF Same, Granted, Auth
  <2>2. delivered' = delivered
    BY <1>1, <1>3 DEF Same, Rest, Granted
  <2>3. PICK t \in Texts : t = opp'[o].approved
    BY <1>3 DEF Granted
  <2>4. Words' = [Words EXCEPT ![o] = t]
    BY <1>3, <2>3 DEF Same, Rest, Words
  <2>5. Authority!Grant(o, t)
    BY <2>1, <2>2, <2>4 DEF Authority!Grant, Auth, Words
  <2> QED
    BY <2>5 DEF Authority!ANext
<1>4. CASE Delivered(o)
  <2>1. /\ Auth[o] = "armed" /\ Auth' = [Auth EXCEPT ![o] = "spent"]
        /\ delivered' = [delivered EXCEPT ![o] = @ + 1]
        /\ Words' = Words
    BY <1>1, <1>4 DEF Same, Rest, Delivered, Auth, Words
  <2>2. Authority!Deliver(o)
    BY <2>1 DEF Authority!Deliver, Auth, Words
  <2> QED
    BY <2>2 DEF Authority!ANext
<1>5. CASE Turned(o)
  <2>1. delivered' = delivered /\ Words' = Words
    BY <1>1, <1>5 DEF Same, Rest, Turned, Words
  <2>2. Auth' = [Auth EXCEPT ![o] = AuthOf(o)'] /\ Auth[o] = AuthOf(o)
    BY <1>5 DEF Same, Auth
  <2>3. CASE AuthOf(o) = "granted" /\ AuthOf(o)' = "armed"
    BY <2>1, <2>2, <2>3 DEF Authority!ANext, Authority!Arm, Auth, Words
  <2>4. CASE AuthOf(o) \in {"granted", "armed"} /\ AuthOf(o)' = "spent"
    BY <2>1, <2>2, <2>4 DEF Authority!ANext, Authority!Lapse, Auth, Words
  <2>5. CASE AuthOf(o) = "spent" /\ AuthOf(o)' = "granted"
    BY <2>1, <2>2, <2>5 DEF Authority!ANext, Authority!Renew, Auth, Words
  <2> QED
    BY <1>5, <2>3, <2>4, <2>5 DEF Turned
<1> QED
  BY <1>2, <1>3, <1>4, <1>5 DEF Moved

\* Of a row that no job is armed for, the status tells.
LEMMA Unarmed ==
  ASSUME NEW o \in Opps, \A b \in Browsers : ~Armed(b, o)
  PROVE  AuthOf(o) = IF opp[o].approved = NoText THEN "none"
                     ELSE IF opp[o].status = "approved" THEN "granted" ELSE "spent"
BY DEF AuthOf

\* Jobs, row and messages stay.
LEMMA Untouched ==
  ASSUME NEW p \in Opps, opp'[p] = opp[p], delivered'[p] = delivered[p],
         \A b \in Browsers : Armed(b, p)' <=> Armed(b, p)
  PROVE  Same(p)
BY DEF Same, Rest, AuthOf

\* A job that is armed is alone with its row.
LEMMA ArmedAlone ==
  ASSUME IInv, NEW b \in Browsers, step[b] \in Holding
  PROVE  \A c \in Browsers : c # b => ~Armed(c, job[b])
BY DEF IInv, OneSender, Armed, Holding

\* A step of the approval flow concerns one row.
LEMMA OneRow ==
  ASSUME ApprovalInv, ApprovalNext
  PROVE  \E o \in Opps : \A p \in Opps : p # o => opp'[p] = opp[p]
<1>1. /\ opp \in [Opps -> RowType] /\ at \in [Commands -> Opps]
      /\ Watchdogs \subseteq Commands /\ Taps \subseteq Commands /\ \E o \in Opps : TRUE
  BY OppsAssumption DEF ApprovalInv, ApprovalTypeOK, RowType, Commands
<1>2. ASSUME NEW o \in Opps, Create(o) \/ PassDeadline(o) \/ Expire(o) \/ Reject(o)
      PROVE  \A p \in Opps : p # o => opp'[p] = opp[p]
  BY <1>1, <1>2 DEF Create, PassDeadline, Expire, Reject, Patch
<1>3. ASSUME NEW w \in Watchdogs, PassStep(w) \/ \E o \in Opps : BeginCard(w, o)
      PROVE  \A p \in Opps : p # at[w] => opp'[p] = opp[p]
  BY <1>1, <1>3 DEF PassStep, ReadForDraft, SaveDraft, Await, SendCard, Stamp, BeginCard, Patch
<1>4. ASSUME NEW c \in Taps,
             \/ TapStep(c)
             \/ \E o \in Opps : BeginApprove(c, o) \/ \E t \in Texts : BeginEdit(c, o, t)
      PROVE  \A p \in Opps : p # at[c] => opp'[p] = opp[p]
  BY <1>1, <1>4 DEF TapStep, SaveApproval, SaveEdit, BeginApprove, BeginEdit, Patch
<1>5. ASSUME NEW c \in Commands, Crash(c)
      PROVE  UNCHANGED opp
  BY <1>5 DEF Crash
<1>6. CASE \E o \in Opps : Create(o) \/ PassDeadline(o) \/ Expire(o) \/ Reject(o)
  BY <1>2, <1>6
<1>7. CASE \E w \in Watchdogs : PassStep(w) \/ \E o \in Opps : BeginCard(w, o)
  BY <1>1, <1>3, <1>7
<1>8. CASE \E c \in Taps : TapStep(c) \/ \E o \in Opps : BeginApprove(c, o) \/ \E t \in Texts : BeginEdit(c, o, t)
  BY <1>1, <1>4, <1>8
<1>9. CASE \E c \in Commands : Crash(c)
  BY <1>1, <1>5, <1>9
<1> QED
  BY <1>6, <1>7, <1>8, <1>9 DEF ApprovalNext

\* What an approval step does to the authority of a row: an approval grants it,
\* an expiry may end it.
LEMMA ApprovalMoves ==
  ASSUME IInv, NEW o \in Opps, Turn(opp[o], opp'[o]), UNCHANGED sendVars
  PROVE  Moved(o)
<1>1. /\ Shape(opp[o]) /\ delivered'[o] = delivered[o]
      /\ \A b \in Browsers : Armed(b, o)' <=> Armed(b, o)
      /\ \A b \in Browsers : Armed(b, o) => opp[o].status \in {"sending", "expired"}
  BY DEF IInv, ApprovalInv, JobInv, Armed, Holding, sendVars, browser, threads
<1>2. CASE opp'[o] = opp[o]
  BY <1>1, <1>2, Untouched DEF Moved
<1>3. CASE /\ opp[o].status \in Undecided /\ opp'[o].status \in Undecided
           /\ opp'[o].approved = opp[o].approved
  BY <1>1, <1>3 DEF Moved, Same, Rest, Shape, AuthOf
<1>4. CASE /\ opp[o].status = "awaiting_approval" /\ opp'[o].status = "approved"
           /\ opp'[o].approved \in Texts
  <2>1. AuthOf(o) = "none"
    BY <1>1, <1>4 DEF AuthOf, Shape, Undecided, Waiting
  <2>2. \A b \in Browsers : ~Armed(b, o)'
    BY <1>1, <1>4
  <2>3. AuthOf(o)' = "granted"
    BY <2>2, <1>4, TextsAssumption DEF AuthOf
  <2> QED
    BY <1>1, <1>4, <2>1, <2>3 DEF Moved, Granted
<1>5. CASE /\ opp[o].status \in Active /\ opp'[o].status = "expired"
           /\ opp'[o].approved = opp[o].approved
  <2>1. CASE opp[o].approved = NoText
    BY <1>1, <1>5, <2>1 DEF Moved, Same, Rest, AuthOf
  <2>2. CASE opp[o].approved # NoText /\ \E b \in Browsers : Armed(b, o)
    BY <1>1, <1>5, <2>2 DEF Moved, Same, Rest, AuthOf
  <2>3. CASE opp[o].approved # NoText /\ ~\E b \in Browsers : Armed(b, o)
    BY <1>1, <1>5, <2>3 DEF Moved, Same, Turned, Rest, AuthOf
  <2> QED
    BY <2>1, <2>2, <2>3
<1> QED
  BY <1>2, <1>3, <1>4, <1>5 DEF Turn

\* A swap writes the row's status, or nothing.
LEMMA Written ==
  ASSUME NEW o \in Opps, NEW from, NEW to, opp \in [Opps -> RowType], Swap(o, from, to)
  PROVE  /\ \A p \in Opps : p # o => opp'[p] = opp[p]
         /\ opp'[o].approved = opp[o].approved
         /\ opp[o].status \in from => opp'[o].status = to
         /\ opp[o].status \notin from => opp'[o].status = opp[o].status
BY DEF Swap, Matches, Patch, RowType

-----------------------------------------------------------------------------
(***************************************************************************)
(* The browser jobs, by what they do to the row they work on.              *)
(***************************************************************************)

\* Of the other rows nothing changes.
LEMMA OthersSame ==
  ASSUME NEW b \in Browsers, NEW o \in Opps, NEW p \in Opps, p # o,
         opp'[p] = opp[p], delivered'[p] = delivered[p],
         ~Armed(b, p), ~Armed(b, p)',
         \A c \in Browsers : c # b => step'[c] = step[c] /\ job'[c] = job[c]
  PROVE  Same(p)
BY Untouched DEF Armed

\* A job that does not hold its row, before or after, changes nothing; nor does a
\* job that goes on armed, or goes on disarmed.
LEMMA JobIdles ==
  ASSUME IInv, IInv', UNCHANGED <<opp, delivered>>, NEW b \in Browsers,
         \A c \in Browsers : c # b => step'[c] = step[c] /\ job'[c] = job[c],
         \/ step[b] \notin {"prepare", "click"} /\ step'[b] \notin {"prepare", "click"}
         \/ step[b] = "prepare" /\ step'[b] = "click" /\ job'[b] = job[b]
  PROVE  [Authority!ANext]_(Authority!avars)
<1>1. \A p \in Opps : Same(p)
  BY Untouched DEF Armed
<1>2. PICK o \in Opps : TRUE
  BY OppsAssumption
<1> QED
  BY <1>1, <1>2, OneMoved DEF Moved, IInv

\* A job leaves its hold before Enter, at Enter or with the message sent.
LEMMA JobDisarms ==
  ASSUME IInv, IInv', UNCHANGED opp, NEW b \in Browsers, NEW o \in Opps, job[b] = o,
         step[b] \in {"prepare", "click"}, step'[b] \notin {"prepare", "click"},
         \A c \in Browsers : c # b => step'[c] = step[c] /\ job'[c] = job[c],
         \/ UNCHANGED delivered
         \/ delivered' = [delivered EXCEPT ![o] = @ + 1]
  PROVE  [Authority!ANext]_(Authority!avars)
<1>1. /\ o \in Opps /\ opp[o].approved \in Texts /\ opp[o].status \in {"sending", "expired"}
      /\ delivered \in [Opps -> Nat]
  BY DEF IInv, TypeOK, JobInv, Holding
<1>2. AuthOf(o) = "armed"
  BY <1>1, TextsAssumption DEF AuthOf, Armed
<1>3. \A c \in Browsers : ~Armed(c, o)'
  BY ArmedAlone DEF Armed, Holding
<1>4. AuthOf(o)' = "spent"
  BY <1>1, <1>3, TextsAssumption DEF AuthOf
<1>5. Moved(o)
  BY <1>1, <1>2, <1>4 DEF Moved, Turned, Delivered, Rest
<1>6. \A p \in Opps : p # o => Same(p)
  BY <1>1, OthersSame DEF Armed
<1> QED
  BY <1>1, <1>5, <1>6, OneMoved DEF IInv

\* A row that no job is armed for moves from one decided status to another.
LEMMA JobRecords ==
  ASSUME IInv, IInv', UNCHANGED delivered, NEW b \in Browsers, NEW o \in Opps, job[b] = o,
         step[b] \notin {"prepare", "click"}, step'[b] \notin {"prepare", "click"},
         \A c \in Browsers : c # b => step'[c] = step[c] /\ job'[c] = job[c],
         \A p \in Opps : p # o => opp'[p] = opp[p],
         opp'[o].approved = opp[o].approved,
         \/ opp'[o].status = opp[o].status
         \/ opp[o].status # "approved" /\ opp'[o].status # "approved"
         \/ opp[o].status = "send_uncertain" /\ opp'[o].status = "approved"
  PROVE  [Authority!ANext]_(Authority!avars)
<1>1. o \in Opps /\ \A c \in Browsers : Armed(c, o)' <=> Armed(c, o)
  BY DEF IInv, TypeOK, Armed
<1>2. \A c \in Browsers : Armed(c, o) => opp[o].status \in {"sending", "expired"}
  BY DEF IInv, JobInv, Armed, Holding
<1>3. Moved(o)
  <2>1. CASE opp'[o].status = opp[o].status
    BY <1>1, <2>1 DEF Moved, Same, Rest, AuthOf
  <2>2. CASE opp[o].status # "approved" /\ opp'[o].status # "approved"
    BY <1>1, <2>2 DEF Moved, Same, Rest, AuthOf
  <2>3. CASE opp[o].status = "send_uncertain" /\ opp'[o].status = "approved"
    <3>1. \A c \in Browsers : ~Armed(c, o) /\ ~Armed(c, o)'
      BY <1>1, <1>2, <2>3
    <3> QED
      BY <3>1, <2>3 DEF Moved, Same, Turned, Rest, AuthOf
  <2> QED
    BY <2>1, <2>2, <2>3
<1>4. \A p \in Opps : p # o => Same(p)
  BY <1>1, OthersSame DEF Armed
<1> QED
  BY <1>1, <1>3, <1>4, OneMoved DEF IInv

\* A claim arms the authority that the approval granted.
LEMMA JobClaims ==
  ASSUME IInv, IInv', NEW b \in Browsers, Claim(b)
  PROVE  [Authority!ANext]_(Authority!avars)
<1> DEFINE o == job[b]
<1>1. o \in Opps /\ opp[o].approved \in Texts /\ opp \in [Opps -> RowType]
  BY DEF IInv, TypeOK, ApprovalTypeOK, RowType, JobInv, Claim
<1>2. CASE Matches(o, Claimable)
  <2>1. /\ opp[o].status = "approved" /\ UNCHANGED <<delivered, job>>
        /\ opp' = [opp EXCEPT ![o] = [opp[o] EXCEPT !.status = "sending"]]
        /\ step' = [step EXCEPT ![b] = "prepare"]
    BY <1>2 DEF Claim, Matches, Claimable, Patch, Move, threads, Done
  <2>2. \A c \in Browsers : ~Armed(c, o)
    BY <2>1 DEF IInv, JobInv, Armed, Holding
  <2>3. AuthOf(o) = "granted"
    BY <1>1, <2>1, <2>2, TextsAssumption DEF AuthOf
  <2>4. step'[b] = "prepare" /\ opp'[o].approved = opp[o].approved /\ step \in [Browsers -> Steps]
    BY <1>1, <2>1 DEF IInv, TypeOK, RowType
  <2>5. AuthOf(o)' = "armed"
    BY <1>1, <2>1, <2>4, TextsAssumption DEF AuthOf, Armed
  <2>6. Moved(o)
    BY <2>1, <2>3, <2>4, <2>5 DEF Moved, Turned, Rest
  <2>7. \A p \in Opps : p # o => Same(p)
    <3> SUFFICES ASSUME NEW p \in Opps, p # o PROVE Same(p)
      OBVIOUS
    <3>1. opp'[p] = opp[p] /\ delivered'[p] = delivered[p] /\ ~Armed(b, p) /\ ~Armed(b, p)'
      BY <1>1, <2>1 DEF Armed
    <3>2. \A c \in Browsers : c # b => step'[c] = step[c] /\ job'[c] = job[c]
      BY <2>1, <2>4
    <3> QED
      BY <1>1, <3>1, <3>2, OthersSame
  <2> HIDE DEF o
  <2> QED
    BY <1>1, <2>6, <2>7, OneMoved DEF IInv
<1>3. CASE ~Matches(o, Claimable)
  BY <1>3, JobIdles DEF Claim, Done, threads, IInv, TypeOK
<1> QED
  BY <1>2, <1>3

\* Every step of a job is one of these.
LEMMA JobMoves ==
  ASSUME IInv, IInv', NEW b \in Browsers,
         SendStep(b) \/ BeginPass(b) \/ PageFails(b) \/ JobCrash(b)
  PROVE  [Authority!ANext]_(Authority!avars)
<1>1. /\ step \in [Browsers -> Steps] /\ job \in [Browsers -> Opps]
      /\ opp \in [Opps -> RowType] /\ delivered \in [Opps -> Nat]
  BY DEF IInv, TypeOK, ApprovalTypeOK, RowType
<1>2. CASE BeginPass(b)
  BY <1>1, <1>2, JobIdles DEF BeginPass, Engage, threads
<1>3. CASE Check(b)
  BY <1>1, <1>3, JobIdles DEF Check, Done, threads
<1>4. CASE Claim(b)
  BY <1>4, JobClaims
<1>5. CASE Refuse(b)
  <2>1. step[b] = "prepare" /\ step'[b] = "markFailed" /\ UNCHANGED <<opp, delivered>>
    BY <1>1, <1>5 DEF Refuse, Move, threads
  <2>2. \A c \in Browsers : c # b => step'[c] = step[c] /\ job'[c] = job[c]
    BY <1>1, <1>5 DEF Refuse, Move
  <2> QED
    BY <1>1, <2>1, <2>2, JobDisarms
<1>6. CASE Compose(b)
  BY <1>1, <1>6, JobIdles DEF Compose, Move, threads
<1>7. CASE Click(b)
  <2>1. step[b] = "click" /\ step'[b] = "confirm" /\ UNCHANGED opp
    BY <1>1, <1>7 DEF Click, Move
  <2>2. \A c \in Browsers : c # b => step'[c] = step[c] /\ job'[c] = job[c]
    BY <1>1, <1>7 DEF Click, Move
  <2>3. UNCHANGED delivered \/ delivered' = [delivered EXCEPT ![job[b]] = @ + 1]
    BY <1>7 DEF Click, Deliver, threads
  <2> QED
    BY <1>1, <2>1, <2>2, <2>3, JobDisarms
<1>8. CASE Confirm(b) \/ Look(b)
  BY <1>1, <1>8, JobIdles DEF Confirm, Look, Move, Done, threads
<1>9. CASE PageFails(b)
  <2>1. step'[b] = "idle" /\ UNCHANGED opp
    BY <1>1, <1>9 DEF PageFails, Done
  <2>2. \A c \in Browsers : c # b => step'[c] = step[c] /\ job'[c] = job[c]
    BY <1>1, <1>9 DEF PageFails, Done
  <2>3. \/ UNCHANGED delivered
        \/ step[b] = "click" /\ delivered' = [delivered EXCEPT ![job[b]] = @ + 1]
    BY <1>9 DEF PageFails, Deliver, threads
  <2>4. CASE step[b] \in {"prepare", "click"}
    BY <1>1, <2>1, <2>2, <2>3, <2>4, JobDisarms
  <2>5. CASE step[b] \notin {"prepare", "click"}
    BY <2>1, <2>2, <2>3, <2>5, JobIdles
  <2> QED
    BY <2>4, <2>5
<1>10. CASE JobCrash(b)
  <2>1. step'[b] = "idle" /\ UNCHANGED <<opp, delivered>>
    BY <1>1, <1>10 DEF JobCrash, Done, threads
  <2>2. \A c \in Browsers : c # b => step'[c] = step[c] /\ job'[c] = job[c]
    BY <1>1, <1>10 DEF JobCrash, Done
  <2>3. CASE step[b] \in {"prepare", "click"}
    BY <1>1, <2>1, <2>2, <2>3, JobDisarms
  <2>4. CASE step[b] \notin {"prepare", "click"}
    BY <2>1, <2>2, <2>4, JobIdles
  <2> QED
    BY <2>3, <2>4
<1>11. CASE MarkSent(b) \/ MarkUncertain(b) \/ MarkFailed(b) \/ Found(b) \/ Absent(b)
  <2>1. PICK from \in SUBSET Decided, to \in Decided :
          /\ Swap(job[b], from, to)
          /\ \/ "approved" \notin from /\ to # "approved"
             \/ step[b] \in Holding /\ to # "approved"
             \/ from = {"send_uncertain"} /\ to = "approved"
    <3>1. CASE MarkSent(b)
      BY <3>1 DEF MarkSent, Decided
    <3>2. CASE MarkUncertain(b)
      BY <3>2 DEF MarkUncertain, Uncertain, Decided
    <3>3. CASE MarkFailed(b)
      BY <3>3 DEF MarkFailed, Decided, Holding
    <3>4. CASE Found(b)
      BY <3>4 DEF Found, Decided
    <3>5. CASE Absent(b)
      BY <3>5 DEF Absent, Decided
    <3> QED
      BY <1>11, <3>1, <3>2, <3>3, <3>4, <3>5
  <2>2. /\ step[b] \notin {"prepare", "click"} /\ step'[b] \notin {"prepare", "click"}
        /\ UNCHANGED delivered
        /\ \A c \in Browsers : c # b => step'[c] = step[c] /\ job'[c] = job[c]
    BY <1>1, <1>11 DEF MarkSent, MarkUncertain, MarkFailed, Found, Absent, Done, threads
  <2>3. step[b] \in Holding => opp[job[b]].status # "approved"
    BY DEF IInv, JobInv
  <2>4. /\ \A p \in Opps : p # job[b] => opp'[p] = opp[p]
        /\ opp'[job[b]].approved = opp[job[b]].approved
        /\ opp[job[b]].status \in from => opp'[job[b]].status = to
        /\ opp[job[b]].status \notin from => opp'[job[b]].status = opp[job[b]].status
    BY <1>1, <2>1, Written
  <2>5. \/ opp'[job[b]].status = opp[job[b]].status
        \/ opp[job[b]].status # "approved" /\ opp'[job[b]].status # "approved"
        \/ opp[job[b]].status = "send_uncertain" /\ opp'[job[b]].status = "approved"
    BY <2>1, <2>3, <2>4
  <2> QED
    BY <1>1, <2>2, <2>4, <2>5, JobRecords
<1> QED
  BY <1>2, <1>3, <1>4, <1>5, <1>6, <1>7, <1>8, <1>9, <1>10, <1>11 DEF SendStep

-----------------------------------------------------------------------------
(***************************************************************************)
(* The refinement.                                                         *)
(***************************************************************************)

LEMMA StartsUnauthorised == SendInit => Authority!AInit
<1> SUFFICES ASSUME SendInit PROVE Authority!AInit
  OBVIOUS
<1>1. \A o \in Opps : opp[o].approved = NoText
  BY DEF SendInit, Init, NoRow
<1>2. delivered = [o \in Opps |-> 0]
  BY DEF SendInit
<1> QED
  BY <1>1, <1>2 DEF Authority!AInit, AuthOf

LEMMA StepImplements ==
  ASSUME IInv, IInv', [SendNext]_vars
  PROVE  [Authority!ANext]_(Authority!avars)
<1>1. ASSUME ApprovalNext, UNCHANGED sendVars
      PROVE  [Authority!ANext]_(Authority!avars)
  <2>1. \A p \in Opps : Turn(opp[p], opp'[p])
    BY <1>1, ApprovalStep DEF IInv
  <2>2. PICK o \in Opps : \A p \in Opps : p # o => opp'[p] = opp[p]
    BY <1>1, OneRow DEF IInv
  <2>3. Moved(o)
    BY <1>1, <2>1, ApprovalMoves
  <2>4. \A p \in Opps : p # o => Same(p)
    BY <1>1, <2>2, Untouched DEF sendVars, browser, threads, Armed
  <2> QED
    BY <2>3, <2>4, OneMoved DEF IInv
<1>2. PICK anyone \in Opps : TRUE
  BY OppsAssumption
<1>3. CASE (\E o \in Opps : FillTarget(o)) \/ UNCHANGED vars
  <2>1. \A p \in Opps : Same(p)
    BY <1>3, Untouched DEF FillTarget, vars, approvalVars, sendVars, browser, threads, Armed
  <2> QED
    BY <1>2, <2>1, OneMoved DEF Moved, IInv
<1>4. ASSUME NEW b \in Browsers, NEW o \in Opps, BeginSend(b, o) \/ BeginReconcile(b, o)
      PROVE  [Authority!ANext]_(Authority!avars)
  BY <1>4, JobIdles DEF BeginSend, BeginReconcile, Engage, threads, IInv, TypeOK
<1> QED
  BY <1>1, <1>3, <1>4, JobMoves DEF SendNext

\* Every message that reaches Threads spends an authority that a person's
\* approval granted, for the text approved then, and that only a reconciliation
\* can grant again: one approval never pays for two messages by itself.
THEOREM Implements == Spec => ImplementsAuthority
<1>1. IInv /\ IInv' /\ [SendNext]_vars => [Authority!ANext]_(Authority!avars)
  BY StepImplements
<1> QED
  BY Inductive, StartsUnauthorised, <1>1, PTL DEF Spec, ImplementsAuthority, Authority!ASpec
=============================================================================
