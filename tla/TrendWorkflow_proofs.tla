------------------------- MODULE TrendWorkflow_proofs -------------------------
(***************************************************************************)
(* Theorems about TrendWorkflow, for every set of candidates, texts, rows, *)
(* passes and taps and every bound on failures.                            *)
(***************************************************************************)
EXTENDS TrendWorkflow, FiniteSetTheorems, TLAPS

-----------------------------------------------------------------------------
(***************************************************************************)
(* Type correctness: what each building block of a handler keeps, then     *)
(* each action.                                                            *)
(***************************************************************************)

PcNames == {"idle", "compose", "claim", "send", "promote", "release",
            "refRead", "refWrite", "reclaim", "resend", "approve", "use",
            "edit", "refresh", "rawWrite"} \cup SchedulingSteps
MaybeText == Texts \cup {NoText}
QueueRows == [cand : Cands, text : MaybeText, status : RowStatuses]
CandType == cand \in [Cands -> CandRows]
QueueType == queue \in [Rows -> QueueRows]
PcType == pc \in [Commands -> PcNames]
AtType == at \in [Commands -> Cands]
SawType == saw \in [Commands -> CandRows]
TextType == text \in [Commands -> MaybeText]
CommandType == PcType /\ AtType /\ SawType /\ TextType
HistoryType ==
  /\ upsets \in Nat
  /\ origin \in [Cands -> {"new", "unstamped", "linked"}]
  /\ shown \in [Cands -> SUBSET Texts]
  /\ cards \in [Cands -> Nat] /\ lost \in [Cands -> Nat]
  /\ orphans \subseteq Cands /\ granted \subseteq Cands /\ refused \subseteq Cands
  /\ outdated \subseteq Cands /\ twins \subseteq Cands
LEMMA Typed == TypeOK <=> CandType /\ QueueType /\ CommandType /\ HistoryType
BY DEF TypeOK, CandType, QueueType, CommandType, HistoryType, PcType, AtType, SawType,
    TextType, PcNames, MaybeText, QueueRows

LEMMA StaysType ==
  ASSUME CommandType, UNCHANGED commands
  PROVE  CommandType'
BY DEF CommandType, PcType, AtType, SawType, TextType, commands
LEMMA GotoType ==
  ASSUME CommandType, NEW p \in Commands, NEW s \in PcNames, Goto(p, s)
  PROVE  CommandType'
BY DEF CommandType, PcType, AtType, SawType, TextType, Goto
LEMMA NoCandType == NoCand \in CandRows
BY DEF NoCand, CandRows, TrendStatuses
LEMMA LeaveType ==
  ASSUME CommandType, NEW p \in Commands, Leave(p)
  PROVE  CommandType'
BY NoCandType DEF CommandType, PcType, AtType, SawType, TextType, Leave, PcNames, MaybeText
LEMMA StartType ==
  ASSUME CandType, CommandType, NEW p \in Commands, NEW c \in Cands, NEW s \in PcNames,
      NEW t \in MaybeText, Start(p, c, s, t)
  PROVE  CommandType'
BY DEF CandType, CommandType, PcType, AtType, SawType, TextType, Start
LEMMA PatchType ==
  ASSUME CandType, NEW c \in Cands, NEW row \in CandRows, Patch(c, row)
  PROVE  /\ CandType' /\ cand'[c] = row
         /\ \A d \in Cands : d # c => cand'[d] = cand[d]
BY DEF CandType, Patch
LEMMA RowEdits ==
  ASSUME NEW r \in CandRows
  PROVE  /\ \A s \in TrendStatuses : [r EXCEPT !.status = s] \in CandRows
         /\ \A t \in MaybeText : [r EXCEPT !.draft = t] \in CandRows
         /\ \A b \in BOOLEAN : [r EXCEPT !.stamp = b] \in CandRows
         /\ \A s \in TrendStatuses, t \in MaybeText : [r EXCEPT !.draft = t,
             !.status = s] \in CandRows
         /\ \A s \in TrendStatuses, b \in BOOLEAN : [r EXCEPT !.status = s,
             !.stamp = b] \in CandRows
         /\ \A s \in TrendStatuses, q \in Rows \cup {0} : [r EXCEPT !.status = s,
             !.link = q] \in CandRows
BY DEF CandRows, MaybeText
LEMMA SeeType ==
  ASSUME shown \in [Cands -> SUBSET Texts], NEW c \in Cands, NEW t, See(c, t)
  PROVE  shown' \in [Cands -> SUBSET Texts]
BY DEF See
LEMMA RowStatusType ==
  ASSUME QueueType, NEW q, NEW s \in RowStatuses, SetRow(q, s)
  PROVE  QueueType'
BY DEF QueueType, QueueRows, SetRow
LEMMA TypeInsert ==
  ASSUME TypeOK, NEW c \in Cands, Insert(c)
  PROVE  TypeOK'
<1>0. CandType /\ QueueType /\ CommandType /\ HistoryType
  BY Typed
<1>b. cand[c] \in CandRows
  BY <1>0 DEF CandType
<1>1. CandType'
  BY <1>0, <1>b, PatchType DEF Insert, CandType, CandRows, NoCand, TrendStatuses, MaybeText,
      Closed
<1>2. QueueType'
  BY <1>0, <1>b, RowStatusType DEF Insert, QueueType, QueueRows, CandRows, MaybeText,
      RowStatuses
<1>3. CommandType'
  BY <1>0, <1>b, StaysType, GotoType, LeaveType, StartType DEF Insert, PcNames,
      SchedulingSteps, MaybeText, CandRows
<1>4. HistoryType'
  BY <1>0, <1>b, SeeType DEF Insert, HistoryType, NoteOutdated, NoteTwin, Upset, Calm, history,
      cardHistory
<1> QED
  BY <1>1, <1>2, <1>3, <1>4 DEF TypeOK, CandType, QueueType, CommandType, HistoryType, PcType,
      AtType, SawType, TextType, PcNames, MaybeText, QueueRows
LEMMA TypeInsertUnstamped ==
  ASSUME TypeOK, NEW c \in Cands, InsertUnstamped(c)
  PROVE  TypeOK'
<1>0. CandType /\ QueueType /\ CommandType /\ HistoryType
  BY Typed
<1>b. cand[c] \in CandRows
  BY <1>0 DEF CandType
<1>1. CandType'
  BY <1>0, <1>b, PatchType DEF InsertUnstamped, CandType, CandRows, NoCand, TrendStatuses,
      MaybeText, Closed
<1>2. QueueType'
  BY <1>0, <1>b, RowStatusType DEF InsertUnstamped, QueueType, QueueRows, CandRows, MaybeText,
      RowStatuses
<1>3. CommandType'
  BY <1>0, <1>b, StaysType, GotoType, LeaveType, StartType DEF InsertUnstamped, PcNames,
      SchedulingSteps, MaybeText, CandRows
<1>4. HistoryType'
  BY <1>0, <1>b, SeeType DEF InsertUnstamped, HistoryType, NoteOutdated, NoteTwin, Upset, Calm,
      history, cardHistory
<1> QED
  BY <1>1, <1>2, <1>3, <1>4 DEF TypeOK, CandType, QueueType, CommandType, HistoryType, PcType,
      AtType, SawType, TextType, PcNames, MaybeText, QueueRows
LEMMA TypeInsertLinked ==
  ASSUME TypeOK, NEW c \in Cands, NEW q \in Rows, InsertLinked(c, q)
  PROVE  TypeOK'
<1>0. CandType /\ QueueType /\ CommandType /\ HistoryType
  BY Typed
<1>b. cand[c] \in CandRows
  BY <1>0 DEF CandType
<1>1. CandType'
  BY <1>0, <1>b, PatchType DEF InsertLinked, CandType, CandRows, NoCand, TrendStatuses,
      MaybeText, Closed
<1>2. QueueType'
  BY <1>0, <1>b, RowStatusType DEF InsertLinked, QueueType, QueueRows, CandRows, MaybeText,
      RowStatuses
<1>3. CommandType'
  BY <1>0, <1>b, StaysType, GotoType, LeaveType, StartType DEF InsertLinked, PcNames,
      SchedulingSteps, MaybeText, CandRows
<1>4. HistoryType'
  BY <1>0, <1>b, SeeType DEF InsertLinked, HistoryType, NoteOutdated, NoteTwin, Upset, Calm,
      history, cardHistory
<1> QED
  BY <1>1, <1>2, <1>3, <1>4 DEF TypeOK, CandType, QueueType, CommandType, HistoryType, PcType,
      AtType, SawType, TextType, PcNames, MaybeText, QueueRows
LEMMA TypeRefuse ==
  ASSUME TypeOK, NEW c \in Cands, Refuse(c)
  PROVE  TypeOK'
<1>0. CandType /\ QueueType /\ CommandType /\ HistoryType
  BY Typed
<1>b. cand[c] \in CandRows
  BY <1>0 DEF CandType
<1>1. CandType'
  BY <1>0, <1>b, PatchType DEF Refuse, CandType, CandRows, NoCand, TrendStatuses, MaybeText,
      Closed
<1>2. QueueType'
  BY <1>0, <1>b, RowStatusType DEF Refuse, QueueType, QueueRows, CandRows, MaybeText,
      RowStatuses
<1>3. CommandType'
  BY <1>0, <1>b, StaysType, GotoType, LeaveType, StartType DEF Refuse, PcNames,
      SchedulingSteps, MaybeText, CandRows
<1>4. HistoryType'
  BY <1>0, <1>b, SeeType DEF Refuse, HistoryType, NoteOutdated, NoteTwin, Upset, Calm, history,
      cardHistory
<1> QED
  BY <1>1, <1>2, <1>3, <1>4 DEF TypeOK, CandType, QueueType, CommandType, HistoryType, PcType,
      AtType, SawType, TextType, PcNames, MaybeText, QueueRows
LEMMA TypeTimeOut ==
  ASSUME TypeOK, NEW c \in Cands, TimeOut(c)
  PROVE  TypeOK'
<1>0. CandType /\ QueueType /\ CommandType /\ HistoryType
  BY Typed
<1>b. cand[c] \in CandRows
  BY <1>0 DEF CandType
<1>1. CandType'
  BY <1>0, <1>b, PatchType DEF TimeOut, Stale, MoveToBacklog, CandType, CandRows, NoCand,
      TrendStatuses, MaybeText, Closed
<1>2. QueueType'
  BY <1>0, <1>b, RowStatusType DEF TimeOut, Stale, MoveToBacklog, QueueType, QueueRows,
      CandRows, MaybeText, RowStatuses
<1>3. CommandType'
  BY <1>0, <1>b, StaysType, GotoType, LeaveType, StartType DEF TimeOut, Stale, MoveToBacklog,
      PcNames, SchedulingSteps, MaybeText, CandRows
<1>4. HistoryType'
  BY <1>0, <1>b, SeeType DEF TimeOut, Stale, MoveToBacklog, HistoryType, NoteOutdated,
      NoteTwin, Upset, Calm, history, cardHistory
<1> QED
  BY <1>1, <1>2, <1>3, <1>4 DEF TypeOK, CandType, QueueType, CommandType, HistoryType, PcType,
      AtType, SawType, TextType, PcNames, MaybeText, QueueRows
LEMMA TypeShowBacklog ==
  ASSUME TypeOK, NEW c \in Cands, ShowBacklog(c)
  PROVE  TypeOK'
<1>0. CandType /\ QueueType /\ CommandType /\ HistoryType
  BY Typed
<1>b. cand[c] \in CandRows
  BY <1>0 DEF CandType
<1>1. CandType'
  BY <1>0, <1>b, PatchType DEF ShowBacklog, Listed, CandType, CandRows, NoCand, TrendStatuses,
      MaybeText, Closed
<1>2. QueueType'
  BY <1>0, <1>b, RowStatusType DEF ShowBacklog, Listed, QueueType, QueueRows, CandRows,
      MaybeText, RowStatuses
<1>3. CommandType'
  BY <1>0, <1>b, StaysType, GotoType, LeaveType, StartType DEF ShowBacklog, Listed, PcNames,
      SchedulingSteps, MaybeText, CandRows
<1>4. HistoryType'
  BY <1>0, <1>b, SeeType DEF ShowBacklog, Listed, HistoryType, NoteOutdated, NoteTwin, Upset,
      Calm, history, cardHistory
<1> QED
  BY <1>1, <1>2, <1>3, <1>4 DEF TypeOK, CandType, QueueType, CommandType, HistoryType, PcType,
      AtType, SawType, TextType, PcNames, MaybeText, QueueRows
LEMMA TypeBeginDraft ==
  ASSUME TypeOK, NEW p \in Passes, NEW c \in Cands, BeginDraft(p, c)
  PROVE  TypeOK'
<1>0. CandType /\ QueueType /\ CommandType /\ HistoryType
  BY Typed
<1>a. p \in Commands /\ at[p] \in Cands /\ cand[at[p]] \in CandRows /\ saw[p] \in CandRows
    /\ text[p] \in MaybeText
  BY <1>0 DEF CandType, CommandType, AtType, SawType, TextType, Commands
<1>b. cand[c] \in CandRows
  BY <1>0 DEF CandType
<1>1. CandType'
  BY <1>0, <1>a, <1>b, PatchType DEF BeginDraft, CandType, CandRows, NoCand, TrendStatuses,
      MaybeText, Closed
<1>2. QueueType'
  BY <1>0, <1>a, <1>b, RowStatusType DEF BeginDraft, QueueType, QueueRows, CandRows, MaybeText,
      RowStatuses
<1>3. CommandType'
  BY <1>0, <1>a, <1>b, StaysType, GotoType, LeaveType, StartType DEF BeginDraft, PcNames,
      SchedulingSteps, MaybeText, CandRows
<1>4. HistoryType'
  BY <1>0, <1>a, <1>b, SeeType DEF BeginDraft, HistoryType, NoteOutdated, NoteTwin, Upset,
      Calm, history, cardHistory
<1> QED
  BY <1>1, <1>2, <1>3, <1>4 DEF TypeOK, CandType, QueueType, CommandType, HistoryType, PcType,
      AtType, SawType, TextType, PcNames, MaybeText, QueueRows
LEMMA TypeBeginResend ==
  ASSUME TypeOK, NEW p \in Passes, NEW c \in Cands, BeginResend(p, c)
  PROVE  TypeOK'
<1>0. CandType /\ QueueType /\ CommandType /\ HistoryType
  BY Typed
<1>a. p \in Commands /\ at[p] \in Cands /\ cand[at[p]] \in CandRows /\ saw[p] \in CandRows
    /\ text[p] \in MaybeText
  BY <1>0 DEF CandType, CommandType, AtType, SawType, TextType, Commands
<1>b. cand[c] \in CandRows
  BY <1>0 DEF CandType
<1>1. CandType'
  BY <1>0, <1>a, <1>b, PatchType DEF BeginResend, CandType, CandRows, NoCand, TrendStatuses,
      MaybeText, Closed
<1>2. QueueType'
  BY <1>0, <1>a, <1>b, RowStatusType DEF BeginResend, QueueType, QueueRows, CandRows,
      MaybeText, RowStatuses
<1>3. CommandType'
  BY <1>0, <1>a, <1>b, StaysType, GotoType, LeaveType, StartType DEF BeginResend, PcNames,
      SchedulingSteps, MaybeText, CandRows
<1>4. HistoryType'
  BY <1>0, <1>a, <1>b, SeeType DEF BeginResend, HistoryType, NoteOutdated, NoteTwin, Upset,
      Calm, history, cardHistory
<1> QED
  BY <1>1, <1>2, <1>3, <1>4 DEF TypeOK, CandType, QueueType, CommandType, HistoryType, PcType,
      AtType, SawType, TextType, PcNames, MaybeText, QueueRows
LEMMA TypeIrrelevant ==
  ASSUME TypeOK, NEW p \in Passes, Irrelevant(p)
  PROVE  TypeOK'
<1>0. CandType /\ QueueType /\ CommandType /\ HistoryType
  BY Typed
<1>a. p \in Commands /\ at[p] \in Cands /\ cand[at[p]] \in CandRows /\ saw[p] \in CandRows
    /\ text[p] \in MaybeText
  BY <1>0 DEF CandType, CommandType, AtType, SawType, TextType, Commands
<1>1. CandType'
  BY <1>0, <1>a, PatchType DEF Irrelevant, CandType, CandRows, NoCand, TrendStatuses,
      MaybeText, Closed
<1>2. QueueType'
  BY <1>0, <1>a, RowStatusType DEF Irrelevant, QueueType, QueueRows, CandRows, MaybeText,
      RowStatuses
<1>3. CommandType'
  BY <1>0, <1>a, StaysType, GotoType, LeaveType, StartType DEF Irrelevant, PcNames,
      SchedulingSteps, MaybeText, CandRows
<1>4. HistoryType'
  BY <1>0, <1>a, SeeType DEF Irrelevant, HistoryType, NoteOutdated, NoteTwin, Upset, Calm,
      history, cardHistory
<1> QED
  BY <1>1, <1>2, <1>3, <1>4 DEF TypeOK, CandType, QueueType, CommandType, HistoryType, PcType,
      AtType, SawType, TextType, PcNames, MaybeText, QueueRows
LEMMA TypeStage ==
  ASSUME TypeOK, NEW p \in Passes, Stage(p)
  PROVE  TypeOK'
<1>0. CandType /\ QueueType /\ CommandType /\ HistoryType
  BY Typed
<1>a. p \in Commands /\ at[p] \in Cands /\ cand[at[p]] \in CandRows /\ saw[p] \in CandRows
    /\ text[p] \in MaybeText
  BY <1>0 DEF CandType, CommandType, AtType, SawType, TextType, Commands
<1>1. CandType'
  BY <1>0, <1>a, PatchType DEF Stage, Staged, ModelTexts, CandType, CandRows, NoCand,
      TrendStatuses, MaybeText, Closed
<1>2. QueueType'
  BY <1>0, <1>a, RowStatusType DEF Stage, Staged, ModelTexts, QueueType, QueueRows, CandRows,
      MaybeText, RowStatuses
<1>3. CommandType'
  <2>1. CASE Leave(p)
    BY <1>0, <1>a, <2>1, LeaveType
  <2>2. CASE ~Leave(p)
    <3>1. /\ pc' = [pc EXCEPT ![p] = "claim"] /\ UNCHANGED <<at, saw>>
          /\ \E t \in Texts : text' = [text EXCEPT ![p] = t]
      BY <2>2 DEF Stage, Staged, ModelTexts
    <3> QED
      BY <1>0, <1>a, <3>1 DEF CommandType, PcType, AtType, SawType, TextType, PcNames, MaybeText
  <2> QED
    BY <2>1, <2>2
<1>4. HistoryType'
  BY <1>0, <1>a, SeeType DEF Stage, Staged, ModelTexts, HistoryType, NoteOutdated, NoteTwin,
      Upset, Calm, history, cardHistory
<1> QED
  BY <1>1, <1>2, <1>3, <1>4 DEF TypeOK, CandType, QueueType, CommandType, HistoryType, PcType,
      AtType, SawType, TextType, PcNames, MaybeText, QueueRows
LEMMA TypeClaim ==
  ASSUME TypeOK, NEW p \in Passes, Claim(p)
  PROVE  TypeOK'
<1>0. CandType /\ QueueType /\ CommandType /\ HistoryType
  BY Typed
<1>a. p \in Commands /\ at[p] \in Cands /\ cand[at[p]] \in CandRows /\ saw[p] \in CandRows
    /\ text[p] \in MaybeText
  BY <1>0 DEF CandType, CommandType, AtType, SawType, TextType, Commands
<1>1. CandType'
  BY <1>0, <1>a, PatchType DEF Claim, CandType, CandRows, NoCand, TrendStatuses, MaybeText,
      Closed
<1>2. QueueType'
  BY <1>0, <1>a, RowStatusType DEF Claim, QueueType, QueueRows, CandRows, MaybeText, RowStatuses
<1>3. CommandType'
  BY <1>0, <1>a, StaysType, GotoType, LeaveType, StartType DEF Claim, PcNames, SchedulingSteps,
      MaybeText, CandRows
<1>4. HistoryType'
  BY <1>0, <1>a, SeeType DEF Claim, HistoryType, NoteOutdated, NoteTwin, Upset, Calm, history,
      cardHistory
<1> QED
  BY <1>1, <1>2, <1>3, <1>4 DEF TypeOK, CandType, QueueType, CommandType, HistoryType, PcType,
      AtType, SawType, TextType, PcNames, MaybeText, QueueRows
LEMMA TypeSendCard ==
  ASSUME TypeOK, NEW p \in Passes, SendCard(p)
  PROVE  TypeOK'
<1>0. CandType /\ QueueType /\ CommandType /\ HistoryType
  BY Typed
<1>a. p \in Commands /\ at[p] \in Cands /\ cand[at[p]] \in CandRows /\ saw[p] \in CandRows
    /\ text[p] \in MaybeText
  BY <1>0 DEF CandType, CommandType, AtType, SawType, TextType, Commands
<1>1. CandType'
  BY <1>0, <1>a, PatchType DEF SendCard, CardText, CandType, CandRows, NoCand, TrendStatuses,
      MaybeText, Closed
<1>2. QueueType'
  BY <1>0, <1>a, RowStatusType DEF SendCard, CardText, QueueType, QueueRows, CandRows,
      MaybeText, RowStatuses
<1>3. CommandType'
  BY <1>0, <1>a, StaysType, GotoType, LeaveType, StartType DEF SendCard, CardText, PcNames,
      SchedulingSteps, MaybeText, CandRows
<1>4. HistoryType'
  BY <1>0, <1>a, SeeType DEF SendCard, CardText, HistoryType, NoteOutdated, NoteTwin, Upset,
      Calm, history, cardHistory
<1> QED
  BY <1>1, <1>2, <1>3, <1>4 DEF TypeOK, CandType, QueueType, CommandType, HistoryType, PcType,
      AtType, SawType, TextType, PcNames, MaybeText, QueueRows
LEMMA TypeCardFails ==
  ASSUME TypeOK, NEW p \in Passes, CardFails(p)
  PROVE  TypeOK'
<1>0. CandType /\ QueueType /\ CommandType /\ HistoryType
  BY Typed
<1>a. p \in Commands /\ at[p] \in Cands /\ cand[at[p]] \in CandRows /\ saw[p] \in CandRows
    /\ text[p] \in MaybeText
  BY <1>0 DEF CandType, CommandType, AtType, SawType, TextType, Commands
<1>1. CandType'
  BY <1>0, <1>a, PatchType DEF CardFails, CardText, CandType, CandRows, NoCand, TrendStatuses,
      MaybeText, Closed
<1>2. QueueType'
  BY <1>0, <1>a, RowStatusType DEF CardFails, CardText, QueueType, QueueRows, CandRows,
      MaybeText, RowStatuses
<1>3. CommandType'
  BY <1>0, <1>a, StaysType, GotoType, LeaveType, StartType DEF CardFails, CardText, PcNames,
      SchedulingSteps, MaybeText, CandRows
<1>4. HistoryType'
  BY <1>0, <1>a, SeeType DEF CardFails, CardText, HistoryType, NoteOutdated, NoteTwin, Upset,
      Calm, history, cardHistory
<1> QED
  BY <1>1, <1>2, <1>3, <1>4 DEF TypeOK, CandType, QueueType, CommandType, HistoryType, PcType,
      AtType, SawType, TextType, PcNames, MaybeText, QueueRows
LEMMA TypeRelease ==
  ASSUME TypeOK, NEW p \in Passes, Release(p)
  PROVE  TypeOK'
<1>0. CandType /\ QueueType /\ CommandType /\ HistoryType
  BY Typed
<1>a. p \in Commands /\ at[p] \in Cands /\ cand[at[p]] \in CandRows /\ saw[p] \in CandRows
    /\ text[p] \in MaybeText
  BY <1>0 DEF CandType, CommandType, AtType, SawType, TextType, Commands
<1>1. CandType'
  BY <1>0, <1>a, PatchType DEF Release, CandType, CandRows, NoCand, TrendStatuses, MaybeText,
      Closed
<1>2. QueueType'
  BY <1>0, <1>a, RowStatusType DEF Release, QueueType, QueueRows, CandRows, MaybeText,
      RowStatuses
<1>3. CommandType'
  BY <1>0, <1>a, StaysType, GotoType, LeaveType, StartType DEF Release, PcNames,
      SchedulingSteps, MaybeText, CandRows
<1>4. HistoryType'
  BY <1>0, <1>a, SeeType DEF Release, HistoryType, NoteOutdated, NoteTwin, Upset, Calm,
      history, cardHistory
<1> QED
  BY <1>1, <1>2, <1>3, <1>4 DEF TypeOK, CandType, QueueType, CommandType, HistoryType, PcType,
      AtType, SawType, TextType, PcNames, MaybeText, QueueRows
LEMMA TypePromote ==
  ASSUME TypeOK, NEW p \in Passes, Promote(p)
  PROVE  TypeOK'
<1>0. CandType /\ QueueType /\ CommandType /\ HistoryType
  BY Typed
<1>a. p \in Commands /\ at[p] \in Cands /\ cand[at[p]] \in CandRows /\ saw[p] \in CandRows
    /\ text[p] \in MaybeText
  BY <1>0 DEF CandType, CommandType, AtType, SawType, TextType, Commands
<1>1. CandType'
  BY <1>0, <1>a, PatchType DEF Promote, CandType, CandRows, NoCand, TrendStatuses, MaybeText,
      Closed
<1>2. QueueType'
  BY <1>0, <1>a, RowStatusType DEF Promote, QueueType, QueueRows, CandRows, MaybeText,
      RowStatuses
<1>3. CommandType'
  BY <1>0, <1>a, StaysType, GotoType, LeaveType, StartType DEF Promote, PcNames,
      SchedulingSteps, MaybeText, CandRows
<1>4. HistoryType'
  BY <1>0, <1>a, SeeType DEF Promote, HistoryType, NoteOutdated, NoteTwin, Upset, Calm,
      history, cardHistory
<1> QED
  BY <1>1, <1>2, <1>3, <1>4 DEF TypeOK, CandType, QueueType, CommandType, HistoryType, PcType,
      AtType, SawType, TextType, PcNames, MaybeText, QueueRows
LEMMA TypeRefRead ==
  ASSUME TypeOK, NEW p \in Passes, RefRead(p)
  PROVE  TypeOK'
<1>0. CandType /\ QueueType /\ CommandType /\ HistoryType
  BY Typed
<1>a. p \in Commands /\ at[p] \in Cands /\ cand[at[p]] \in CandRows /\ saw[p] \in CandRows
    /\ text[p] \in MaybeText
  BY <1>0 DEF CandType, CommandType, AtType, SawType, TextType, Commands
<1>1. CandType'
  BY <1>0, <1>a, PatchType DEF RefRead, CandType, CandRows, NoCand, TrendStatuses, MaybeText,
      Closed
<1>2. QueueType'
  BY <1>0, <1>a, RowStatusType DEF RefRead, QueueType, QueueRows, CandRows, MaybeText,
      RowStatuses
<1>3. CommandType'
  BY <1>0, <1>a, StaysType, GotoType, LeaveType, StartType DEF RefRead, Leave, NoCand,
      CommandType, PcType, AtType, SawType, TextType, PcNames, SchedulingSteps, MaybeText,
          CandRows
<1>4. HistoryType'
  BY <1>0, <1>a, SeeType DEF RefRead, HistoryType, NoteOutdated, NoteTwin, Upset, Calm,
      history, cardHistory
<1> QED
  BY <1>1, <1>2, <1>3, <1>4 DEF TypeOK, CandType, QueueType, CommandType, HistoryType, PcType,
      AtType, SawType, TextType, PcNames, MaybeText, QueueRows
LEMMA TypeRefWrite ==
  ASSUME TypeOK, NEW p \in Passes, RefWrite(p)
  PROVE  TypeOK'
<1>0. CandType /\ QueueType /\ CommandType /\ HistoryType
  BY Typed
<1>a. p \in Commands /\ at[p] \in Cands /\ cand[at[p]] \in CandRows /\ saw[p] \in CandRows
    /\ text[p] \in MaybeText
  BY <1>0 DEF CandType, CommandType, AtType, SawType, TextType, Commands
<1>1. CandType'
  BY <1>0, <1>a, PatchType DEF RefWrite, CandType, CandRows, NoCand, TrendStatuses, MaybeText,
      Closed
<1>2. QueueType'
  BY <1>0, <1>a, RowStatusType DEF RefWrite, QueueType, QueueRows, CandRows, MaybeText,
      RowStatuses
<1>3. CommandType'
  BY <1>0, <1>a, StaysType, GotoType, LeaveType, StartType DEF RefWrite, PcNames,
      SchedulingSteps, MaybeText, CandRows
<1>4. HistoryType'
  BY <1>0, <1>a, SeeType DEF RefWrite, HistoryType, NoteOutdated, NoteTwin, Upset, Calm,
      history, cardHistory
<1> QED
  BY <1>1, <1>2, <1>3, <1>4 DEF TypeOK, CandType, QueueType, CommandType, HistoryType, PcType,
      AtType, SawType, TextType, PcNames, MaybeText, QueueRows
LEMMA TypeBeginApprove ==
  ASSUME TypeOK, NEW p \in Taps, NEW c \in Cands, BeginApprove(p, c)
  PROVE  TypeOK'
<1>0. CandType /\ QueueType /\ CommandType /\ HistoryType
  BY Typed
<1>a. p \in Commands /\ at[p] \in Cands /\ cand[at[p]] \in CandRows /\ saw[p] \in CandRows
    /\ text[p] \in MaybeText
  BY <1>0 DEF CandType, CommandType, AtType, SawType, TextType, Commands
<1>b. cand[c] \in CandRows
  BY <1>0 DEF CandType
<1>1. CandType'
  BY <1>0, <1>a, <1>b, PatchType DEF BeginApprove, CandType, CandRows, NoCand, TrendStatuses,
      MaybeText, Closed
<1>2. QueueType'
  BY <1>0, <1>a, <1>b, RowStatusType DEF BeginApprove, QueueType, QueueRows, CandRows,
      MaybeText, RowStatuses
<1>3. CommandType'
  BY <1>0, <1>a, <1>b, StaysType, GotoType, LeaveType, StartType DEF BeginApprove, PcNames,
      SchedulingSteps, MaybeText, CandRows
<1>4. HistoryType'
  BY <1>0, <1>a, <1>b, SeeType DEF BeginApprove, HistoryType, NoteOutdated, NoteTwin, Upset,
      Calm, history, cardHistory
<1> QED
  BY <1>1, <1>2, <1>3, <1>4 DEF TypeOK, CandType, QueueType, CommandType, HistoryType, PcType,
      AtType, SawType, TextType, PcNames, MaybeText, QueueRows
LEMMA TypeBeginUse ==
  ASSUME TypeOK, NEW p \in Taps, NEW c \in Cands, BeginUse(p, c)
  PROVE  TypeOK'
<1>0. CandType /\ QueueType /\ CommandType /\ HistoryType
  BY Typed
<1>a. p \in Commands /\ at[p] \in Cands /\ cand[at[p]] \in CandRows /\ saw[p] \in CandRows
    /\ text[p] \in MaybeText
  BY <1>0 DEF CandType, CommandType, AtType, SawType, TextType, Commands
<1>b. cand[c] \in CandRows
  BY <1>0 DEF CandType
<1>1. CandType'
  BY <1>0, <1>a, <1>b, PatchType DEF BeginUse, CandType, CandRows, NoCand, TrendStatuses,
      MaybeText, Closed
<1>2. QueueType'
  BY <1>0, <1>a, <1>b, RowStatusType DEF BeginUse, QueueType, QueueRows, CandRows, MaybeText,
      RowStatuses
<1>3. CommandType'
  BY <1>0, <1>a, <1>b, StaysType, GotoType, LeaveType, StartType DEF BeginUse, PcNames,
      SchedulingSteps, MaybeText, CandRows
<1>4. HistoryType'
  BY <1>0, <1>a, <1>b, SeeType DEF BeginUse, HistoryType, NoteOutdated, NoteTwin, Upset, Calm,
      history, cardHistory
<1> QED
  BY <1>1, <1>2, <1>3, <1>4 DEF TypeOK, CandType, QueueType, CommandType, HistoryType, PcType,
      AtType, SawType, TextType, PcNames, MaybeText, QueueRows
LEMMA TypeBeginRefresh ==
  ASSUME TypeOK, NEW p \in Taps, NEW c \in Cands, BeginRefresh(p, c)
  PROVE  TypeOK'
<1>0. CandType /\ QueueType /\ CommandType /\ HistoryType
  BY Typed
<1>a. p \in Commands /\ at[p] \in Cands /\ cand[at[p]] \in CandRows /\ saw[p] \in CandRows
    /\ text[p] \in MaybeText
  BY <1>0 DEF CandType, CommandType, AtType, SawType, TextType, Commands
<1>b. cand[c] \in CandRows
  BY <1>0 DEF CandType
<1>1. CandType'
  BY <1>0, <1>a, <1>b, PatchType DEF BeginRefresh, ModelTexts, CandType, CandRows, NoCand,
      TrendStatuses, MaybeText, Closed
<1>2. QueueType'
  BY <1>0, <1>a, <1>b, RowStatusType DEF BeginRefresh, ModelTexts, QueueType, QueueRows,
      CandRows, MaybeText, RowStatuses
<1>3. CommandType'
  BY <1>0, <1>a, <1>b, StaysType, GotoType, LeaveType, StartType DEF BeginRefresh, ModelTexts,
      PcNames, SchedulingSteps, MaybeText, CandRows
<1>4. HistoryType'
  BY <1>0, <1>a, <1>b, SeeType DEF BeginRefresh, ModelTexts, HistoryType, NoteOutdated,
      NoteTwin, Upset, Calm, history, cardHistory
<1> QED
  BY <1>1, <1>2, <1>3, <1>4 DEF TypeOK, CandType, QueueType, CommandType, HistoryType, PcType,
      AtType, SawType, TextType, PcNames, MaybeText, QueueRows
LEMMA TypeBeginRaw ==
  ASSUME TypeOK, NEW p \in Taps, NEW c \in Cands, BeginRaw(p, c)
  PROVE  TypeOK'
<1>0. CandType /\ QueueType /\ CommandType /\ HistoryType
  BY Typed
<1>a. p \in Commands /\ at[p] \in Cands /\ cand[at[p]] \in CandRows /\ saw[p] \in CandRows
    /\ text[p] \in MaybeText
  BY <1>0 DEF CandType, CommandType, AtType, SawType, TextType, Commands
<1>b. cand[c] \in CandRows
  BY <1>0 DEF CandType
<1>1. CandType'
  BY <1>0, <1>a, <1>b, PatchType DEF BeginRaw, CandType, CandRows, NoCand, TrendStatuses,
      MaybeText, Closed
<1>2. QueueType'
  BY <1>0, <1>a, <1>b, RowStatusType DEF BeginRaw, QueueType, QueueRows, CandRows, MaybeText,
      RowStatuses
<1>3. CommandType'
  BY <1>0, <1>a, <1>b, StaysType, GotoType, LeaveType, StartType DEF BeginRaw, PcNames,
      SchedulingSteps, MaybeText, CandRows
<1>4. HistoryType'
  BY <1>0, <1>a, <1>b, SeeType DEF BeginRaw, HistoryType, NoteOutdated, NoteTwin, Upset, Calm,
      history, cardHistory
<1> QED
  BY <1>1, <1>2, <1>3, <1>4 DEF TypeOK, CandType, QueueType, CommandType, HistoryType, PcType,
      AtType, SawType, TextType, PcNames, MaybeText, QueueRows
LEMMA TypeBeginSchedule ==
  ASSUME TypeOK, NEW p \in Taps, NEW c \in Cands, BeginSchedule(p, c)
  PROVE  TypeOK'
<1>0. CandType /\ QueueType /\ CommandType /\ HistoryType
  BY Typed
<1>a. p \in Commands /\ at[p] \in Cands /\ cand[at[p]] \in CandRows /\ saw[p] \in CandRows
    /\ text[p] \in MaybeText
  BY <1>0 DEF CandType, CommandType, AtType, SawType, TextType, Commands
<1>b. cand[c] \in CandRows
  BY <1>0 DEF CandType
<1>1. CandType'
  BY <1>0, <1>a, <1>b, PatchType DEF BeginSchedule, CandType, CandRows, NoCand, TrendStatuses,
      MaybeText, Closed
<1>2. QueueType'
  BY <1>0, <1>a, <1>b, RowStatusType DEF BeginSchedule, QueueType, QueueRows, CandRows,
      MaybeText, RowStatuses
<1>3. CommandType'
  BY <1>0, <1>a, <1>b, StaysType, GotoType, LeaveType, StartType DEF BeginSchedule, PcNames,
      SchedulingSteps, MaybeText, CandRows
<1>4. HistoryType'
  BY <1>0, <1>a, <1>b, SeeType DEF BeginSchedule, HistoryType, NoteOutdated, NoteTwin, Upset,
      Calm, history, cardHistory
<1> QED
  BY <1>1, <1>2, <1>3, <1>4 DEF TypeOK, CandType, QueueType, CommandType, HistoryType, PcType,
      AtType, SawType, TextType, PcNames, MaybeText, QueueRows
LEMMA TypeBeginCancel ==
  ASSUME TypeOK, NEW p \in Taps, NEW c \in Cands, BeginCancel(p, c)
  PROVE  TypeOK'
<1>0. CandType /\ QueueType /\ CommandType /\ HistoryType
  BY Typed
<1>a. p \in Commands /\ at[p] \in Cands /\ cand[at[p]] \in CandRows /\ saw[p] \in CandRows
    /\ text[p] \in MaybeText
  BY <1>0 DEF CandType, CommandType, AtType, SawType, TextType, Commands
<1>b. cand[c] \in CandRows
  BY <1>0 DEF CandType
<1>1. CandType'
  BY <1>0, <1>a, <1>b, PatchType DEF BeginCancel, CandType, CandRows, NoCand, TrendStatuses,
      MaybeText, Closed
<1>2. QueueType'
  BY <1>0, <1>a, <1>b, RowStatusType DEF BeginCancel, QueueType, QueueRows, CandRows,
      MaybeText, RowStatuses
<1>3. CommandType'
  BY <1>0, <1>a, <1>b, StaysType, GotoType, LeaveType, StartType DEF BeginCancel, PcNames,
      SchedulingSteps, MaybeText, CandRows
<1>4. HistoryType'
  BY <1>0, <1>a, <1>b, SeeType DEF BeginCancel, HistoryType, NoteOutdated, NoteTwin, Upset,
      Calm, history, cardHistory
<1> QED
  BY <1>1, <1>2, <1>3, <1>4 DEF TypeOK, CandType, QueueType, CommandType, HistoryType, PcType,
      AtType, SawType, TextType, PcNames, MaybeText, QueueRows
LEMMA TypeBeginEdit ==
  ASSUME TypeOK, NEW p \in Taps, NEW c \in Cands, NEW t \in Texts, BeginEdit(p, c, t)
  PROVE  TypeOK'
<1>0. CandType /\ QueueType /\ CommandType /\ HistoryType
  BY Typed
<1>a. p \in Commands /\ at[p] \in Cands /\ cand[at[p]] \in CandRows /\ saw[p] \in CandRows
    /\ text[p] \in MaybeText
  BY <1>0 DEF CandType, CommandType, AtType, SawType, TextType, Commands
<1>b. cand[c] \in CandRows
  BY <1>0 DEF CandType
<1>1. CandType'
  BY <1>0, <1>a, <1>b, PatchType DEF BeginEdit, CandType, CandRows, NoCand, TrendStatuses,
      MaybeText, Closed
<1>2. QueueType'
  BY <1>0, <1>a, <1>b, RowStatusType DEF BeginEdit, QueueType, QueueRows, CandRows, MaybeText,
      RowStatuses
<1>3. CommandType'
  BY <1>0, <1>a, <1>b, StaysType, GotoType, LeaveType, StartType DEF BeginEdit, PcNames,
      SchedulingSteps, MaybeText, CandRows
<1>4. HistoryType'
  BY <1>0, <1>a, <1>b, SeeType DEF BeginEdit, HistoryType, NoteOutdated, NoteTwin, Upset, Calm,
      history, cardHistory
<1> QED
  BY <1>1, <1>2, <1>3, <1>4 DEF TypeOK, CandType, QueueType, CommandType, HistoryType, PcType,
      AtType, SawType, TextType, PcNames, MaybeText, QueueRows
LEMMA TypeSaveDecision ==
  ASSUME TypeOK, NEW p \in Taps, SaveDecision(p)
  PROVE  TypeOK'
<1>0. CandType /\ QueueType /\ CommandType /\ HistoryType
  BY Typed
<1>a. p \in Commands /\ at[p] \in Cands /\ cand[at[p]] \in CandRows /\ saw[p] \in CandRows
    /\ text[p] \in MaybeText
  BY <1>0 DEF CandType, CommandType, AtType, SawType, TextType, Commands
<1>1. CandType'
  BY <1>0, <1>a, PatchType DEF SaveDecision, CandType, CandRows, NoCand, TrendStatuses,
      MaybeText, Closed
<1>2. QueueType'
  BY <1>0, <1>a, RowStatusType DEF SaveDecision, QueueType, QueueRows, CandRows, MaybeText,
      RowStatuses
<1>3. CommandType'
  BY <1>0, <1>a, StaysType, GotoType, LeaveType, StartType DEF SaveDecision, PcNames,
      SchedulingSteps, MaybeText, CandRows
<1>4. HistoryType'
  BY <1>0, <1>a, SeeType DEF SaveDecision, HistoryType, NoteOutdated, NoteTwin, Upset, Calm,
      history, cardHistory
<1> QED
  BY <1>1, <1>2, <1>3, <1>4 DEF TypeOK, CandType, QueueType, CommandType, HistoryType, PcType,
      AtType, SawType, TextType, PcNames, MaybeText, QueueRows
LEMMA TypeSaveDraft ==
  ASSUME TypeOK, NEW p \in Taps, SaveDraft(p)
  PROVE  TypeOK'
<1>0. CandType /\ QueueType /\ CommandType /\ HistoryType
  BY Typed
<1>a. p \in Commands /\ at[p] \in Cands /\ cand[at[p]] \in CandRows /\ saw[p] \in CandRows
    /\ text[p] \in MaybeText
  BY <1>0 DEF CandType, CommandType, AtType, SawType, TextType, Commands
<1>1. CandType'
  BY <1>0, <1>a, PatchType DEF SaveDraft, CandType, CandRows, NoCand, TrendStatuses, MaybeText,
      Closed
<1>2. QueueType'
  BY <1>0, <1>a, RowStatusType DEF SaveDraft, QueueType, QueueRows, CandRows, MaybeText,
      RowStatuses
<1>3. CommandType'
  BY <1>0, <1>a, StaysType, GotoType, LeaveType, StartType DEF SaveDraft, PcNames,
      SchedulingSteps, MaybeText, CandRows
<1>4. HistoryType'
  BY <1>0, <1>a, SeeType DEF SaveDraft, HistoryType, NoteOutdated, NoteTwin, Upset, Calm,
      history, cardHistory
<1> QED
  BY <1>1, <1>2, <1>3, <1>4 DEF TypeOK, CandType, QueueType, CommandType, HistoryType, PcType,
      AtType, SawType, TextType, PcNames, MaybeText, QueueRows
LEMMA TypeRawWrite ==
  ASSUME TypeOK, NEW p \in Taps, RawWrite(p)
  PROVE  TypeOK'
<1>0. CandType /\ QueueType /\ CommandType /\ HistoryType
  BY Typed
<1>a. p \in Commands /\ at[p] \in Cands /\ cand[at[p]] \in CandRows /\ saw[p] \in CandRows
    /\ text[p] \in MaybeText
  BY <1>0 DEF CandType, CommandType, AtType, SawType, TextType, Commands
<1>1. CandType'
  BY <1>0, <1>a, PatchType DEF RawWrite, CandType, CandRows, NoCand, TrendStatuses, MaybeText,
      Closed
<1>2. QueueType'
  BY <1>0, <1>a, RowStatusType DEF RawWrite, QueueType, QueueRows, CandRows, MaybeText,
      RowStatuses
<1>3. CommandType'
  BY <1>0, <1>a, StaysType, GotoType, LeaveType, StartType DEF RawWrite, PcNames,
      SchedulingSteps, MaybeText, CandRows
<1>4. HistoryType'
  BY <1>0, <1>a, SeeType DEF RawWrite, HistoryType, NoteOutdated, NoteTwin, Upset, Calm,
      history, cardHistory
<1> QED
  BY <1>1, <1>2, <1>3, <1>4 DEF TypeOK, CandType, QueueType, CommandType, HistoryType, PcType,
      AtType, SawType, TextType, PcNames, MaybeText, QueueRows
LEMMA TypePromoteRow ==
  ASSUME TypeOK, NEW p \in Taps, PromoteRow(p)
  PROVE  TypeOK'
<1>0. CandType /\ QueueType /\ CommandType /\ HistoryType
  BY Typed
<1>a. p \in Commands /\ at[p] \in Cands /\ cand[at[p]] \in CandRows /\ saw[p] \in CandRows
    /\ text[p] \in MaybeText
  BY <1>0 DEF CandType, CommandType, AtType, SawType, TextType, Commands
<1>1. CandType'
  BY <1>0, <1>a, PatchType DEF PromoteRow, CandType, CandRows, NoCand, TrendStatuses,
      MaybeText, Closed
<1>2. QueueType'
  BY <1>0, <1>a, RowStatusType DEF PromoteRow, QueueType, QueueRows, CandRows, MaybeText,
      RowStatuses
<1>3. CommandType'
  BY <1>0, <1>a, StaysType, GotoType, LeaveType, StartType DEF PromoteRow, PcNames,
      SchedulingSteps, MaybeText, CandRows
<1>4. HistoryType'
  BY <1>0, <1>a, SeeType DEF PromoteRow, HistoryType, NoteOutdated, NoteTwin, Upset, Calm,
      history, cardHistory
<1> QED
  BY <1>1, <1>2, <1>3, <1>4 DEF TypeOK, CandType, QueueType, CommandType, HistoryType, PcType,
      AtType, SawType, TextType, PcNames, MaybeText, QueueRows
LEMMA TypeFetchRow ==
  ASSUME TypeOK, NEW p \in Taps, FetchRow(p)
  PROVE  TypeOK'
<1>0. CandType /\ QueueType /\ CommandType /\ HistoryType
  BY Typed
<1>a. p \in Commands /\ at[p] \in Cands /\ cand[at[p]] \in CandRows /\ saw[p] \in CandRows
    /\ text[p] \in MaybeText
  BY <1>0 DEF CandType, CommandType, AtType, SawType, TextType, Commands
<1>1. CandType'
  BY <1>0, <1>a, PatchType DEF FetchRow, CandType, CandRows, NoCand, TrendStatuses, MaybeText,
      Closed
<1>2. QueueType'
  BY <1>0, <1>a, RowStatusType DEF FetchRow, QueueType, QueueRows, CandRows, MaybeText,
      RowStatuses
<1>3. CommandType'
  BY <1>0, <1>a, StaysType, GotoType, LeaveType, StartType DEF FetchRow, PcNames,
      SchedulingSteps, MaybeText, CandRows
<1>4. HistoryType'
  BY <1>0, <1>a, SeeType DEF FetchRow, HistoryType, NoteOutdated, NoteTwin, Upset, Calm,
      history, cardHistory
<1> QED
  BY <1>1, <1>2, <1>3, <1>4 DEF TypeOK, CandType, QueueType, CommandType, HistoryType, PcType,
      AtType, SawType, TextType, PcNames, MaybeText, QueueRows
LEMMA TypeFinalize ==
  ASSUME TypeOK, NEW p \in Taps, Finalize(p)
  PROVE  TypeOK'
<1>0. CandType /\ QueueType /\ CommandType /\ HistoryType
  BY Typed
<1>a. p \in Commands /\ at[p] \in Cands /\ cand[at[p]] \in CandRows /\ saw[p] \in CandRows
    /\ text[p] \in MaybeText
  BY <1>0 DEF CandType, CommandType, AtType, SawType, TextType, Commands
<1>1. CandType'
  BY <1>0, <1>a, PatchType DEF Finalize, CandType, CandRows, NoCand, TrendStatuses, MaybeText,
      Closed
<1>2. QueueType'
  BY <1>0, <1>a, RowStatusType DEF Finalize, QueueType, QueueRows, CandRows, MaybeText,
      RowStatuses
<1>3. CommandType'
  BY <1>0, <1>a, StaysType, GotoType, LeaveType, StartType DEF Finalize, PcNames,
      SchedulingSteps, MaybeText, CandRows
<1>4. HistoryType'
  BY <1>0, <1>a, SeeType DEF Finalize, HistoryType, NoteOutdated, NoteTwin, Upset, Calm,
      history, cardHistory
<1> QED
  BY <1>1, <1>2, <1>3, <1>4 DEF TypeOK, CandType, QueueType, CommandType, HistoryType, PcType,
      AtType, SawType, TextType, PcNames, MaybeText, QueueRows
LEMMA TypeCancelRow ==
  ASSUME TypeOK, NEW p \in Taps, CancelRow(p)
  PROVE  TypeOK'
<1>0. CandType /\ QueueType /\ CommandType /\ HistoryType
  BY Typed
<1>a. p \in Commands /\ at[p] \in Cands /\ cand[at[p]] \in CandRows /\ saw[p] \in CandRows
    /\ text[p] \in MaybeText
  BY <1>0 DEF CandType, CommandType, AtType, SawType, TextType, Commands
<1>1. CandType'
  BY <1>0, <1>a, PatchType DEF CancelRow, CandType, CandRows, NoCand, TrendStatuses, MaybeText,
      Closed
<1>2. QueueType'
  BY <1>0, <1>a, RowStatusType DEF CancelRow, QueueType, QueueRows, CandRows, MaybeText,
      RowStatuses
<1>3. CommandType'
  BY <1>0, <1>a, StaysType, GotoType, LeaveType, StartType DEF CancelRow, PcNames,
      SchedulingSteps, MaybeText, CandRows
<1>4. HistoryType'
  BY <1>0, <1>a, SeeType DEF CancelRow, HistoryType, NoteOutdated, NoteTwin, Upset, Calm,
      history, cardHistory
<1> QED
  BY <1>1, <1>2, <1>3, <1>4 DEF TypeOK, CandType, QueueType, CommandType, HistoryType, PcType,
      AtType, SawType, TextType, PcNames, MaybeText, QueueRows
LEMMA TypeInsertRow ==
  ASSUME TypeOK, NEW p \in Taps, NEW q \in Rows, InsertRow(p, q)
  PROVE  TypeOK'
<1>0. CandType /\ QueueType /\ CommandType /\ HistoryType
  BY Typed
<1>a. p \in Commands /\ at[p] \in Cands /\ cand[at[p]] \in CandRows /\ saw[p] \in CandRows
    /\ text[p] \in MaybeText
  BY <1>0 DEF CandType, CommandType, AtType, SawType, TextType, Commands
<1>1. CandType'
  BY <1>0, <1>a, PatchType DEF InsertRow, CandType, CandRows, NoCand, TrendStatuses, MaybeText,
      Closed
<1>2. QueueType'
  BY <1>0, <1>a, RowStatusType DEF InsertRow, QueueType, QueueRows, CandRows, MaybeText,
      RowStatuses
<1>3. CommandType'
  BY <1>0, <1>a, StaysType, GotoType, LeaveType, StartType DEF InsertRow, Leave, NoCand,
      CommandType, PcType, AtType, SawType, TextType, PcNames, SchedulingSteps, MaybeText,
          CandRows
<1>4. HistoryType'
  BY <1>0, <1>a, SeeType DEF InsertRow, HistoryType, NoteOutdated, NoteTwin, Upset, Calm,
      history, cardHistory
<1> QED
  BY <1>1, <1>2, <1>3, <1>4 DEF TypeOK, CandType, QueueType, CommandType, HistoryType, PcType,
      AtType, SawType, TextType, PcNames, MaybeText, QueueRows
LEMMA TypePublish ==
  ASSUME TypeOK, NEW q \in Rows, Publish(q)
  PROVE  TypeOK'
<1>0. CandType /\ QueueType /\ CommandType /\ HistoryType
  BY Typed
<1>1. CandType'
  BY <1>0, PatchType DEF Publish, CandType, CandRows, NoCand, TrendStatuses, MaybeText, Closed
<1>2. QueueType'
  BY <1>0, RowStatusType DEF Publish, QueueType, QueueRows, CandRows, MaybeText, RowStatuses
<1>3. CommandType'
  BY <1>0, StaysType, GotoType, LeaveType, StartType DEF Publish, PcNames, SchedulingSteps,
      MaybeText, CandRows
<1>4. HistoryType'
  BY <1>0, SeeType DEF Publish, HistoryType, NoteOutdated, NoteTwin, Upset, Calm, history,
      cardHistory
<1> QED
  BY <1>1, <1>2, <1>3, <1>4 DEF TypeOK, CandType, QueueType, CommandType, HistoryType, PcType,
      AtType, SawType, TextType, PcNames, MaybeText, QueueRows
LEMMA TypeCrash ==
  ASSUME TypeOK, NEW p \in Commands, Crash(p)
  PROVE  TypeOK'
<1>0. CandType /\ QueueType /\ CommandType /\ HistoryType
  BY Typed
<1>a. p \in Commands /\ at[p] \in Cands /\ cand[at[p]] \in CandRows /\ saw[p] \in CandRows
    /\ text[p] \in MaybeText
  BY <1>0 DEF CandType, CommandType, AtType, SawType, TextType, Commands
<1>1. CandType'
  BY <1>0, <1>a, PatchType DEF Crash, CandType, CandRows, NoCand, TrendStatuses, MaybeText,
      Closed
<1>2. QueueType'
  BY <1>0, <1>a, RowStatusType DEF Crash, QueueType, QueueRows, CandRows, MaybeText, RowStatuses
<1>3. CommandType'
  BY <1>0, <1>a, StaysType, GotoType, LeaveType, StartType DEF Crash, PcNames, SchedulingSteps,
      MaybeText, CandRows
<1>4. HistoryType'
  BY <1>0, <1>a, SeeType DEF Crash, HistoryType, NoteOutdated, NoteTwin, Upset, Calm, history,
      cardHistory
<1> QED
  BY <1>1, <1>2, <1>3, <1>4 DEF TypeOK, CandType, QueueType, CommandType, HistoryType, PcType,
      AtType, SawType, TextType, PcNames, MaybeText, QueueRows
LEMMA TypeStep == TypeOK /\ [Next]_trendVars => TypeOK'
<1> SUFFICES ASSUME TypeOK, [Next]_trendVars PROVE TypeOK'
  OBVIOUS
<1>1. CASE UNCHANGED trendVars
  BY <1>1 DEF TypeOK, trendVars, commands, history, cardHistory
<1>2. CASE Next
  <2>n. Next
    BY <1>2
  <2>1. ASSUME NEW c \in Cands, Insert(c) PROVE TypeOK'
    BY <2>1, TypeInsert
  <2>2. ASSUME NEW c \in Cands, InsertUnstamped(c) PROVE TypeOK'
    BY <2>2, TypeInsertUnstamped
  <2>3. ASSUME NEW c \in Cands, NEW q \in Rows, InsertLinked(c, q) PROVE TypeOK'
    BY <2>3, TypeInsertLinked
  <2>4. ASSUME NEW c \in Cands, Refuse(c) PROVE TypeOK'
    BY <2>4, TypeRefuse
  <2>5. ASSUME NEW c \in Cands, TimeOut(c) PROVE TypeOK'
    BY <2>5, TypeTimeOut
  <2>6. ASSUME NEW c \in Cands, ShowBacklog(c) PROVE TypeOK'
    BY <2>6, TypeShowBacklog
  <2>7. ASSUME NEW p \in Passes, NEW c \in Cands, BeginDraft(p, c) PROVE TypeOK'
    BY <2>7, TypeBeginDraft
  <2>8. ASSUME NEW p \in Passes, NEW c \in Cands, BeginResend(p, c) PROVE TypeOK'
    BY <2>8, TypeBeginResend
  <2>9. ASSUME NEW p \in Passes, Irrelevant(p) PROVE TypeOK'
    BY <2>9, TypeIrrelevant
  <2>10. ASSUME NEW p \in Passes, Stage(p) PROVE TypeOK'
    BY <2>10, TypeStage
  <2>11. ASSUME NEW p \in Passes, Claim(p) PROVE TypeOK'
    BY <2>11, TypeClaim
  <2>12. ASSUME NEW p \in Passes, SendCard(p) PROVE TypeOK'
    BY <2>12, TypeSendCard
  <2>13. ASSUME NEW p \in Passes, CardFails(p) PROVE TypeOK'
    BY <2>13, TypeCardFails
  <2>14. ASSUME NEW p \in Passes, Release(p) PROVE TypeOK'
    BY <2>14, TypeRelease
  <2>15. ASSUME NEW p \in Passes, Promote(p) PROVE TypeOK'
    BY <2>15, TypePromote
  <2>16. ASSUME NEW p \in Passes, RefRead(p) PROVE TypeOK'
    BY <2>16, TypeRefRead
  <2>17. ASSUME NEW p \in Passes, RefWrite(p) PROVE TypeOK'
    BY <2>17, TypeRefWrite
  <2>18. ASSUME NEW p \in Taps, NEW c \in Cands, BeginApprove(p, c) PROVE TypeOK'
    BY <2>18, TypeBeginApprove
  <2>19. ASSUME NEW p \in Taps, NEW c \in Cands, BeginUse(p, c) PROVE TypeOK'
    BY <2>19, TypeBeginUse
  <2>20. ASSUME NEW p \in Taps, NEW c \in Cands, BeginRefresh(p, c) PROVE TypeOK'
    BY <2>20, TypeBeginRefresh
  <2>21. ASSUME NEW p \in Taps, NEW c \in Cands, BeginRaw(p, c) PROVE TypeOK'
    BY <2>21, TypeBeginRaw
  <2>22. ASSUME NEW p \in Taps, NEW c \in Cands, BeginSchedule(p, c) PROVE TypeOK'
    BY <2>22, TypeBeginSchedule
  <2>23. ASSUME NEW p \in Taps, NEW c \in Cands, BeginCancel(p, c) PROVE TypeOK'
    BY <2>23, TypeBeginCancel
  <2>24. ASSUME NEW p \in Taps, NEW c \in Cands, NEW t \in Texts, BeginEdit(p, c,
      t) PROVE TypeOK'
    BY <2>24, TypeBeginEdit
  <2>25. ASSUME NEW p \in Taps, SaveDecision(p) PROVE TypeOK'
    BY <2>25, TypeSaveDecision
  <2>26. ASSUME NEW p \in Taps, SaveDraft(p) PROVE TypeOK'
    BY <2>26, TypeSaveDraft
  <2>27. ASSUME NEW p \in Taps, RawWrite(p) PROVE TypeOK'
    BY <2>27, TypeRawWrite
  <2>28. ASSUME NEW p \in Taps, PromoteRow(p) PROVE TypeOK'
    BY <2>28, TypePromoteRow
  <2>29. ASSUME NEW p \in Taps, FetchRow(p) PROVE TypeOK'
    BY <2>29, TypeFetchRow
  <2>30. ASSUME NEW p \in Taps, Finalize(p) PROVE TypeOK'
    BY <2>30, TypeFinalize
  <2>31. ASSUME NEW p \in Taps, CancelRow(p) PROVE TypeOK'
    BY <2>31, TypeCancelRow
  <2>32. ASSUME NEW p \in Taps, NEW q \in Rows, InsertRow(p, q) PROVE TypeOK'
    BY <2>32, TypeInsertRow
  <2>33. ASSUME NEW q \in Rows, Publish(q) PROVE TypeOK'
    BY <2>33, TypePublish
  <2>34. ASSUME NEW p \in Commands, Crash(p) PROVE TypeOK'
    BY <2>34, TypeCrash
  <2> QED
    BY <2>n, <2>1, <2>2, <2>3, <2>4, <2>5, <2>6, <2>7, <2>8, <2>9, <2>10, <2>11, <2>12, <2>13,
        <2>14, <2>15, <2>16, <2>17, <2>18, <2>19, <2>20, <2>21, <2>22, <2>23, <2>24, <2>25,
            <2>26, <2>27, <2>28, <2>29, <2>30, <2>31, <2>32, <2>33, <2>34 DEF Next, PassStep,
                TapStep, BeginTap
<1> QED
  BY <1>1, <1>2

\* The rows are what the migrations declare, and every command's progress is one
\* of its steps, whatever the number of commands.
THEOREM TypeCorrect == Spec => []TypeOK
<1>1. Init => TypeOK
  <2>1. NoCand \in CandRows /\ (CHOOSE c \in Cands : TRUE) \in Cands
    BY NoCandType, CandsAssumption
  <2> QED
    BY <2>1, TrendUpsetsAssumption DEF Init, TypeOK, NoRow, RowStatuses, history
<1> QED
  BY <1>1, TypeStep, PTL DEF Spec

-----------------------------------------------------------------------------
(***************************************************************************)
(* What the actions with more than one outcome do, field by field: each    *)
(* effect is one outcome.                                                  *)
(***************************************************************************)

SchedulesAs == SchedulingSteps \ {"cancelRow"}
HoldingSteps == {"send", "resend", "promote", "release"}
SeenOr(c, t) == t \in shown[c] \/ c \in outdated
RefuseEffect(c) ==
  /\ cand[c].status \in {"pending_approval", "backlog"} /\ cand'[c].status \in Closed
  /\ <<cand[c].status, cand'[c].status>> \in Edges
  /\ \A d \in Cands : /\ cand'[d].draft = cand[d].draft /\ cand'[d].stamp = cand[d].stamp
                      /\ cand'[d].link = cand[d].link
  /\ \A d \in Cands : d # c => cand'[d].status = cand[d].status
  /\ refused' = refused \cup {c}
  /\ UNCHANGED <<queue, pc, at, saw, text, origin, shown, cards, lost, orphans, granted,
      outdated, twins>>
ClaimEffect1(p) ==
  /\ Claimable(at[p])
  /\ pc[p] \in {"claim", "reclaim"}
  /\ \A d \in Cands : cand'[d].status = cand[d].status /\ cand'[d].draft = cand[d].draft
      /\ cand'[d].link = cand[d].link
  /\ \A d \in Cands : d # at[p] => cand'[d].stamp = cand[d].stamp
  /\ cand'[at[p]].stamp = TRUE
  /\ \A r \in Commands \ {p} : pc'[r] = pc[r] /\ saw'[r] = saw[r] /\ text'[r] = text[r]
  /\ pc'[p] = (IF pc[p] = "claim" THEN "send" ELSE "resend")
  /\ at' = at
  /\ UNCHANGED <<origin, cards, lost, orphans, granted, refused, outdated, twins, shown, queue>>
ClaimEffect2(p) ==
  /\ ~Claimable(at[p])
  /\ pc[p] \in {"claim", "reclaim"}
  /\ cand' = cand
  /\ \A r \in Commands \ {p} : pc'[r] = pc[r] /\ saw'[r] = saw[r] /\ text'[r] = text[r]
  /\ pc'[p] = "idle"
  /\ at' = at
  /\ UNCHANGED <<origin, cards, lost, orphans, granted, refused, outdated, twins, shown, queue>>
PromoteEffect1(p) ==
  /\ Matches(at[p], {"drafted"})
  /\ pc[p] = "promote"
  /\ \A d \in Cands : cand'[d].draft = cand[d].draft /\ cand'[d].link = cand[d].link
  /\ \A d \in Cands : d # at[p] => cand'[d].status = cand[d].status
  /\ cand'[at[p]].status = "pending_approval"
  /\ \A d \in Cands : d # at[p] => cand'[d].stamp = cand[d].stamp
  /\ cand'[at[p]].stamp = TRUE
  /\ \A r \in Commands \ {p} : pc'[r] = pc[r] /\ saw'[r] = saw[r] /\ text'[r] = text[r]
  /\ pc'[p] = "refRead"
  /\ at' = at
  /\ UNCHANGED <<origin, cards, lost, orphans, granted, refused, outdated, twins, shown, queue>>
PromoteEffect2(p) ==
  /\ ~Matches(at[p], {"drafted"})
  /\ pc[p] = "promote"
  /\ cand' = cand
  /\ \A r \in Commands \ {p} : pc'[r] = pc[r] /\ saw'[r] = saw[r] /\ text'[r] = text[r]
  /\ pc'[p] = "idle"
  /\ at' = at
  /\ UNCHANGED <<origin, cards, lost, orphans, granted, refused, outdated, twins, shown, queue>>
RefReadEffect1(p) ==
  /\ Matches(at[p], {"pending_approval"})
  /\ pc[p] = "refRead"
  /\ cand' = cand
  /\ \A r \in Commands \ {p} : pc'[r] = pc[r] /\ saw'[r] = saw[r] /\ text'[r] = text[r]
  /\ pc'[p] = "refWrite"
  /\ at' = at
  /\ UNCHANGED <<origin, cards, lost, orphans, granted, refused, outdated, twins, shown, queue>>
RefReadEffect2(p) ==
  /\ ~Matches(at[p], {"pending_approval"})
  /\ pc[p] = "refRead"
  /\ cand' = cand
  /\ \A r \in Commands \ {p} : pc'[r] = pc[r] /\ saw'[r] = saw[r] /\ text'[r] = text[r]
  /\ pc'[p] = "idle"
  /\ at' = at
  /\ UNCHANGED <<origin, cards, lost, orphans, granted, refused, outdated, twins, shown, queue>>
RefWriteEffect1(p) ==
  /\ Matches(at[p], {"pending_approval"})
  /\ pc[p] = "refWrite"
  /\ \A d \in Cands : cand'[d].status = cand[d].status /\ cand'[d].stamp = cand[d].stamp
      /\ cand'[d].link = cand[d].link
  /\ \A d \in Cands : d # at[p] => cand'[d].draft = cand[d].draft
  /\ cand'[at[p]].draft = saw[p].draft
  /\ \A r \in Commands \ {p} : pc'[r] = pc[r] /\ saw'[r] = saw[r] /\ text'[r] = text[r]
  /\ pc'[p] = "idle"
  /\ at' = at
  /\ outdated \subseteq outdated'
      /\ (cand[at[p]].status # saw[p].status \/ cand[at[p]].draft # saw[p].draft => at[p] \in outdated')
  /\ UNCHANGED <<origin, cards, lost, orphans, granted, refused, twins, shown, queue>>
RefWriteEffect2(p) ==
  /\ ~Matches(at[p], {"pending_approval"})
  /\ pc[p] = "refWrite"
  /\ cand' = cand
  /\ \A r \in Commands \ {p} : pc'[r] = pc[r] /\ saw'[r] = saw[r] /\ text'[r] = text[r]
  /\ pc'[p] = "idle"
  /\ at' = at
  /\ UNCHANGED <<origin, cards, lost, orphans, granted, refused, outdated, twins, shown, queue>>
SaveDecisionEffect1(p) ==
  /\ Swappable(p, at[p])
  /\ pc[p] \in {"approve", "use"}
  /\ \A d \in Cands : cand'[d].draft = cand[d].draft /\ cand'[d].stamp = cand[d].stamp
      /\ cand'[d].link = cand[d].link
  /\ \A d \in Cands : d # at[p] => cand'[d].status = cand[d].status
  /\ cand'[at[p]].status = "approved"
  /\ \A r \in Commands \ {p} : pc'[r] = pc[r] /\ saw'[r] = saw[r] /\ text'[r] = text[r]
  /\ pc'[p] = "idle"
  /\ at' = at
  /\ granted' = granted \cup {at[p]}
  /\ (\A d \in Cands : shown[d] \subseteq shown'[d])
      /\ (saw[p].draft \in Texts => saw[p].draft \in shown'[at[p]])
  /\ outdated \subseteq outdated'
      /\ (cand[at[p]].status # saw[p].status \/ cand[at[p]].draft # saw[p].draft => at[p] \in outdated')
  /\ UNCHANGED <<origin, cards, lost, orphans, refused, twins, queue>>
SaveDecisionEffect2(p) ==
  /\ ~Swappable(p, at[p])
  /\ pc[p] \in {"approve", "use"}
  /\ cand' = cand
  /\ \A r \in Commands \ {p} : pc'[r] = pc[r] /\ saw'[r] = saw[r] /\ text'[r] = text[r]
  /\ pc'[p] = "idle"
  /\ at' = at
  /\ UNCHANGED <<origin, cards, lost, orphans, granted, refused, outdated, twins, shown, queue>>
PromoteRowEffect1(p) ==
  /\ queue[saw[p].link].status = "draft"
  /\ pc[p] = "promoteRow"
  /\ cand' = cand
  /\ \A r \in Commands \ {p} : pc'[r] = pc[r] /\ saw'[r] = saw[r] /\ text'[r] = text[r]
  /\ pc'[p] = "finalize"
  /\ at' = at
  /\ saw' = saw
  /\ (\A q \in Rows : queue'[q].cand = queue[q].cand /\ queue'[q].text = queue[q].text
      /\ (queue[q].status = "absent" <=> queue'[q].status = "absent"))
  /\ UNCHANGED <<origin, cards, lost, orphans, granted, refused, outdated, twins, shown>>
PromoteRowEffect2(p) ==
  /\ queue[saw[p].link].status # "draft"
  /\ pc[p] = "promoteRow"
  /\ cand' = cand
  /\ \A r \in Commands \ {p} : pc'[r] = pc[r] /\ saw'[r] = saw[r] /\ text'[r] = text[r]
  /\ pc'[p] = "fetchRow"
  /\ at' = at
  /\ saw' = saw
  /\ UNCHANGED <<origin, cards, lost, orphans, granted, refused, outdated, twins, shown, queue>>
IrrelevantEffect1(p) ==
  /\ saw[p].status = "discovered"
  /\ pc[p] = "compose"
  /\ \A d \in Cands : cand'[d].draft = cand[d].draft /\ cand'[d].stamp = cand[d].stamp
      /\ cand'[d].link = cand[d].link
  /\ \A d \in Cands : d # at[p] => cand'[d].status = cand[d].status
  /\ cand'[at[p]].status = "skipped"
  /\ \A r \in Commands \ {p} : pc'[r] = pc[r] /\ saw'[r] = saw[r] /\ text'[r] = text[r]
  /\ pc'[p] = "idle"
  /\ at' = at
  /\ outdated \subseteq outdated'
      /\ (cand[at[p]].status # saw[p].status \/ cand[at[p]].draft # saw[p].draft => at[p] \in outdated')
  /\ UNCHANGED <<origin, cards, lost, orphans, granted, refused, twins, shown, queue>>
IrrelevantEffect2(p) ==
  /\ saw[p].status # "discovered"
  /\ pc[p] = "compose"
  /\ cand' = cand
  /\ \A r \in Commands \ {p} : pc'[r] = pc[r] /\ saw'[r] = saw[r] /\ text'[r] = text[r]
  /\ pc'[p] = "idle"
  /\ at' = at
  /\ UNCHANGED <<origin, cards, lost, orphans, granted, refused, outdated, twins, shown, queue>>
CardFailsEffect1(p) ==
  /\ pc[p] \in {"send", "resend"}
  /\ cand' = cand
  /\ \A r \in Commands \ {p} : pc'[r] = pc[r] /\ saw'[r] = saw[r] /\ text'[r] = text[r]
  /\ pc'[p] = "release"
  /\ at' = at
  /\ UNCHANGED <<origin, cards, lost, orphans, granted, refused, outdated, twins, shown, queue>>
CardFailsEffect2(p) ==
  /\ pc[p] \in {"send", "resend"}
  /\ cand' = cand
  /\ \A r \in Commands \ {p} : pc'[r] = pc[r] /\ saw'[r] = saw[r] /\ text'[r] = text[r]
  /\ pc'[p] = "release"
  /\ at' = at
  /\ (\A d \in Cands \ {at[p]} : cards'[d] = cards[d]) /\ cards'[at[p]] = cards[at[p]] + 1
  /\ (\A d \in Cands \ {at[p]} : lost'[d] = lost[d]) /\ lost'[at[p]] = lost[at[p]] + 1
  /\ \A d \in Cands : shown[d] \subseteq shown'[d]
  /\ UNCHANGED <<origin, orphans, granted, refused, outdated, twins, queue>>
FinalizeEffect1(p) ==
  /\ pc[p] = "finalize"
  /\ pc[p] \in SchedulesAs
  /\ \A d \in Cands : cand'[d].draft = cand[d].draft /\ cand'[d].stamp = cand[d].stamp
  /\ \A d \in Cands : d # at[p] => cand'[d].status = cand[d].status
  /\ cand'[at[p]].status = "queued"
  /\ \A d \in Cands : d # at[p] => cand'[d].link = cand[d].link
  /\ cand'[at[p]].link = saw[p].link
  /\ \A r \in Commands \ {p} : pc'[r] = pc[r] /\ saw'[r] = saw[r] /\ text'[r] = text[r]
  /\ pc'[p] = "idle"
  /\ at' = at
  /\ outdated \subseteq outdated'
      /\ (cand[at[p]].status # saw[p].status \/ cand[at[p]].draft # saw[p].draft => at[p] \in outdated')
  /\ UNCHANGED <<origin, cards, lost, orphans, granted, refused, twins, shown, queue>>
SaveDraftEffect1(p) ==
  /\ pc[p] = "edit"
  /\ pc[p] \in {"edit", "refresh"}
  /\ \A d \in Cands : cand'[d].status = cand[d].status /\ cand'[d].stamp = cand[d].stamp
      /\ cand'[d].link = cand[d].link
  /\ \A d \in Cands : d # at[p] => cand'[d].draft = cand[d].draft
  /\ cand'[at[p]].draft = text[p]
  /\ \A r \in Commands \ {p} : pc'[r] = pc[r] /\ saw'[r] = saw[r] /\ text'[r] = text[r]
  /\ pc'[p] = "idle"
  /\ at' = at
  /\ outdated \subseteq outdated'
      /\ (cand[at[p]].status # saw[p].status \/ cand[at[p]].draft # saw[p].draft => at[p] \in outdated')
  /\ (\A d \in Cands : shown[d] \subseteq shown'[d])
      /\ (text[p] \in Texts => text[p] \in shown'[at[p]])
  /\ UNCHANGED <<origin, cards, lost, orphans, granted, refused, twins, queue>>
SaveDraftEffect2(p) ==
  /\ pc[p] = "refresh"
  /\ pc[p] \in {"edit", "refresh"}
  /\ \A d \in Cands : cand'[d].status = cand[d].status /\ cand'[d].stamp = cand[d].stamp
      /\ cand'[d].link = cand[d].link
  /\ \A d \in Cands : d # at[p] => cand'[d].draft = cand[d].draft
  /\ cand'[at[p]].draft = text[p]
  /\ \A r \in Commands \ {p} : pc'[r] = pc[r] /\ saw'[r] = saw[r] /\ text'[r] = text[r]
  /\ pc'[p] = "idle"
  /\ at' = at
  /\ outdated \subseteq outdated'
      /\ (cand[at[p]].status # saw[p].status \/ cand[at[p]].draft # saw[p].draft => at[p] \in outdated')
  /\ UNCHANGED <<origin, cards, lost, orphans, granted, refused, twins, shown, queue>>
StageEffect1(p) ==
  /\ pc[p] = "compose"
  /\ cand' = cand
  /\ \A r \in Commands \ {p} : pc'[r] = pc[r] /\ saw'[r] = saw[r] /\ text'[r] = text[r]
  /\ pc'[p] = "idle"
  /\ at' = at
  /\ UNCHANGED <<origin, cards, lost, orphans, granted, refused, outdated, twins, shown, queue>>
StageEffect2(p) ==
  /\ saw[p].status = "discovered" /\ cand[at[p]].status = "discovered"
  /\ pc[p] = "compose"
  /\ \A d \in Cands : cand'[d].stamp = cand[d].stamp /\ cand'[d].link = cand[d].link
  /\ \A d \in Cands : d # at[p] => cand'[d].status = cand[d].status
  /\ cand'[at[p]].status = "drafted"
  /\ \A d \in Cands : d # at[p] => cand'[d].draft = cand[d].draft
  /\ \A r \in Commands \ {p} : pc'[r] = pc[r] /\ saw'[r] = saw[r] /\ text'[r] = text[r]
  /\ pc'[p] = "claim"
  /\ at' = at
  /\ outdated \subseteq outdated'
      /\ (cand[at[p]].status # saw[p].status \/ cand[at[p]].draft # saw[p].draft => at[p] \in outdated')
  /\ UNCHANGED <<origin, cards, lost, orphans, granted, refused, twins, shown, queue>>
StageEffect3(p) ==
  /\ saw[p].status # "discovered"
  /\ pc[p] = "compose"
  /\ \A d \in Cands : cand'[d].status = cand[d].status /\ cand'[d].stamp = cand[d].stamp
      /\ cand'[d].link = cand[d].link
  /\ \A d \in Cands : d # at[p] => cand'[d].draft = cand[d].draft
  /\ \A r \in Commands \ {p} : pc'[r] = pc[r] /\ saw'[r] = saw[r] /\ text'[r] = text[r]
  /\ pc'[p] = "claim"
  /\ at' = at
  /\ outdated \subseteq outdated'
      /\ (cand[at[p]].status # saw[p].status \/ cand[at[p]].draft # saw[p].draft => at[p] \in outdated')
  /\ UNCHANGED <<origin, cards, lost, orphans, granted, refused, twins, shown, queue>>

LEMMA RefuseEffectHolds ==
  ASSUME TypeOK, NEW c \in Cands, Refuse(c)
  PROVE  RefuseEffect(c)
<1>1. PICK s \in Closed :
        /\ cand' = [cand EXCEPT ![c] = [cand[c] EXCEPT !.status = s]]
        /\ cand[c].status \in {"pending_approval", "backlog"} /\ <<cand[c].status, s>> \in Edges
  <2>1. CASE Matches(c, {"pending_approval"})
    BY <2>1 DEF Refuse, Matches, Patch, Closed, Edges
  <2>2. CASE ~Matches(c, {"pending_approval"})
    BY <2>2 DEF Refuse, Matches, Patch, Closed, Edges
  <2> QED
    BY <2>1, <2>2
<1>2. cand'[c] = [cand[c] EXCEPT !.status = s] /\ \A d \in Cands : d # c => cand'[d] = cand[d]
  BY <1>1 DEF TypeOK
<1>3. /\ cand'[c].status = s /\ cand'[c].draft = cand[c].draft /\ cand'[c].stamp = cand[c].stamp
      /\ cand'[c].link = cand[c].link
  BY <1>2 DEF TypeOK, CandRows
<1> QED
  BY <1>1, <1>2, <1>3 DEF Refuse, RefuseEffect, history, cardHistory, commands
LEMMA ClaimEffect ==
  ASSUME TypeOK, NEW p \in Passes, Claim(p)
  PROVE  ClaimEffect1(p) \/ ClaimEffect2(p)
<1>0. p \in Commands /\ at[p] \in Cands /\ cand[at[p]] \in CandRows /\ saw[p] \in CandRows
  BY DEF Commands, TypeOK
<1>1. CASE Claimable(at[p])
  <2>1. cand' = [cand EXCEPT ![at[p]] = [cand[at[p]] EXCEPT !.stamp = TRUE]]
    BY <1>0, <1>1 DEF Claim, Patch
  <2>2. cand'[at[p]] = [cand[at[p]] EXCEPT !.stamp = TRUE]
      /\ \A d \in Cands : d # at[p] => cand'[d] = cand[d]
    BY <1>0, <2>1 DEF TypeOK
  <2>3. cand'[at[p]].status = cand[at[p]].status /\ cand'[at[p]].draft = cand[at[p]].draft
      /\ cand'[at[p]].stamp = TRUE /\ cand'[at[p]].link = cand[at[p]].link
    BY <1>0, <2>2 DEF CandRows
  <2>4. /\ \A r \in Commands \ {p} : pc'[r] = pc[r] /\ saw'[r] = saw[r] /\ text'[r] = text[r]
        /\ pc'[p] = (IF pc[p] = "claim" THEN "send" ELSE "resend") /\ at' = at
    BY <1>0, <1>1 DEF Claim, TypeOK, Goto, Leave
  <2> QED
    BY <1>0, <1>1, <2>2, <2>3, <2>4 DEF Claim, ClaimEffect1, TypeOK, CandRows, Patch, Goto,
        Leave, See, SetRow, NoteOutdated, Outdated, Matches, Swappable, SchedulesAs,
            SchedulingSteps, history, cardHistory
<1>2. CASE ~Claimable(at[p])
  BY <1>0, <1>2 DEF Claim, ClaimEffect2, TypeOK, CandRows, Patch, Goto, Leave, See, SetRow,
      NoteOutdated, Outdated, Matches, Swappable, history, cardHistory
<1> QED
  BY <1>1, <1>2
LEMMA PromoteEffect ==
  ASSUME TypeOK, NEW p \in Passes, Promote(p)
  PROVE  PromoteEffect1(p) \/ PromoteEffect2(p)
<1>0. p \in Commands /\ at[p] \in Cands /\ cand[at[p]] \in CandRows /\ saw[p] \in CandRows
  BY DEF Commands, TypeOK
<1>1. CASE Matches(at[p], {"drafted"})
  <2>1. cand' = [cand EXCEPT ![at[p]] = [cand[at[p]] EXCEPT !.status = "pending_approval",
      !.stamp = TRUE]]
    BY <1>0, <1>1 DEF Promote, Patch
  <2>2. cand'[at[p]] = [cand[at[p]] EXCEPT !.status = "pending_approval",
      !.stamp = TRUE] /\ \A d \in Cands : d # at[p] => cand'[d] = cand[d]
    BY <1>0, <2>1 DEF TypeOK
  <2>3. cand'[at[p]].status = "pending_approval" /\ cand'[at[p]].draft = cand[at[p]].draft
      /\ cand'[at[p]].stamp = TRUE /\ cand'[at[p]].link = cand[at[p]].link
    BY <1>0, <2>2 DEF CandRows
  <2>4. /\ \A r \in Commands \ {p} : pc'[r] = pc[r] /\ saw'[r] = saw[r] /\ text'[r] = text[r]
        /\ pc'[p] = "refRead" /\ at' = at
    BY <1>0, <1>1 DEF Promote, TypeOK, Goto, Leave
  <2> QED
    BY <1>0, <1>1, <2>2, <2>3, <2>4 DEF Promote, PromoteEffect1, TypeOK, CandRows, Patch, Goto,
        Leave, See, SetRow, NoteOutdated, Outdated, Matches, Swappable, SchedulesAs,
            SchedulingSteps, history, cardHistory
<1>2. CASE ~Matches(at[p], {"drafted"})
  BY <1>0, <1>2 DEF Promote, PromoteEffect2, TypeOK, CandRows, Patch, Goto, Leave, See, SetRow,
      NoteOutdated, Outdated, Matches, Swappable, history, cardHistory
<1> QED
  BY <1>1, <1>2
LEMMA RefReadEffect ==
  ASSUME TypeOK, NEW p \in Passes, RefRead(p)
  PROVE  RefReadEffect1(p) \/ RefReadEffect2(p)
<1>0. p \in Commands /\ at[p] \in Cands /\ cand[at[p]] \in CandRows /\ saw[p] \in CandRows
  BY DEF Commands, TypeOK
<1>1. CASE Matches(at[p], {"pending_approval"})
  BY <1>0, <1>1 DEF RefRead, RefReadEffect1, TypeOK, CandRows, Patch, Goto, Leave, See, SetRow,
      NoteOutdated, Outdated, Matches, Swappable, history, cardHistory
<1>2. CASE ~Matches(at[p], {"pending_approval"})
  BY <1>0, <1>2 DEF RefRead, RefReadEffect2, TypeOK, CandRows, Patch, Goto, Leave, See, SetRow,
      NoteOutdated, Outdated, Matches, Swappable, history, cardHistory
<1> QED
  BY <1>1, <1>2
LEMMA RefWriteEffect ==
  ASSUME TypeOK, NEW p \in Passes, RefWrite(p)
  PROVE  RefWriteEffect1(p) \/ RefWriteEffect2(p)
<1>0. p \in Commands /\ at[p] \in Cands /\ cand[at[p]] \in CandRows /\ saw[p] \in CandRows
  BY DEF Commands, TypeOK
<1>1. CASE Matches(at[p], {"pending_approval"})
  <2>1. cand' = [cand EXCEPT ![at[p]] = [cand[at[p]] EXCEPT !.draft = saw[p].draft]]
    BY <1>0, <1>1 DEF RefWrite, Patch
  <2>2. cand'[at[p]] = [cand[at[p]] EXCEPT !.draft = saw[p].draft]
      /\ \A d \in Cands : d # at[p] => cand'[d] = cand[d]
    BY <1>0, <2>1 DEF TypeOK
  <2>3. cand'[at[p]].status = cand[at[p]].status /\ cand'[at[p]].draft = saw[p].draft
      /\ cand'[at[p]].stamp = cand[at[p]].stamp /\ cand'[at[p]].link = cand[at[p]].link
    BY <1>0, <2>2 DEF CandRows
  <2>4. /\ \A r \in Commands \ {p} : pc'[r] = pc[r] /\ saw'[r] = saw[r] /\ text'[r] = text[r]
        /\ pc'[p] = "idle" /\ at' = at
    BY <1>0, <1>1 DEF RefWrite, TypeOK, Goto, Leave
  <2> QED
    BY <1>0, <1>1, <2>2, <2>3, <2>4, ZenonT(60) DEF RefWrite, RefWriteEffect1, TypeOK, CandRows, Patch,
        Goto, Leave, See, SetRow, NoteOutdated, Outdated, Matches, Swappable, SchedulesAs,
            SchedulingSteps, history, cardHistory
<1>2. CASE ~Matches(at[p], {"pending_approval"})
  BY <1>0, <1>2 DEF RefWrite, RefWriteEffect2, TypeOK, CandRows, Patch, Goto, Leave, See,
      SetRow, NoteOutdated, Outdated, Matches, Swappable, history, cardHistory
<1> QED
  BY <1>1, <1>2
LEMMA SaveDecisionEffect ==
  ASSUME TypeOK, NEW p \in Taps, SaveDecision(p)
  PROVE  SaveDecisionEffect1(p) \/ SaveDecisionEffect2(p)
<1>0. p \in Commands /\ at[p] \in Cands /\ cand[at[p]] \in CandRows /\ saw[p] \in CandRows
  BY DEF Commands, TypeOK
<1>1. CASE Swappable(p, at[p])
  <2>1. cand' = [cand EXCEPT ![at[p]] = [cand[at[p]] EXCEPT !.status = "approved"]]
    BY <1>0, <1>1 DEF SaveDecision, Patch
  <2>2. cand'[at[p]] = [cand[at[p]] EXCEPT !.status = "approved"]
      /\ \A d \in Cands : d # at[p] => cand'[d] = cand[d]
    BY <1>0, <2>1 DEF TypeOK
  <2>3. cand'[at[p]].status = "approved" /\ cand'[at[p]].draft = cand[at[p]].draft
      /\ cand'[at[p]].stamp = cand[at[p]].stamp /\ cand'[at[p]].link = cand[at[p]].link
    BY <1>0, <2>2 DEF CandRows
  <2>4. /\ \A r \in Commands \ {p} : pc'[r] = pc[r] /\ saw'[r] = saw[r] /\ text'[r] = text[r]
        /\ pc'[p] = "idle" /\ at' = at
    BY <1>0, <1>1 DEF SaveDecision, TypeOK, Goto, Leave
  <2>5. (\A d \in Cands : shown[d] \subseteq shown'[d])
      /\ (saw[p].draft \in Texts => saw[p].draft \in shown'[at[p]])
    BY <1>0, <1>1 DEF SaveDecision, See, TypeOK
  <2>6. outdated \subseteq outdated'
      /\ (cand[at[p]].status # saw[p].status \/ cand[at[p]].draft # saw[p].draft => at[p] \in outdated')
    BY <1>0, <1>1 DEF SaveDecision, NoteOutdated, Outdated
  <2> QED
    BY <1>0, <1>1, <2>2, <2>3, <2>4, <2>5, <2>6 DEF SaveDecision, SaveDecisionEffect1, TypeOK,
        CandRows, Patch, Goto, Leave, SetRow, Matches, Swappable, SchedulesAs, SchedulingSteps,
            history, cardHistory
<1>2. CASE ~Swappable(p, at[p])
  BY <1>0, <1>2 DEF SaveDecision, SaveDecisionEffect2, TypeOK, CandRows, Patch, Goto, Leave,
      See, SetRow, NoteOutdated, Outdated, Matches, Swappable, history, cardHistory
<1> QED
  BY <1>1, <1>2
LEMMA PromoteRowEffect ==
  ASSUME TypeOK, NEW p \in Taps, PromoteRow(p)
  PROVE  PromoteRowEffect1(p) \/ PromoteRowEffect2(p)
<1>0. p \in Commands /\ at[p] \in Cands /\ cand[at[p]] \in CandRows /\ saw[p] \in CandRows
  BY DEF Commands, TypeOK
<1>1. CASE queue[saw[p].link].status = "draft"
  <2>1. queue' = [queue EXCEPT ![saw[p].link].status = "approved"] /\ Goto(p, "finalize")
    BY <1>1 DEF PromoteRow, SetRow
  <2>2. \A q \in Rows : queue'[q].cand = queue[q].cand /\ queue'[q].text = queue[q].text
      /\ (queue[q].status = "absent" <=> queue'[q].status = "absent")
    BY <1>1, <2>1 DEF TypeOK
  <2> QED
    BY <1>0, <1>1, <2>1, <2>2 DEF PromoteRow, PromoteRowEffect1, TypeOK, Goto, history,
        cardHistory
<1>2. CASE queue[saw[p].link].status # "draft"
  BY <1>0, <1>2 DEF PromoteRow, PromoteRowEffect2, TypeOK, CandRows, Patch, Goto, Leave, See,
      SetRow, NoteOutdated, Outdated, Matches, Swappable, history, cardHistory
<1> QED
  BY <1>1, <1>2
LEMMA IrrelevantEffect ==
  ASSUME TypeOK, NEW p \in Passes, Irrelevant(p)
  PROVE  IrrelevantEffect1(p) \/ IrrelevantEffect2(p)
<1>0. p \in Commands /\ at[p] \in Cands /\ cand[at[p]] \in CandRows /\ saw[p] \in CandRows
  BY DEF Commands, TypeOK
<1>1. CASE saw[p].status = "discovered"
  <2>1. cand' = [cand EXCEPT ![at[p]] = [cand[at[p]] EXCEPT !.status = "skipped"]]
    BY <1>0, <1>1 DEF Irrelevant, Patch
  <2>2. cand'[at[p]] = [cand[at[p]] EXCEPT !.status = "skipped"]
      /\ \A d \in Cands : d # at[p] => cand'[d] = cand[d]
    BY <1>0, <2>1 DEF TypeOK
  <2>3. cand'[at[p]].status = "skipped" /\ cand'[at[p]].draft = cand[at[p]].draft
      /\ cand'[at[p]].stamp = cand[at[p]].stamp /\ cand'[at[p]].link = cand[at[p]].link
    BY <1>0, <2>2 DEF CandRows
  <2>4. /\ \A r \in Commands \ {p} : pc'[r] = pc[r] /\ saw'[r] = saw[r] /\ text'[r] = text[r]
        /\ pc'[p] = "idle" /\ at' = at
    BY <1>0, <1>1 DEF Irrelevant, TypeOK, Goto, Leave
  <2> QED
    BY <1>0, <1>1, <2>2, <2>3, <2>4, ZenonT(60) DEF Irrelevant, IrrelevantEffect1, TypeOK, CandRows, Patch,
        Goto, Leave, See, SetRow, NoteOutdated, Outdated, Matches, Swappable, SchedulesAs,
            SchedulingSteps, history, cardHistory
<1>2. CASE saw[p].status # "discovered"
  BY <1>0, <1>2 DEF Irrelevant, IrrelevantEffect2, TypeOK, CandRows, Patch, Goto, Leave, See,
      SetRow, NoteOutdated, Outdated, Matches, Swappable, history, cardHistory
<1> QED
  BY <1>1, <1>2
LEMMA CardFailsEffect ==
  ASSUME TypeOK, NEW p \in Passes, CardFails(p)
  PROVE  CardFailsEffect1(p) \/ CardFailsEffect2(p)
<1>0. p \in Commands /\ at[p] \in Cands /\ cand[at[p]] \in CandRows /\ saw[p] \in CandRows
  BY DEF Commands, TypeOK
<1>1. CASE cards' = cards /\ lost' = lost /\ shown' = shown
  BY <1>0, <1>1 DEF CardFails, CardText, CardFailsEffect1, TypeOK, CandRows, Patch, Goto,
      Leave, See, SetRow, NoteOutdated, Outdated, Matches, Swappable, history, cardHistory
<1>2. CASE cards' = [cards EXCEPT ![at[p]] = @ + 1] /\ lost' = [lost EXCEPT ![at[p]] = @ + 1]
  BY <1>0, <1>2, SMTT(30) DEF CardFails, CardText, CardFailsEffect2, TypeOK, CandRows, Patch, Goto,
      Leave, See, SetRow, NoteOutdated, Outdated, Matches, Swappable, history, cardHistory
<1> QED
  BY <1>1, <1>2 DEF CardFails, CardText
LEMMA FinalizeEffect ==
  ASSUME TypeOK, NEW p \in Taps, Finalize(p)
  PROVE  FinalizeEffect1(p)
<1>0. p \in Commands /\ at[p] \in Cands /\ cand[at[p]] \in CandRows /\ saw[p] \in CandRows
  BY DEF Commands, TypeOK
<1>1. CASE pc[p] = "finalize"
  <2>1. cand' = [cand EXCEPT ![at[p]] = [cand[at[p]] EXCEPT !.status = "queued",
      !.link = saw[p].link]]
    BY <1>0, <1>1 DEF Finalize, Patch
  <2>2. cand'[at[p]] = [cand[at[p]] EXCEPT !.status = "queued",
      !.link = saw[p].link] /\ \A d \in Cands : d # at[p] => cand'[d] = cand[d]
    BY <1>0, <2>1 DEF TypeOK
  <2>3. cand'[at[p]].status = "queued" /\ cand'[at[p]].draft = cand[at[p]].draft
      /\ cand'[at[p]].stamp = cand[at[p]].stamp /\ cand'[at[p]].link = saw[p].link
    BY <1>0, <2>2 DEF CandRows
  <2>4. /\ \A r \in Commands \ {p} : pc'[r] = pc[r] /\ saw'[r] = saw[r] /\ text'[r] = text[r]
        /\ pc'[p] = "idle" /\ at' = at
    BY <1>0, <1>1 DEF Finalize, TypeOK, Goto, Leave
  <2> QED
    BY <1>0, <1>1, <2>2, <2>3, <2>4 DEF Finalize, FinalizeEffect1, TypeOK, CandRows, Patch,
        Goto, Leave, See, SetRow, NoteOutdated, Outdated, Matches, Swappable, SchedulesAs,
            SchedulingSteps, history, cardHistory
<1> QED
  BY <1>1 DEF Finalize
LEMMA SaveDraftEffect ==
  ASSUME TypeOK, NEW p \in Taps, SaveDraft(p)
  PROVE  SaveDraftEffect1(p) \/ SaveDraftEffect2(p)
<1>0. p \in Commands /\ at[p] \in Cands /\ cand[at[p]] \in CandRows /\ saw[p] \in CandRows
  BY DEF Commands, TypeOK
<1>1. CASE pc[p] = "edit"
  <2>1. cand' = [cand EXCEPT ![at[p]] = [cand[at[p]] EXCEPT !.draft = text[p]]]
    BY <1>0, <1>1 DEF SaveDraft, Patch
  <2>2. cand'[at[p]] = [cand[at[p]] EXCEPT !.draft = text[p]]
      /\ \A d \in Cands : d # at[p] => cand'[d] = cand[d]
    BY <1>0, <2>1 DEF TypeOK
  <2>3. cand'[at[p]].status = cand[at[p]].status /\ cand'[at[p]].draft = text[p]
      /\ cand'[at[p]].stamp = cand[at[p]].stamp /\ cand'[at[p]].link = cand[at[p]].link
    BY <1>0, <2>2 DEF CandRows
  <2>4. /\ \A r \in Commands \ {p} : pc'[r] = pc[r] /\ saw'[r] = saw[r] /\ text'[r] = text[r]
        /\ pc'[p] = "idle" /\ at' = at
    BY <1>0, <1>1 DEF SaveDraft, TypeOK, Goto, Leave
  <2>5. (\A d \in Cands : shown[d] \subseteq shown'[d])
      /\ (text[p] \in Texts => text[p] \in shown'[at[p]])
    BY <1>0, <1>1 DEF SaveDraft, See, TypeOK
  <2>6. outdated \subseteq outdated'
      /\ (cand[at[p]].status # saw[p].status \/ cand[at[p]].draft # saw[p].draft => at[p] \in outdated')
    BY <1>0, <1>1 DEF SaveDraft, NoteOutdated, Outdated
  <2> QED
    BY <1>0, <1>1, <2>2, <2>3, <2>4, <2>5, <2>6 DEF SaveDraft, SaveDraftEffect1, TypeOK,
        CandRows, Patch, Goto, Leave, SetRow, Matches, Swappable, SchedulesAs, SchedulingSteps,
            history, cardHistory
<1>2. CASE pc[p] = "refresh"
  <2>1. cand' = [cand EXCEPT ![at[p]] = [cand[at[p]] EXCEPT !.draft = text[p]]]
    BY <1>0, <1>2 DEF SaveDraft, Patch
  <2>2. cand'[at[p]] = [cand[at[p]] EXCEPT !.draft = text[p]]
      /\ \A d \in Cands : d # at[p] => cand'[d] = cand[d]
    BY <1>0, <2>1 DEF TypeOK
  <2>3. cand'[at[p]].status = cand[at[p]].status /\ cand'[at[p]].draft = text[p]
      /\ cand'[at[p]].stamp = cand[at[p]].stamp /\ cand'[at[p]].link = cand[at[p]].link
    BY <1>0, <2>2 DEF CandRows
  <2>4. /\ \A r \in Commands \ {p} : pc'[r] = pc[r] /\ saw'[r] = saw[r] /\ text'[r] = text[r]
        /\ pc'[p] = "idle" /\ at' = at
    BY <1>0, <1>2 DEF SaveDraft, TypeOK, Goto, Leave
  <2> QED
    BY <1>0, <1>2, <2>2, <2>3, <2>4 DEF SaveDraft, SaveDraftEffect2, TypeOK, CandRows, Patch,
        Goto, Leave, See, SetRow, NoteOutdated, Outdated, Matches, Swappable, SchedulesAs,
            SchedulingSteps, history, cardHistory
<1> QED
  BY <1>1, <1>2 DEF SaveDraft
LEMMA StageEffect ==
  ASSUME TypeOK, NEW p \in Passes, Stage(p)
  PROVE  StageEffect1(p) \/ StageEffect2(p) \/ StageEffect3(p)
<1>0. p \in Commands /\ at[p] \in Cands /\ cand[at[p]] \in CandRows /\ saw[p] \in CandRows
  BY DEF Commands, TypeOK
<1>1. CASE saw[p].status = "discovered" /\ ~Matches(at[p], {"discovered"})
  BY <1>0, <1>1 DEF Stage, Staged, ModelTexts, StageEffect1, TypeOK, CandRows, Patch, Goto,
      Leave, See, SetRow, NoteOutdated, Outdated, Matches, Swappable, history, cardHistory
<1>2. CASE saw[p].status = "discovered" /\ Matches(at[p], {"discovered"})
  <2>0. PICK t \in Texts : cand' = [cand EXCEPT ![at[p]] = [Staged(cand[at[p]],
      t) EXCEPT !.status = IF saw[p].status = "discovered" THEN "drafted" ELSE @]]
    BY <1>2 DEF Stage, Staged, ModelTexts, Patch
  <2>1. cand' = [cand EXCEPT ![at[p]] = [[cand[at[p]] EXCEPT !.draft = t] EXCEPT !.status = "drafted"]]
    BY <2>0, <1>0, <1>2 DEF Stage, Staged, ModelTexts, Patch
  <2>2. cand'[at[p]] = [[cand[at[p]] EXCEPT !.draft = t] EXCEPT !.status = "drafted"]
      /\ \A d \in Cands : d # at[p] => cand'[d] = cand[d]
    BY <1>0, <2>1 DEF TypeOK
  <2>3. cand'[at[p]].status = "drafted" /\ cand'[at[p]].draft = t
      /\ cand'[at[p]].stamp = cand[at[p]].stamp /\ cand'[at[p]].link = cand[at[p]].link
    BY <1>0, <2>2 DEF CandRows
  <2>4. /\ \A r \in Commands \ {p} : pc'[r] = pc[r] /\ saw'[r] = saw[r] /\ text'[r] = text[r]
        /\ pc'[p] = "claim" /\ at' = at
    BY <1>0, <1>2 DEF Stage, Staged, ModelTexts, TypeOK, Goto, Leave
  <2> QED
    BY <1>0, <1>2, <2>2, <2>3, <2>4, ZenonT(60) DEF Stage, Staged, ModelTexts, StageEffect2, TypeOK,
        CandRows, Patch, Goto, Leave, See, SetRow, NoteOutdated, Outdated, Matches, Swappable,
            SchedulesAs, SchedulingSteps, history, cardHistory
<1>3. CASE saw[p].status # "discovered"
  <2>0. PICK t \in Texts : cand' = [cand EXCEPT ![at[p]] = [Staged(cand[at[p]],
      t) EXCEPT !.status = IF saw[p].status = "discovered" THEN "drafted" ELSE @]]
    BY <1>3 DEF Stage, Staged, ModelTexts, Patch
  <2>1. cand' = [cand EXCEPT ![at[p]] = [[cand[at[p]] EXCEPT !.draft = t] EXCEPT !.status = @]]
    BY <2>0, <1>0, <1>3 DEF Stage, Staged, ModelTexts, Patch
  <2>2. cand'[at[p]] = [[cand[at[p]] EXCEPT !.draft = t] EXCEPT !.status = @]
      /\ \A d \in Cands : d # at[p] => cand'[d] = cand[d]
    BY <1>0, <2>1 DEF TypeOK
  <2>3. cand'[at[p]].status = cand[at[p]].status /\ cand'[at[p]].draft = t
      /\ cand'[at[p]].stamp = cand[at[p]].stamp /\ cand'[at[p]].link = cand[at[p]].link
    BY <1>0, <2>2 DEF CandRows
  <2>4. /\ \A r \in Commands \ {p} : pc'[r] = pc[r] /\ saw'[r] = saw[r] /\ text'[r] = text[r]
        /\ pc'[p] = "claim" /\ at' = at
    BY <1>0, <1>3 DEF Stage, Staged, ModelTexts, TypeOK, Goto, Leave
  <2> QED
    BY <1>0, <1>3, <2>2, <2>3, <2>4, ZenonT(60) DEF Stage, Staged, ModelTexts, StageEffect3, TypeOK,
        CandRows, Patch, Goto, Leave, See, SetRow, NoteOutdated, Outdated, Matches, Swappable,
            SchedulesAs, SchedulingSteps, history, cardHistory
<1> QED
  BY <1>1, <1>2, <1>3
-----------------------------------------------------------------------------
(***************************************************************************)
(* Decisions.  What a person approved stays approved, queued or skipped, and *)
(* only an approved candidate is being scheduled.                          *)
(***************************************************************************)

GrantedStays ==
  \A c \in granted : cand[c].status \in {"approved", "queued", "skipped"}
SchedulesGranted ==
  \A p \in Commands : pc[p] \in SchedulesAs => at[p] \in granted
CancelsPresent ==
  \A p \in Commands :
    pc[p] = "cancelRow" => saw[p].link \in Rows /\ queue[saw[p].link].status # "absent"

DecisionInv ==
  /\ DecisionsExclude
  /\ GrantedStays
  /\ SchedulesGranted
  /\ CancelsPresent

LEMMA DecisionInsert ==
  ASSUME TypeOK, TypeOK', DecisionInv, NEW c \in Cands, Insert(c)
  PROVE  DecisionInv'
BY TrendTextsAssumption, RowsAssumption, ProcessesAssumption DEF Insert, TypeOK, DecisionInv,
    DecisionsExclude, GrantedStays, SchedulesGranted, CancelsPresent, SchedulesAs,
        SchedulingSteps, NextRow, SetRow, Schedulable, Swappable, Closed, Patch, Goto, Leave,
            Start, NoCand, Matches, CandRows, Commands, See, history, cardHistory, commands
LEMMA DecisionInsertUnstamped ==
  ASSUME TypeOK, TypeOK', DecisionInv, NEW c \in Cands, InsertUnstamped(c)
  PROVE  DecisionInv'
BY TrendTextsAssumption, RowsAssumption, ProcessesAssumption DEF InsertUnstamped, TypeOK,
    DecisionInv, DecisionsExclude, GrantedStays, SchedulesGranted, CancelsPresent, SchedulesAs,
        SchedulingSteps, NextRow, SetRow, Schedulable, Swappable, Closed, Patch, Goto, Leave,
            Start, NoCand, Matches, CandRows, Commands, See, history, cardHistory, commands
LEMMA DecisionInsertLinked ==
  ASSUME TypeOK, TypeOK', DecisionInv, NEW c \in Cands, NEW q \in Rows, InsertLinked(c, q)
  PROVE  DecisionInv'
<1>i. DecisionsExclude /\ GrantedStays /\ SchedulesGranted /\ CancelsPresent
  BY DEF DecisionInv
<1>1. DecisionsExclude'
  BY <1>i, ProcessesAssumption DEF InsertLinked, DecisionsExclude, Closed, GrantedStays,
      SchedulesGranted, SchedulesAs, SchedulingSteps, Patch, Start, Leave, Matches, TypeOK,
          CandRows, Commands, TrendStatuses, See, NoteOutdated, Outdated, history, cardHistory,
              commands
<1>2. GrantedStays'
  BY <1>i, ProcessesAssumption DEF InsertLinked, GrantedStays, DecisionsExclude, Closed, Patch,
      Start, Leave, Matches, TypeOK, CandRows, Commands, TrendStatuses, See, NoteOutdated,
          Outdated, history, cardHistory, commands
<1>3. SchedulesGranted'
  BY <1>i, ProcessesAssumption DEF InsertLinked, SchedulesGranted, SchedulesAs,
      SchedulingSteps, DecisionsExclude, Closed, Patch, Start, Leave, Matches, TypeOK,
          CandRows, Commands, TrendStatuses, See, NoteOutdated, Outdated, history, cardHistory,
              commands
<1>4. CancelsPresent'
  BY <1>i, ProcessesAssumption DEF InsertLinked, CancelsPresent, Patch, Start, Leave, Matches,
      TypeOK, CandRows, Commands, Closed, TrendStatuses, See, NoteOutdated, Outdated, history,
          cardHistory, commands
<1> QED
  BY <1>1, <1>2, <1>3, <1>4 DEF DecisionInv
LEMMA DecisionRefuse ==
  ASSUME TypeOK, TypeOK', DecisionInv, NEW c \in Cands, Refuse(c)
  PROVE  DecisionInv'
<1>i. DecisionsExclude /\ GrantedStays /\ SchedulesGranted /\ CancelsPresent
  BY DEF DecisionInv
<1>e. RefuseEffect(c)
  BY RefuseEffectHolds
<1>0. granted \subseteq Cands /\ refused \subseteq Cands /\ \A r \in Commands : at[r] \in Cands
  BY DEF TypeOK
<1>1. DecisionsExclude'
  BY <1>i, <1>0, <1>e DEF DecisionsExclude, Closed, GrantedStays, SchedulesGranted,
      SchedulesAs, SchedulingSteps, RefuseEffect, Commands
<1>2. GrantedStays'
  BY <1>i, <1>0, <1>e DEF GrantedStays, DecisionsExclude, Closed, RefuseEffect, Commands
<1>3. SchedulesGranted'
  BY <1>i, <1>0, <1>e DEF SchedulesGranted, SchedulesAs, SchedulingSteps, DecisionsExclude,
      Closed, RefuseEffect, Commands
<1>4. CancelsPresent'
  BY <1>i, <1>0, <1>e DEF CancelsPresent, RefuseEffect, Closed, Commands
<1> QED
  BY <1>1, <1>2, <1>3, <1>4 DEF DecisionInv
LEMMA DecisionTimeOut ==
  ASSUME TypeOK, TypeOK', DecisionInv, NEW c \in Cands, TimeOut(c)
  PROVE  DecisionInv'
BY TrendTextsAssumption, RowsAssumption, ProcessesAssumption DEF TimeOut, Stale, MoveToBacklog,
    TypeOK, DecisionInv, DecisionsExclude, GrantedStays, SchedulesGranted, CancelsPresent,
        SchedulesAs, SchedulingSteps, NextRow, SetRow, Schedulable, Swappable, Closed, Patch,
            Goto, Leave, Start, NoCand, Matches, CandRows, Commands, See, history, cardHistory,
                commands
LEMMA DecisionShowBacklog ==
  ASSUME TypeOK, TypeOK', DecisionInv, NEW c \in Cands, ShowBacklog(c)
  PROVE  DecisionInv'
BY TrendTextsAssumption, RowsAssumption, ProcessesAssumption DEF ShowBacklog, Listed, TypeOK,
    DecisionInv, DecisionsExclude, GrantedStays, SchedulesGranted, CancelsPresent, SchedulesAs,
        SchedulingSteps, NextRow, SetRow, Schedulable, Swappable, Closed, Patch, Goto, Leave,
            Start, NoCand, Matches, CandRows, Commands, See, history, cardHistory, commands
LEMMA DecisionBeginDraft ==
  ASSUME TypeOK, TypeOK', DecisionInv, NEW p \in Passes, NEW c \in Cands, BeginDraft(p, c)
  PROVE  DecisionInv'
BY TrendTextsAssumption, RowsAssumption, ProcessesAssumption DEF BeginDraft, TypeOK,
    DecisionInv, DecisionsExclude, GrantedStays, SchedulesGranted, CancelsPresent, SchedulesAs,
        SchedulingSteps, NextRow, SetRow, Schedulable, Swappable, Closed, Patch, Goto, Leave,
            Start, NoCand, Matches, CandRows, Commands, See, history, cardHistory, commands
LEMMA DecisionBeginResend ==
  ASSUME TypeOK, TypeOK', DecisionInv, NEW p \in Passes, NEW c \in Cands, BeginResend(p, c)
  PROVE  DecisionInv'
BY TrendTextsAssumption, RowsAssumption, ProcessesAssumption DEF BeginResend, TypeOK,
    DecisionInv, DecisionsExclude, GrantedStays, SchedulesGranted, CancelsPresent, SchedulesAs,
        SchedulingSteps, NextRow, SetRow, Schedulable, Swappable, Closed, Patch, Goto, Leave,
            Start, NoCand, Matches, CandRows, Commands, See, history, cardHistory, commands
LEMMA DecisionIrrelevant ==
  ASSUME TypeOK, DecisionInv, NEW p \in Passes, Irrelevant(p)
  PROVE  DecisionInv'
<1>0. /\ p \in Commands /\ \A r \in Commands : at[r] \in Cands
      /\ Passes \subseteq Commands /\ Taps \subseteq Commands /\ Passes \cap Taps = {}
      /\ \A d \in Cands : cards[d] \in Nat /\ lost[d] \in Nat
      /\ \A r \in Rows : queue[r].cand \in Cands
      /\ granted \subseteq Cands /\ refused \subseteq Cands
      /\ \A d \in Cands : cand[d].draft \in Texts \cup {NoText}
  BY ProcessesAssumption DEF Commands, TypeOK, CandRows
<1>i. DecisionsExclude /\ GrantedStays /\ SchedulesGranted /\ CancelsPresent
  BY DEF DecisionInv
<1>1. ASSUME IrrelevantEffect1(p) PROVE DecisionInv'
  <2>1. DecisionsExclude'
    BY <1>0, <1>i, <1>1 DEF IrrelevantEffect1, DecisionsExclude, Closed, GrantedStays,
        SchedulesGranted, SchedulesAs, SchedulingSteps
  <2>2. GrantedStays'
    BY <1>0, <1>i, <1>1 DEF IrrelevantEffect1, GrantedStays, DecisionsExclude, Closed
  <2>3. SchedulesGranted'
    BY <1>0, <1>i, <1>1 DEF IrrelevantEffect1, SchedulesGranted, SchedulesAs, SchedulingSteps,
        DecisionsExclude, Closed
  <2>4. CancelsPresent'
    BY <1>0, <1>i, <1>1 DEF IrrelevantEffect1, CancelsPresent
  <2> QED
    BY <2>1, <2>2, <2>3, <2>4 DEF DecisionInv
<1>2. ASSUME IrrelevantEffect2(p) PROVE DecisionInv'
  <2>1. DecisionsExclude'
    BY <1>0, <1>i, <1>2 DEF IrrelevantEffect2, DecisionsExclude, Closed, GrantedStays,
        SchedulesGranted, SchedulesAs, SchedulingSteps
  <2>2. GrantedStays'
    BY <1>0, <1>i, <1>2 DEF IrrelevantEffect2, GrantedStays, DecisionsExclude, Closed
  <2>3. SchedulesGranted'
    BY <1>0, <1>i, <1>2 DEF IrrelevantEffect2, SchedulesGranted, SchedulesAs, SchedulingSteps,
        DecisionsExclude, Closed
  <2>4. CancelsPresent'
    BY <1>0, <1>i, <1>2 DEF IrrelevantEffect2, CancelsPresent
  <2> QED
    BY <2>1, <2>2, <2>3, <2>4 DEF DecisionInv
<1> QED
  BY <1>1, <1>2, IrrelevantEffect
LEMMA DecisionStage ==
  ASSUME TypeOK, DecisionInv, NEW p \in Passes, Stage(p)
  PROVE  DecisionInv'
<1>0. /\ p \in Commands /\ \A r \in Commands : at[r] \in Cands
      /\ Passes \subseteq Commands /\ Taps \subseteq Commands /\ Passes \cap Taps = {}
      /\ \A d \in Cands : cards[d] \in Nat /\ lost[d] \in Nat
      /\ \A r \in Rows : queue[r].cand \in Cands
      /\ granted \subseteq Cands /\ refused \subseteq Cands
      /\ \A d \in Cands : cand[d].draft \in Texts \cup {NoText}
  BY ProcessesAssumption DEF Commands, TypeOK, CandRows
<1>i. DecisionsExclude /\ GrantedStays /\ SchedulesGranted /\ CancelsPresent
  BY DEF DecisionInv
<1>1. ASSUME StageEffect1(p) PROVE DecisionInv'
  <2>1. DecisionsExclude'
    BY <1>0, <1>i, <1>1 DEF StageEffect1, DecisionsExclude, Closed, GrantedStays,
        SchedulesGranted, SchedulesAs, SchedulingSteps
  <2>2. GrantedStays'
    BY <1>0, <1>i, <1>1 DEF StageEffect1, GrantedStays, DecisionsExclude, Closed
  <2>3. SchedulesGranted'
    BY <1>0, <1>i, <1>1 DEF StageEffect1, SchedulesGranted, SchedulesAs, SchedulingSteps,
        DecisionsExclude, Closed
  <2>4. CancelsPresent'
    BY <1>0, <1>i, <1>1 DEF StageEffect1, CancelsPresent
  <2> QED
    BY <2>1, <2>2, <2>3, <2>4 DEF DecisionInv
<1>2. ASSUME StageEffect2(p) PROVE DecisionInv'
  <2>1. DecisionsExclude'
    BY <1>0, <1>i, <1>2 DEF StageEffect2, DecisionsExclude, Closed, GrantedStays,
        SchedulesGranted, SchedulesAs, SchedulingSteps
  <2>2. GrantedStays'
    BY <1>0, <1>i, <1>2 DEF StageEffect2, GrantedStays, DecisionsExclude, Closed
  <2>3. SchedulesGranted'
    BY <1>0, <1>i, <1>2 DEF StageEffect2, SchedulesGranted, SchedulesAs, SchedulingSteps,
        DecisionsExclude, Closed
  <2>4. CancelsPresent'
    BY <1>0, <1>i, <1>2 DEF StageEffect2, CancelsPresent
  <2> QED
    BY <2>1, <2>2, <2>3, <2>4 DEF DecisionInv
<1>3. ASSUME StageEffect3(p) PROVE DecisionInv'
  <2>1. DecisionsExclude'
    BY <1>0, <1>i, <1>3 DEF StageEffect3, DecisionsExclude, Closed, GrantedStays,
        SchedulesGranted, SchedulesAs, SchedulingSteps
  <2>2. GrantedStays'
    BY <1>0, <1>i, <1>3 DEF StageEffect3, GrantedStays, DecisionsExclude, Closed
  <2>3. SchedulesGranted'
    BY <1>0, <1>i, <1>3 DEF StageEffect3, SchedulesGranted, SchedulesAs, SchedulingSteps,
        DecisionsExclude, Closed
  <2>4. CancelsPresent'
    BY <1>0, <1>i, <1>3 DEF StageEffect3, CancelsPresent
  <2> QED
    BY <2>1, <2>2, <2>3, <2>4 DEF DecisionInv
<1> QED
  BY <1>1, <1>2, <1>3, StageEffect
LEMMA DecisionClaim ==
  ASSUME TypeOK, DecisionInv, NEW p \in Passes, Claim(p)
  PROVE  DecisionInv'
<1>0. /\ p \in Commands /\ \A r \in Commands : at[r] \in Cands
      /\ Passes \subseteq Commands /\ Taps \subseteq Commands /\ Passes \cap Taps = {}
      /\ \A d \in Cands : cards[d] \in Nat /\ lost[d] \in Nat
      /\ \A r \in Rows : queue[r].cand \in Cands
      /\ granted \subseteq Cands /\ refused \subseteq Cands
      /\ \A d \in Cands : cand[d].draft \in Texts \cup {NoText}
  BY ProcessesAssumption DEF Commands, TypeOK, CandRows
<1>i. DecisionsExclude /\ GrantedStays /\ SchedulesGranted /\ CancelsPresent
  BY DEF DecisionInv
<1>1. ASSUME ClaimEffect1(p) PROVE DecisionInv'
  <2>1. DecisionsExclude'
    BY <1>0, <1>i, <1>1 DEF ClaimEffect1, DecisionsExclude, Closed, GrantedStays,
        SchedulesGranted, SchedulesAs, SchedulingSteps, Claimable, Matches
  <2>2. GrantedStays'
    BY <1>0, <1>i, <1>1 DEF ClaimEffect1, GrantedStays, DecisionsExclude, Closed, Claimable,
        Matches
  <2>3. SchedulesGranted'
    BY <1>0, <1>i, <1>1 DEF ClaimEffect1, SchedulesGranted, SchedulesAs, SchedulingSteps,
        DecisionsExclude, Closed, Claimable, Matches
  <2>4. CancelsPresent'
    BY <1>0, <1>i, <1>1 DEF ClaimEffect1, CancelsPresent, Claimable, Matches
  <2> QED
    BY <2>1, <2>2, <2>3, <2>4 DEF DecisionInv
<1>2. ASSUME ClaimEffect2(p) PROVE DecisionInv'
  <2>1. DecisionsExclude'
    BY <1>0, <1>i, <1>2 DEF ClaimEffect2, DecisionsExclude, Closed, GrantedStays,
        SchedulesGranted, SchedulesAs, SchedulingSteps, Claimable, Matches
  <2>2. GrantedStays'
    BY <1>0, <1>i, <1>2 DEF ClaimEffect2, GrantedStays, DecisionsExclude, Closed, Claimable,
        Matches
  <2>3. SchedulesGranted'
    BY <1>0, <1>i, <1>2 DEF ClaimEffect2, SchedulesGranted, SchedulesAs, SchedulingSteps,
        DecisionsExclude, Closed, Claimable, Matches
  <2>4. CancelsPresent'
    BY <1>0, <1>i, <1>2 DEF ClaimEffect2, CancelsPresent, Claimable, Matches
  <2> QED
    BY <2>1, <2>2, <2>3, <2>4 DEF DecisionInv
<1> QED
  BY <1>1, <1>2, ClaimEffect
LEMMA DecisionSendCard ==
  ASSUME TypeOK, TypeOK', DecisionInv, NEW p \in Passes, SendCard(p)
  PROVE  DecisionInv'
BY TrendTextsAssumption, RowsAssumption, ProcessesAssumption DEF SendCard, CardText, TypeOK,
    DecisionInv, DecisionsExclude, GrantedStays, SchedulesGranted, CancelsPresent, SchedulesAs,
        SchedulingSteps, NextRow, SetRow, Schedulable, Swappable, Closed, Patch, Goto, Leave,
            Start, NoCand, Matches, CandRows, Commands, See, history, cardHistory, commands
LEMMA DecisionCardFails ==
  ASSUME TypeOK, DecisionInv, NEW p \in Passes, CardFails(p)
  PROVE  DecisionInv'
<1>0. /\ p \in Commands /\ \A r \in Commands : at[r] \in Cands
      /\ Passes \subseteq Commands /\ Taps \subseteq Commands /\ Passes \cap Taps = {}
      /\ \A d \in Cands : cards[d] \in Nat /\ lost[d] \in Nat
      /\ \A r \in Rows : queue[r].cand \in Cands
      /\ granted \subseteq Cands /\ refused \subseteq Cands
      /\ \A d \in Cands : cand[d].draft \in Texts \cup {NoText}
  BY ProcessesAssumption DEF Commands, TypeOK, CandRows
<1>i. DecisionsExclude /\ GrantedStays /\ SchedulesGranted /\ CancelsPresent
  BY DEF DecisionInv
<1>1. ASSUME CardFailsEffect1(p) PROVE DecisionInv'
  <2>1. DecisionsExclude'
    BY <1>0, <1>i, <1>1 DEF CardFailsEffect1, DecisionsExclude, Closed, GrantedStays,
        SchedulesGranted, SchedulesAs, SchedulingSteps
  <2>2. GrantedStays'
    BY <1>0, <1>i, <1>1 DEF CardFailsEffect1, GrantedStays, DecisionsExclude, Closed
  <2>3. SchedulesGranted'
    BY <1>0, <1>i, <1>1 DEF CardFailsEffect1, SchedulesGranted, SchedulesAs, SchedulingSteps,
        DecisionsExclude, Closed
  <2>4. CancelsPresent'
    BY <1>0, <1>i, <1>1 DEF CardFailsEffect1, CancelsPresent
  <2> QED
    BY <2>1, <2>2, <2>3, <2>4 DEF DecisionInv
<1>2. ASSUME CardFailsEffect2(p) PROVE DecisionInv'
  <2>1. DecisionsExclude'
    BY <1>0, <1>i, <1>2 DEF CardFailsEffect2, DecisionsExclude, Closed, GrantedStays,
        SchedulesGranted, SchedulesAs, SchedulingSteps
  <2>2. GrantedStays'
    BY <1>0, <1>i, <1>2 DEF CardFailsEffect2, GrantedStays, DecisionsExclude, Closed
  <2>3. SchedulesGranted'
    BY <1>0, <1>i, <1>2 DEF CardFailsEffect2, SchedulesGranted, SchedulesAs, SchedulingSteps,
        DecisionsExclude, Closed
  <2>4. CancelsPresent'
    BY <1>0, <1>i, <1>2 DEF CardFailsEffect2, CancelsPresent
  <2> QED
    BY <2>1, <2>2, <2>3, <2>4 DEF DecisionInv
<1> QED
  BY <1>1, <1>2, CardFailsEffect
LEMMA DecisionRelease ==
  ASSUME TypeOK, TypeOK', DecisionInv, NEW p \in Passes, Release(p)
  PROVE  DecisionInv'
BY TrendTextsAssumption, RowsAssumption, ProcessesAssumption DEF Release, TypeOK, DecisionInv,
    DecisionsExclude, GrantedStays, SchedulesGranted, CancelsPresent, SchedulesAs,
        SchedulingSteps, NextRow, SetRow, Schedulable, Swappable, Closed, Patch, Goto, Leave,
            Start, NoCand, Matches, CandRows, Commands, See, history, cardHistory, commands
LEMMA DecisionPromote ==
  ASSUME TypeOK, DecisionInv, NEW p \in Passes, Promote(p)
  PROVE  DecisionInv'
<1>0. /\ p \in Commands /\ \A r \in Commands : at[r] \in Cands
      /\ Passes \subseteq Commands /\ Taps \subseteq Commands /\ Passes \cap Taps = {}
      /\ \A d \in Cands : cards[d] \in Nat /\ lost[d] \in Nat
      /\ \A r \in Rows : queue[r].cand \in Cands
      /\ granted \subseteq Cands /\ refused \subseteq Cands
      /\ \A d \in Cands : cand[d].draft \in Texts \cup {NoText}
  BY ProcessesAssumption DEF Commands, TypeOK, CandRows
<1>i. DecisionsExclude /\ GrantedStays /\ SchedulesGranted /\ CancelsPresent
  BY DEF DecisionInv
<1>1. ASSUME PromoteEffect1(p) PROVE DecisionInv'
  <2>1. DecisionsExclude'
    BY <1>0, <1>i, <1>1 DEF PromoteEffect1, DecisionsExclude, Closed, GrantedStays,
        SchedulesGranted, SchedulesAs, SchedulingSteps, Matches
  <2>2. GrantedStays'
    BY <1>0, <1>i, <1>1 DEF PromoteEffect1, GrantedStays, DecisionsExclude, Closed, Matches
  <2>3. SchedulesGranted'
    BY <1>0, <1>i, <1>1 DEF PromoteEffect1, SchedulesGranted, SchedulesAs, SchedulingSteps,
        DecisionsExclude, Closed, Matches
  <2>4. CancelsPresent'
    BY <1>0, <1>i, <1>1 DEF PromoteEffect1, CancelsPresent, Matches
  <2> QED
    BY <2>1, <2>2, <2>3, <2>4 DEF DecisionInv
<1>2. ASSUME PromoteEffect2(p) PROVE DecisionInv'
  <2>1. DecisionsExclude'
    BY <1>0, <1>i, <1>2 DEF PromoteEffect2, DecisionsExclude, Closed, GrantedStays,
        SchedulesGranted, SchedulesAs, SchedulingSteps, Matches
  <2>2. GrantedStays'
    BY <1>0, <1>i, <1>2 DEF PromoteEffect2, GrantedStays, DecisionsExclude, Closed, Matches
  <2>3. SchedulesGranted'
    BY <1>0, <1>i, <1>2 DEF PromoteEffect2, SchedulesGranted, SchedulesAs, SchedulingSteps,
        DecisionsExclude, Closed, Matches
  <2>4. CancelsPresent'
    BY <1>0, <1>i, <1>2 DEF PromoteEffect2, CancelsPresent, Matches
  <2> QED
    BY <2>1, <2>2, <2>3, <2>4 DEF DecisionInv
<1> QED
  BY <1>1, <1>2, PromoteEffect
LEMMA DecisionRefRead ==
  ASSUME TypeOK, DecisionInv, NEW p \in Passes, RefRead(p)
  PROVE  DecisionInv'
<1>0. /\ p \in Commands /\ \A r \in Commands : at[r] \in Cands
      /\ Passes \subseteq Commands /\ Taps \subseteq Commands /\ Passes \cap Taps = {}
      /\ \A d \in Cands : cards[d] \in Nat /\ lost[d] \in Nat
      /\ \A r \in Rows : queue[r].cand \in Cands
      /\ granted \subseteq Cands /\ refused \subseteq Cands
      /\ \A d \in Cands : cand[d].draft \in Texts \cup {NoText}
  BY ProcessesAssumption DEF Commands, TypeOK, CandRows
<1>i. DecisionsExclude /\ GrantedStays /\ SchedulesGranted /\ CancelsPresent
  BY DEF DecisionInv
<1>1. ASSUME RefReadEffect1(p) PROVE DecisionInv'
  <2>1. DecisionsExclude'
    BY <1>0, <1>i, <1>1 DEF RefReadEffect1, DecisionsExclude, Closed, GrantedStays,
        SchedulesGranted, SchedulesAs, SchedulingSteps, Matches
  <2>2. GrantedStays'
    BY <1>0, <1>i, <1>1 DEF RefReadEffect1, GrantedStays, DecisionsExclude, Closed, Matches
  <2>3. SchedulesGranted'
    BY <1>0, <1>i, <1>1 DEF RefReadEffect1, SchedulesGranted, SchedulesAs, SchedulingSteps,
        DecisionsExclude, Closed, Matches
  <2>4. CancelsPresent'
    BY <1>0, <1>i, <1>1 DEF RefReadEffect1, CancelsPresent, Matches
  <2> QED
    BY <2>1, <2>2, <2>3, <2>4 DEF DecisionInv
<1>2. ASSUME RefReadEffect2(p) PROVE DecisionInv'
  <2>1. DecisionsExclude'
    BY <1>0, <1>i, <1>2 DEF RefReadEffect2, DecisionsExclude, Closed, GrantedStays,
        SchedulesGranted, SchedulesAs, SchedulingSteps, Matches
  <2>2. GrantedStays'
    BY <1>0, <1>i, <1>2 DEF RefReadEffect2, GrantedStays, DecisionsExclude, Closed, Matches
  <2>3. SchedulesGranted'
    BY <1>0, <1>i, <1>2 DEF RefReadEffect2, SchedulesGranted, SchedulesAs, SchedulingSteps,
        DecisionsExclude, Closed, Matches
  <2>4. CancelsPresent'
    BY <1>0, <1>i, <1>2 DEF RefReadEffect2, CancelsPresent, Matches
  <2> QED
    BY <2>1, <2>2, <2>3, <2>4 DEF DecisionInv
<1> QED
  BY <1>1, <1>2, RefReadEffect
LEMMA DecisionRefWrite ==
  ASSUME TypeOK, DecisionInv, NEW p \in Passes, RefWrite(p)
  PROVE  DecisionInv'
<1>0. /\ p \in Commands /\ \A r \in Commands : at[r] \in Cands
      /\ Passes \subseteq Commands /\ Taps \subseteq Commands /\ Passes \cap Taps = {}
      /\ \A d \in Cands : cards[d] \in Nat /\ lost[d] \in Nat
      /\ \A r \in Rows : queue[r].cand \in Cands
      /\ granted \subseteq Cands /\ refused \subseteq Cands
      /\ \A d \in Cands : cand[d].draft \in Texts \cup {NoText}
  BY ProcessesAssumption DEF Commands, TypeOK, CandRows
<1>i. DecisionsExclude /\ GrantedStays /\ SchedulesGranted /\ CancelsPresent
  BY DEF DecisionInv
<1>1. ASSUME RefWriteEffect1(p) PROVE DecisionInv'
  <2>1. DecisionsExclude'
    BY <1>0, <1>i, <1>1 DEF RefWriteEffect1, DecisionsExclude, Closed, GrantedStays,
        SchedulesGranted, SchedulesAs, SchedulingSteps, Matches
  <2>2. GrantedStays'
    BY <1>0, <1>i, <1>1 DEF RefWriteEffect1, GrantedStays, DecisionsExclude, Closed, Matches
  <2>3. SchedulesGranted'
    BY <1>0, <1>i, <1>1 DEF RefWriteEffect1, SchedulesGranted, SchedulesAs, SchedulingSteps,
        DecisionsExclude, Closed, Matches
  <2>4. CancelsPresent'
    BY <1>0, <1>i, <1>1 DEF RefWriteEffect1, CancelsPresent, Matches
  <2> QED
    BY <2>1, <2>2, <2>3, <2>4 DEF DecisionInv
<1>2. ASSUME RefWriteEffect2(p) PROVE DecisionInv'
  <2>1. DecisionsExclude'
    BY <1>0, <1>i, <1>2 DEF RefWriteEffect2, DecisionsExclude, Closed, GrantedStays,
        SchedulesGranted, SchedulesAs, SchedulingSteps, Matches
  <2>2. GrantedStays'
    BY <1>0, <1>i, <1>2 DEF RefWriteEffect2, GrantedStays, DecisionsExclude, Closed, Matches
  <2>3. SchedulesGranted'
    BY <1>0, <1>i, <1>2 DEF RefWriteEffect2, SchedulesGranted, SchedulesAs, SchedulingSteps,
        DecisionsExclude, Closed, Matches
  <2>4. CancelsPresent'
    BY <1>0, <1>i, <1>2 DEF RefWriteEffect2, CancelsPresent, Matches
  <2> QED
    BY <2>1, <2>2, <2>3, <2>4 DEF DecisionInv
<1> QED
  BY <1>1, <1>2, RefWriteEffect
LEMMA DecisionBeginApprove ==
  ASSUME TypeOK, TypeOK', DecisionInv, NEW p \in Taps, NEW c \in Cands, BeginApprove(p, c)
  PROVE  DecisionInv'
BY TrendTextsAssumption, RowsAssumption, ProcessesAssumption DEF BeginApprove, TypeOK,
    DecisionInv, DecisionsExclude, GrantedStays, SchedulesGranted, CancelsPresent, SchedulesAs,
        SchedulingSteps, NextRow, SetRow, Schedulable, Swappable, Closed, Patch, Goto, Leave,
            Start, NoCand, Matches, CandRows, Commands, See, history, cardHistory, commands
LEMMA DecisionBeginUse ==
  ASSUME TypeOK, TypeOK', DecisionInv, NEW p \in Taps, NEW c \in Cands, BeginUse(p, c)
  PROVE  DecisionInv'
BY TrendTextsAssumption, RowsAssumption, ProcessesAssumption DEF BeginUse, TypeOK, DecisionInv,
    DecisionsExclude, GrantedStays, SchedulesGranted, CancelsPresent, SchedulesAs,
        SchedulingSteps, NextRow, SetRow, Schedulable, Swappable, Closed, Patch, Goto, Leave,
            Start, NoCand, Matches, CandRows, Commands, See, history, cardHistory, commands
LEMMA DecisionBeginRefresh ==
  ASSUME TypeOK, TypeOK', DecisionInv, NEW p \in Taps, NEW c \in Cands, BeginRefresh(p, c)
  PROVE  DecisionInv'
BY TrendTextsAssumption, RowsAssumption, ProcessesAssumption DEF BeginRefresh, ModelTexts,
    TypeOK, DecisionInv, DecisionsExclude, GrantedStays, SchedulesGranted, CancelsPresent,
        SchedulesAs, SchedulingSteps, NextRow, SetRow, Schedulable, Swappable, Closed, Patch,
            Goto, Leave, Start, NoCand, Matches, CandRows, Commands, See, history, cardHistory,
                commands
LEMMA DecisionBeginRaw ==
  ASSUME TypeOK, TypeOK', DecisionInv, NEW p \in Taps, NEW c \in Cands, BeginRaw(p, c)
  PROVE  DecisionInv'
BY TrendTextsAssumption, RowsAssumption, ProcessesAssumption DEF BeginRaw, TypeOK, DecisionInv,
    DecisionsExclude, GrantedStays, SchedulesGranted, CancelsPresent, SchedulesAs,
        SchedulingSteps, NextRow, SetRow, Schedulable, Swappable, Closed, Patch, Goto, Leave,
            Start, NoCand, Matches, CandRows, Commands, See, history, cardHistory, commands
LEMMA DecisionBeginSchedule ==
  ASSUME TypeOK, TypeOK', DecisionInv, NEW p \in Taps, NEW c \in Cands, BeginSchedule(p, c)
  PROVE  DecisionInv'
BY TrendTextsAssumption, RowsAssumption, ProcessesAssumption DEF BeginSchedule, TypeOK,
    DecisionInv, DecisionsExclude, GrantedStays, SchedulesGranted, CancelsPresent, SchedulesAs,
        SchedulingSteps, NextRow, SetRow, Schedulable, Swappable, Closed, Patch, Goto, Leave,
            Start, NoCand, Matches, CandRows, Commands, See, history, cardHistory, commands
LEMMA DecisionBeginCancel ==
  ASSUME TypeOK, TypeOK', DecisionInv, NEW p \in Taps, NEW c \in Cands, BeginCancel(p, c)
  PROVE  DecisionInv'
BY TrendTextsAssumption, RowsAssumption, ProcessesAssumption DEF BeginCancel, TypeOK,
    DecisionInv, DecisionsExclude, GrantedStays, SchedulesGranted, CancelsPresent, SchedulesAs,
        SchedulingSteps, NextRow, SetRow, Schedulable, Swappable, Closed, Patch, Goto, Leave,
            Start, NoCand, Matches, CandRows, Commands, See, history, cardHistory, commands
LEMMA DecisionBeginEdit ==
  ASSUME TypeOK, TypeOK', DecisionInv, NEW p \in Taps, NEW c \in Cands, NEW t \in Texts,
      BeginEdit(p, c, t)
  PROVE  DecisionInv'
BY TrendTextsAssumption, RowsAssumption, ProcessesAssumption DEF BeginEdit, TypeOK,
    DecisionInv, DecisionsExclude, GrantedStays, SchedulesGranted, CancelsPresent, SchedulesAs,
        SchedulingSteps, NextRow, SetRow, Schedulable, Swappable, Closed, Patch, Goto, Leave,
            Start, NoCand, Matches, CandRows, Commands, See, history, cardHistory, commands
LEMMA DecisionSaveDecision ==
  ASSUME TypeOK, DecisionInv, NEW p \in Taps, SaveDecision(p)
  PROVE  DecisionInv'
<1>0. /\ p \in Commands /\ \A r \in Commands : at[r] \in Cands
      /\ Passes \subseteq Commands /\ Taps \subseteq Commands /\ Passes \cap Taps = {}
      /\ \A d \in Cands : cards[d] \in Nat /\ lost[d] \in Nat
      /\ \A r \in Rows : queue[r].cand \in Cands
      /\ granted \subseteq Cands /\ refused \subseteq Cands
      /\ \A d \in Cands : cand[d].draft \in Texts \cup {NoText}
  BY ProcessesAssumption DEF Commands, TypeOK, CandRows
<1>i. DecisionsExclude /\ GrantedStays /\ SchedulesGranted /\ CancelsPresent
  BY DEF DecisionInv
<1>1. ASSUME SaveDecisionEffect1(p) PROVE DecisionInv'
  <2>1. DecisionsExclude'
    BY <1>0, <1>i, <1>1 DEF SaveDecisionEffect1, DecisionsExclude, Closed, GrantedStays,
        SchedulesGranted, SchedulesAs, SchedulingSteps, Swappable, Matches
  <2>2. GrantedStays'
    BY <1>0, <1>i, <1>1 DEF SaveDecisionEffect1, GrantedStays, DecisionsExclude, Closed,
        Swappable, Matches
  <2>3. SchedulesGranted'
    BY <1>0, <1>i, <1>1 DEF SaveDecisionEffect1, SchedulesGranted, SchedulesAs,
        SchedulingSteps, DecisionsExclude, Closed, Swappable, Matches
  <2>4. CancelsPresent'
    BY <1>0, <1>i, <1>1 DEF SaveDecisionEffect1, CancelsPresent, Swappable, Matches
  <2> QED
    BY <2>1, <2>2, <2>3, <2>4 DEF DecisionInv
<1>2. ASSUME SaveDecisionEffect2(p) PROVE DecisionInv'
  <2>1. DecisionsExclude'
    BY <1>0, <1>i, <1>2 DEF SaveDecisionEffect2, DecisionsExclude, Closed, GrantedStays,
        SchedulesGranted, SchedulesAs, SchedulingSteps, Swappable, Matches
  <2>2. GrantedStays'
    BY <1>0, <1>i, <1>2 DEF SaveDecisionEffect2, GrantedStays, DecisionsExclude, Closed,
        Swappable, Matches
  <2>3. SchedulesGranted'
    BY <1>0, <1>i, <1>2 DEF SaveDecisionEffect2, SchedulesGranted, SchedulesAs,
        SchedulingSteps, DecisionsExclude, Closed, Swappable, Matches
  <2>4. CancelsPresent'
    BY <1>0, <1>i, <1>2 DEF SaveDecisionEffect2, CancelsPresent, Swappable, Matches
  <2> QED
    BY <2>1, <2>2, <2>3, <2>4 DEF DecisionInv
<1> QED
  BY <1>1, <1>2, SaveDecisionEffect
LEMMA DecisionSaveDraft ==
  ASSUME TypeOK, DecisionInv, NEW p \in Taps, SaveDraft(p)
  PROVE  DecisionInv'
<1>0. /\ p \in Commands /\ \A r \in Commands : at[r] \in Cands
      /\ Passes \subseteq Commands /\ Taps \subseteq Commands /\ Passes \cap Taps = {}
      /\ \A d \in Cands : cards[d] \in Nat /\ lost[d] \in Nat
      /\ \A r \in Rows : queue[r].cand \in Cands
      /\ granted \subseteq Cands /\ refused \subseteq Cands
      /\ \A d \in Cands : cand[d].draft \in Texts \cup {NoText}
  BY ProcessesAssumption DEF Commands, TypeOK, CandRows
<1>i. DecisionsExclude /\ GrantedStays /\ SchedulesGranted /\ CancelsPresent
  BY DEF DecisionInv
<1>1. ASSUME SaveDraftEffect1(p) PROVE DecisionInv'
  <2>1. DecisionsExclude'
    BY <1>0, <1>i, <1>1 DEF SaveDraftEffect1, DecisionsExclude, Closed, GrantedStays,
        SchedulesGranted, SchedulesAs, SchedulingSteps
  <2>2. GrantedStays'
    BY <1>0, <1>i, <1>1 DEF SaveDraftEffect1, GrantedStays, DecisionsExclude, Closed
  <2>3. SchedulesGranted'
    BY <1>0, <1>i, <1>1 DEF SaveDraftEffect1, SchedulesGranted, SchedulesAs, SchedulingSteps,
        DecisionsExclude, Closed
  <2>4. CancelsPresent'
    BY <1>0, <1>i, <1>1 DEF SaveDraftEffect1, CancelsPresent
  <2> QED
    BY <2>1, <2>2, <2>3, <2>4 DEF DecisionInv
<1>2. ASSUME SaveDraftEffect2(p) PROVE DecisionInv'
  <2>1. DecisionsExclude'
    BY <1>0, <1>i, <1>2 DEF SaveDraftEffect2, DecisionsExclude, Closed, GrantedStays,
        SchedulesGranted, SchedulesAs, SchedulingSteps
  <2>2. GrantedStays'
    BY <1>0, <1>i, <1>2 DEF SaveDraftEffect2, GrantedStays, DecisionsExclude, Closed
  <2>3. SchedulesGranted'
    BY <1>0, <1>i, <1>2 DEF SaveDraftEffect2, SchedulesGranted, SchedulesAs, SchedulingSteps,
        DecisionsExclude, Closed
  <2>4. CancelsPresent'
    BY <1>0, <1>i, <1>2 DEF SaveDraftEffect2, CancelsPresent
  <2> QED
    BY <2>1, <2>2, <2>3, <2>4 DEF DecisionInv
<1> QED
  BY <1>1, <1>2, SaveDraftEffect
LEMMA DecisionRawWrite ==
  ASSUME TypeOK, TypeOK', DecisionInv, NEW p \in Taps, RawWrite(p)
  PROVE  DecisionInv'
BY TrendTextsAssumption, RowsAssumption, ProcessesAssumption DEF RawWrite, TypeOK, DecisionInv,
    DecisionsExclude, GrantedStays, SchedulesGranted, CancelsPresent, SchedulesAs,
        SchedulingSteps, NextRow, SetRow, Schedulable, Swappable, Closed, Patch, Goto, Leave,
            Start, NoCand, Matches, CandRows, Commands, See, history, cardHistory, commands
LEMMA DecisionPromoteRow ==
  ASSUME TypeOK, DecisionInv, NEW p \in Taps, PromoteRow(p)
  PROVE  DecisionInv'
<1>0. /\ p \in Commands /\ \A r \in Commands : at[r] \in Cands
      /\ Passes \subseteq Commands /\ Taps \subseteq Commands /\ Passes \cap Taps = {}
      /\ \A d \in Cands : cards[d] \in Nat /\ lost[d] \in Nat
      /\ \A r \in Rows : queue[r].cand \in Cands
      /\ granted \subseteq Cands /\ refused \subseteq Cands
      /\ \A d \in Cands : cand[d].draft \in Texts \cup {NoText}
  BY ProcessesAssumption DEF Commands, TypeOK, CandRows
<1>i. DecisionsExclude /\ GrantedStays /\ SchedulesGranted /\ CancelsPresent
  BY DEF DecisionInv
<1>1. ASSUME PromoteRowEffect1(p) PROVE DecisionInv'
  <2>1. DecisionsExclude'
    BY <1>0, <1>i, <1>1 DEF PromoteRowEffect1, DecisionsExclude, Closed, GrantedStays,
        SchedulesGranted, SchedulesAs, SchedulingSteps
  <2>2. GrantedStays'
    BY <1>0, <1>i, <1>1 DEF PromoteRowEffect1, GrantedStays, DecisionsExclude, Closed
  <2>3. SchedulesGranted'
    BY <1>0, <1>i, <1>1 DEF PromoteRowEffect1, SchedulesGranted, SchedulesAs, SchedulingSteps,
        DecisionsExclude, Closed
  <2>4. CancelsPresent'
    BY <1>0, <1>i, <1>1 DEF PromoteRowEffect1, CancelsPresent
  <2> QED
    BY <2>1, <2>2, <2>3, <2>4 DEF DecisionInv
<1>2. ASSUME PromoteRowEffect2(p) PROVE DecisionInv'
  <2>1. DecisionsExclude'
    BY <1>0, <1>i, <1>2 DEF PromoteRowEffect2, DecisionsExclude, Closed, GrantedStays,
        SchedulesGranted, SchedulesAs, SchedulingSteps
  <2>2. GrantedStays'
    BY <1>0, <1>i, <1>2 DEF PromoteRowEffect2, GrantedStays, DecisionsExclude, Closed
  <2>3. SchedulesGranted'
    BY <1>0, <1>i, <1>2 DEF PromoteRowEffect2, SchedulesGranted, SchedulesAs, SchedulingSteps,
        DecisionsExclude, Closed
  <2>4. CancelsPresent'
    BY <1>0, <1>i, <1>2 DEF PromoteRowEffect2, CancelsPresent
  <2> QED
    BY <2>1, <2>2, <2>3, <2>4 DEF DecisionInv
<1> QED
  BY <1>1, <1>2, PromoteRowEffect
LEMMA DecisionFetchRow ==
  ASSUME TypeOK, TypeOK', DecisionInv, NEW p \in Taps, FetchRow(p)
  PROVE  DecisionInv'
BY TrendTextsAssumption, RowsAssumption, ProcessesAssumption DEF FetchRow, TypeOK, DecisionInv,
    DecisionsExclude, GrantedStays, SchedulesGranted, CancelsPresent, SchedulesAs,
        SchedulingSteps, NextRow, SetRow, Schedulable, Swappable, Closed, Patch, Goto, Leave,
            Start, NoCand, Matches, CandRows, Commands, See, history, cardHistory, commands
LEMMA DecisionFinalize ==
  ASSUME TypeOK, DecisionInv, NEW p \in Taps, Finalize(p)
  PROVE  DecisionInv'
<1>0. /\ p \in Commands /\ \A r \in Commands : at[r] \in Cands
      /\ Passes \subseteq Commands /\ Taps \subseteq Commands /\ Passes \cap Taps = {}
      /\ \A d \in Cands : cards[d] \in Nat /\ lost[d] \in Nat
      /\ \A r \in Rows : queue[r].cand \in Cands
      /\ granted \subseteq Cands /\ refused \subseteq Cands
      /\ \A d \in Cands : cand[d].draft \in Texts \cup {NoText}
  BY ProcessesAssumption DEF Commands, TypeOK, CandRows
<1>i. DecisionsExclude /\ GrantedStays /\ SchedulesGranted /\ CancelsPresent
  BY DEF DecisionInv
<1>1. ASSUME FinalizeEffect1(p) PROVE DecisionInv'
  <2>1. DecisionsExclude'
    BY <1>0, <1>i, <1>1 DEF FinalizeEffect1, DecisionsExclude, Closed, GrantedStays,
        SchedulesGranted, SchedulesAs, SchedulingSteps
  <2>2. GrantedStays'
    BY <1>0, <1>i, <1>1 DEF FinalizeEffect1, GrantedStays, DecisionsExclude, Closed
  <2>3. SchedulesGranted'
    BY <1>0, <1>i, <1>1 DEF FinalizeEffect1, SchedulesGranted, SchedulesAs, SchedulingSteps,
        DecisionsExclude, Closed
  <2>4. CancelsPresent'
    BY <1>0, <1>i, <1>1 DEF FinalizeEffect1, CancelsPresent
  <2> QED
    BY <2>1, <2>2, <2>3, <2>4 DEF DecisionInv
<1> QED
  BY <1>1, FinalizeEffect
LEMMA DecisionCancelRow ==
  ASSUME TypeOK, TypeOK', DecisionInv, NEW p \in Taps, CancelRow(p)
  PROVE  DecisionInv'
BY TrendTextsAssumption, RowsAssumption, ProcessesAssumption DEF CancelRow, TypeOK,
    DecisionInv, DecisionsExclude, GrantedStays, SchedulesGranted, CancelsPresent, SchedulesAs,
        SchedulingSteps, NextRow, SetRow, Schedulable, Swappable, Closed, Patch, Goto, Leave,
            Start, NoCand, Matches, CandRows, Commands, See, history, cardHistory, commands
LEMMA DecisionInsertRow ==
  ASSUME TypeOK, TypeOK', DecisionInv, NEW p \in Taps, NEW q \in Rows, InsertRow(p, q)
  PROVE  DecisionInv'
BY TrendTextsAssumption, RowsAssumption, ProcessesAssumption DEF InsertRow, TypeOK,
    DecisionInv, DecisionsExclude, GrantedStays, SchedulesGranted, CancelsPresent, SchedulesAs,
        SchedulingSteps, NextRow, SetRow, Schedulable, Swappable, Closed, Patch, Goto, Leave,
            Start, NoCand, Matches, CandRows, Commands, See, history, cardHistory, commands
LEMMA DecisionPublish ==
  ASSUME TypeOK, TypeOK', DecisionInv, NEW q \in Rows, Publish(q)
  PROVE  DecisionInv'
BY TrendTextsAssumption, RowsAssumption, ProcessesAssumption DEF Publish, TypeOK, DecisionInv,
    DecisionsExclude, GrantedStays, SchedulesGranted, CancelsPresent, SchedulesAs,
        SchedulingSteps, NextRow, SetRow, Schedulable, Swappable, Closed, Patch, Goto, Leave,
            Start, NoCand, Matches, CandRows, Commands, See, history, cardHistory, commands
LEMMA DecisionCrash ==
  ASSUME TypeOK, TypeOK', DecisionInv, NEW p \in Commands, Crash(p)
  PROVE  DecisionInv'
BY TrendTextsAssumption, RowsAssumption, ProcessesAssumption DEF Crash, TypeOK, DecisionInv,
    DecisionsExclude, GrantedStays, SchedulesGranted, CancelsPresent, SchedulesAs,
        SchedulingSteps, NextRow, SetRow, Schedulable, Swappable, Closed, Patch, Goto, Leave,
            Start, NoCand, Matches, CandRows, Commands, Upset, See, history, cardHistory,
                commands
LEMMA DecisionStep == TypeOK /\ TypeOK' /\ DecisionInv /\ [Next]_trendVars => DecisionInv'
<1> SUFFICES ASSUME TypeOK, TypeOK', DecisionInv, [Next]_trendVars PROVE DecisionInv'
  OBVIOUS
<1>1. CASE UNCHANGED trendVars
  BY <1>1 DEF DecisionInv, DecisionsExclude, GrantedStays, SchedulesGranted, CancelsPresent,
      SchedulesAs, SchedulingSteps, NextRow, SetRow, Schedulable, Swappable, trendVars,
          commands, history, cardHistory
<1>2. CASE Next
  <2>n. Next
    BY <1>2
  <2>1. ASSUME NEW c \in Cands, Insert(c) PROVE DecisionInv'
    BY <2>1, DecisionInsert
  <2>2. ASSUME NEW c \in Cands, InsertUnstamped(c) PROVE DecisionInv'
    BY <2>2, DecisionInsertUnstamped
  <2>3. ASSUME NEW c \in Cands, NEW q \in Rows, InsertLinked(c, q) PROVE DecisionInv'
    BY <2>3, DecisionInsertLinked
  <2>4. ASSUME NEW c \in Cands, Refuse(c) PROVE DecisionInv'
    BY <2>4, DecisionRefuse
  <2>5. ASSUME NEW c \in Cands, TimeOut(c) PROVE DecisionInv'
    BY <2>5, DecisionTimeOut
  <2>6. ASSUME NEW c \in Cands, ShowBacklog(c) PROVE DecisionInv'
    BY <2>6, DecisionShowBacklog
  <2>7. ASSUME NEW p \in Passes, NEW c \in Cands, BeginDraft(p, c) PROVE DecisionInv'
    BY <2>7, DecisionBeginDraft
  <2>8. ASSUME NEW p \in Passes, NEW c \in Cands, BeginResend(p, c) PROVE DecisionInv'
    BY <2>8, DecisionBeginResend
  <2>9. ASSUME NEW p \in Passes, Irrelevant(p) PROVE DecisionInv'
    BY <2>9, DecisionIrrelevant
  <2>10. ASSUME NEW p \in Passes, Stage(p) PROVE DecisionInv'
    BY <2>10, DecisionStage
  <2>11. ASSUME NEW p \in Passes, Claim(p) PROVE DecisionInv'
    BY <2>11, DecisionClaim
  <2>12. ASSUME NEW p \in Passes, SendCard(p) PROVE DecisionInv'
    BY <2>12, DecisionSendCard
  <2>13. ASSUME NEW p \in Passes, CardFails(p) PROVE DecisionInv'
    BY <2>13, DecisionCardFails
  <2>14. ASSUME NEW p \in Passes, Release(p) PROVE DecisionInv'
    BY <2>14, DecisionRelease
  <2>15. ASSUME NEW p \in Passes, Promote(p) PROVE DecisionInv'
    BY <2>15, DecisionPromote
  <2>16. ASSUME NEW p \in Passes, RefRead(p) PROVE DecisionInv'
    BY <2>16, DecisionRefRead
  <2>17. ASSUME NEW p \in Passes, RefWrite(p) PROVE DecisionInv'
    BY <2>17, DecisionRefWrite
  <2>18. ASSUME NEW p \in Taps, NEW c \in Cands, BeginApprove(p, c) PROVE DecisionInv'
    BY <2>18, DecisionBeginApprove
  <2>19. ASSUME NEW p \in Taps, NEW c \in Cands, BeginUse(p, c) PROVE DecisionInv'
    BY <2>19, DecisionBeginUse
  <2>20. ASSUME NEW p \in Taps, NEW c \in Cands, BeginRefresh(p, c) PROVE DecisionInv'
    BY <2>20, DecisionBeginRefresh
  <2>21. ASSUME NEW p \in Taps, NEW c \in Cands, BeginRaw(p, c) PROVE DecisionInv'
    BY <2>21, DecisionBeginRaw
  <2>22. ASSUME NEW p \in Taps, NEW c \in Cands, BeginSchedule(p, c) PROVE DecisionInv'
    BY <2>22, DecisionBeginSchedule
  <2>23. ASSUME NEW p \in Taps, NEW c \in Cands, BeginCancel(p, c) PROVE DecisionInv'
    BY <2>23, DecisionBeginCancel
  <2>24. ASSUME NEW p \in Taps, NEW c \in Cands, NEW t \in Texts, BeginEdit(p, c,
      t) PROVE DecisionInv'
    BY <2>24, DecisionBeginEdit
  <2>25. ASSUME NEW p \in Taps, SaveDecision(p) PROVE DecisionInv'
    BY <2>25, DecisionSaveDecision
  <2>26. ASSUME NEW p \in Taps, SaveDraft(p) PROVE DecisionInv'
    BY <2>26, DecisionSaveDraft
  <2>27. ASSUME NEW p \in Taps, RawWrite(p) PROVE DecisionInv'
    BY <2>27, DecisionRawWrite
  <2>28. ASSUME NEW p \in Taps, PromoteRow(p) PROVE DecisionInv'
    BY <2>28, DecisionPromoteRow
  <2>29. ASSUME NEW p \in Taps, FetchRow(p) PROVE DecisionInv'
    BY <2>29, DecisionFetchRow
  <2>30. ASSUME NEW p \in Taps, Finalize(p) PROVE DecisionInv'
    BY <2>30, DecisionFinalize
  <2>31. ASSUME NEW p \in Taps, CancelRow(p) PROVE DecisionInv'
    BY <2>31, DecisionCancelRow
  <2>32. ASSUME NEW p \in Taps, NEW q \in Rows, InsertRow(p, q) PROVE DecisionInv'
    BY <2>32, DecisionInsertRow
  <2>33. ASSUME NEW q \in Rows, Publish(q) PROVE DecisionInv'
    BY <2>33, DecisionPublish
  <2>34. ASSUME NEW p \in Commands, Crash(p) PROVE DecisionInv'
    BY <2>34, DecisionCrash
  <2> QED
    BY <2>n, <2>1, <2>2, <2>3, <2>4, <2>5, <2>6, <2>7, <2>8, <2>9, <2>10, <2>11, <2>12, <2>13,
        <2>14, <2>15, <2>16, <2>17, <2>18, <2>19, <2>20, <2>21, <2>22, <2>23, <2>24, <2>25,
            <2>26, <2>27, <2>28, <2>29, <2>30, <2>31, <2>32, <2>33, <2>34 DEF Next, PassStep,
                TapStep, BeginTap
<1> QED
  BY <1>1, <1>2
LEMMA DecisionInit == Init => DecisionInv
BY RowsAssumption DEF Init, DecisionInv, DecisionsExclude, GrantedStays, SchedulesGranted,
    CancelsPresent, SchedulesAs, SchedulingSteps, NextRow, SetRow, Schedulable, Swappable,
        NoCand, NoRow, Commands, Closed
LEMMA DecisionAlways == Spec => []DecisionInv
<1>1. TypeOK /\ DecisionInv /\ [Next]_trendVars => DecisionInv'
  BY TypeStep, DecisionStep
<1> QED
  BY DecisionInit, <1>1, TypeCorrect, PTL DEF Spec

\* A person's decisions exclude each other for good, whatever the commands in
\* flight: trend-approve, -reject, -skip, -use, -discard and the scheduling ones.
THEOREM DecisionsExcludeEachOther == Spec => []DecisionsExclude
<1>1. DecisionInv => DecisionsExclude
  BY DEF DecisionInv
<1> QED
  BY <1>1, DecisionAlways, PTL

Holding(p, c) == at[p] = c /\ pc[p] \in {"send", "release", "promote"}

-----------------------------------------------------------------------------
(***************************************************************************)
(* Cards.  The stamp is a lock: one command at most holds a candidate between *)
(* its claim and its promotion or release, and only that command sends.    *)
(***************************************************************************)

TapsHoldNone ==
  \A p \in Taps : pc[p] \notin {"claim", "reclaim"} \cup HoldingSteps
EarlyUnstamped ==
  \A c \in Cands : cand[c].status \in {"absent", "discovered"} => ~cand[c].stamp
UnstampedUncarded ==
  \A c \in Cands : ~cand[c].stamp => cards[c] <= lost[c]
HoldersStamp ==
  \A p \in Passes : pc[p] \in HoldingSteps => cand[at[p]].stamp
OneHolder ==
  \A p, r \in Passes :
    pc[p] \in HoldingSteps /\ pc[r] \in HoldingSteps /\ at[p] = at[r] => p = r
HoldersUncarded ==
  \A p \in Passes :
    pc[p] \in HoldingSteps \ {"promote"} => cards[at[p]] <= lost[at[p]]
PromotedCarded ==
  \A p \in Passes : pc[p] = "promote" => cards[at[p]] > 0
ResendsLate ==
  \A p \in Passes :
    pc[p] \in {"reclaim", "resend"} =>
      cand[at[p]].status \notin {"absent", "discovered", "drafted"}
ScheduledCarded ==
  \A p \in Commands :
    pc[p] \in SchedulesAs /\ origin[at[p]] = "new" => cards[at[p]] > 0

CardInv ==
  /\ ClaimHeld
  /\ OneCardUnlessLost
  /\ DecisionAfterCard
  /\ TapsHoldNone
  /\ EarlyUnstamped
  /\ UnstampedUncarded
  /\ HoldersStamp
  /\ OneHolder
  /\ HoldersUncarded
  /\ PromotedCarded
  /\ ResendsLate
  /\ ScheduledCarded

LEMMA CardInsert ==
  ASSUME TypeOK, TypeOK', CardInv, NEW c \in Cands, Insert(c)
  PROVE  CardInv'
BY TrendTextsAssumption, RowsAssumption, ProcessesAssumption DEF Insert, TypeOK, CardInv,
    ClaimHeld, OneCardUnlessLost, DecisionAfterCard, TapsHoldNone, EarlyUnstamped,
        UnstampedUncarded, HoldersStamp, OneHolder, HoldersUncarded, PromotedCarded,
            ResendsLate, ScheduledCarded, Claimable, HoldingSteps, SchedulesAs, Swappable,
                SchedulingSteps, Schedulable, Closed, Patch, Goto, Leave, Start, NoCand,
                    Matches, CandRows, Commands, See, history, cardHistory, commands
LEMMA CardInsertUnstamped ==
  ASSUME TypeOK, TypeOK', CardInv, NEW c \in Cands, InsertUnstamped(c)
  PROVE  CardInv'
BY TrendTextsAssumption, RowsAssumption, ProcessesAssumption DEF InsertUnstamped, TypeOK,
    CardInv, ClaimHeld, OneCardUnlessLost, DecisionAfterCard, TapsHoldNone, EarlyUnstamped,
        UnstampedUncarded, HoldersStamp, OneHolder, HoldersUncarded, PromotedCarded,
            ResendsLate, ScheduledCarded, Claimable, HoldingSteps, SchedulesAs, Swappable,
                SchedulingSteps, Schedulable, Closed, Patch, Goto, Leave, Start, NoCand,
                    Matches, CandRows, Commands, See, history, cardHistory, commands
LEMMA CardInsertLinked ==
  ASSUME TypeOK, TypeOK', CardInv, NEW c \in Cands, NEW q \in Rows, InsertLinked(c, q)
  PROVE  CardInv'
BY TrendTextsAssumption, RowsAssumption, ProcessesAssumption DEF InsertLinked, TypeOK, CardInv,
    ClaimHeld, OneCardUnlessLost, DecisionAfterCard, TapsHoldNone, EarlyUnstamped,
        UnstampedUncarded, HoldersStamp, OneHolder, HoldersUncarded, PromotedCarded,
            ResendsLate, ScheduledCarded, Claimable, HoldingSteps, SchedulesAs, Swappable,
                SchedulingSteps, Schedulable, Closed, Patch, Goto, Leave, Start, NoCand,
                    Matches, CandRows, Commands, See, history, cardHistory, commands
LEMMA CardRefuse ==
  ASSUME TypeOK, TypeOK', CardInv, NEW c \in Cands, Refuse(c)
  PROVE  CardInv'
<1>i. ClaimHeld /\ OneCardUnlessLost /\ DecisionAfterCard /\ TapsHoldNone /\ EarlyUnstamped
    /\ UnstampedUncarded /\ HoldersStamp /\ OneHolder /\ HoldersUncarded /\ PromotedCarded
        /\ ResendsLate /\ ScheduledCarded
  BY DEF CardInv
<1>e. RefuseEffect(c)
  BY RefuseEffectHolds
<1>0. granted \subseteq Cands /\ refused \subseteq Cands /\ \A r \in Commands : at[r] \in Cands
  BY DEF TypeOK
<1>1. ClaimHeld'
  BY <1>i, <1>0, <1>e DEF ClaimHeld, RefuseEffect, Closed, Commands
<1>2. OneCardUnlessLost'
  BY <1>i, <1>0, <1>e DEF OneCardUnlessLost, HoldersUncarded, HoldingSteps, RefuseEffect,
      Closed, Commands
<1>3. DecisionAfterCard'
  BY <1>i, <1>0, <1>e DEF DecisionAfterCard, PromotedCarded, ScheduledCarded, SchedulesAs,
      SchedulingSteps, RefuseEffect, Closed, Commands
<1>4. TapsHoldNone'
  BY <1>i, <1>0, <1>e DEF TapsHoldNone, HoldingSteps, RefuseEffect, Closed, Commands
<1>5. EarlyUnstamped'
  BY <1>i, <1>0, <1>e DEF EarlyUnstamped, RefuseEffect, Closed, Commands
<1>6. UnstampedUncarded'
  BY <1>i, <1>0, <1>e DEF UnstampedUncarded, HoldersUncarded, HoldingSteps, OneHolder,
      RefuseEffect, Closed, Commands
<1>7. HoldersStamp'
  BY <1>i, <1>0, <1>e DEF HoldersStamp, HoldingSteps, OneHolder, RefuseEffect, Closed, Commands
<1>8. OneHolder'
  BY <1>i, <1>0, <1>e DEF OneHolder, HoldingSteps, HoldersStamp, RefuseEffect, Closed, Commands
<1>9. HoldersUncarded'
  BY <1>i, <1>0, <1>e DEF HoldersUncarded, HoldingSteps, UnstampedUncarded, OneHolder,
      RefuseEffect, Closed, Commands
<1>10. PromotedCarded'
  BY <1>i, <1>0, <1>e DEF PromotedCarded, RefuseEffect, Closed, Commands
<1>11. ResendsLate'
  BY <1>i, <1>0, <1>e DEF ResendsLate, RefuseEffect, Closed, Commands
<1>12. ScheduledCarded'
  BY <1>i, <1>0, <1>e DEF ScheduledCarded, SchedulesAs, SchedulingSteps, DecisionAfterCard,
      RefuseEffect, Closed, Commands
<1> QED
  BY <1>1, <1>2, <1>3, <1>4, <1>5, <1>6, <1>7, <1>8, <1>9, <1>10, <1>11, <1>12 DEF CardInv
LEMMA CardTimeOut ==
  ASSUME TypeOK, TypeOK', CardInv, NEW c \in Cands, TimeOut(c)
  PROVE  CardInv'
BY TrendTextsAssumption, RowsAssumption, ProcessesAssumption DEF TimeOut, Stale, MoveToBacklog,
    TypeOK, CardInv, ClaimHeld, OneCardUnlessLost, DecisionAfterCard, TapsHoldNone,
        EarlyUnstamped, UnstampedUncarded, HoldersStamp, OneHolder, HoldersUncarded,
            PromotedCarded, ResendsLate, ScheduledCarded, Claimable, HoldingSteps, SchedulesAs,
                Swappable, SchedulingSteps, Schedulable, Closed, Patch, Goto, Leave, Start,
                    NoCand, Matches, CandRows, Commands, See, history, cardHistory, commands
LEMMA CardShowBacklog ==
  ASSUME TypeOK, TypeOK', CardInv, NEW c \in Cands, ShowBacklog(c)
  PROVE  CardInv'
BY TrendTextsAssumption, RowsAssumption, ProcessesAssumption DEF ShowBacklog, Listed, TypeOK,
    CardInv, ClaimHeld, OneCardUnlessLost, DecisionAfterCard, TapsHoldNone, EarlyUnstamped,
        UnstampedUncarded, HoldersStamp, OneHolder, HoldersUncarded, PromotedCarded,
            ResendsLate, ScheduledCarded, Claimable, HoldingSteps, SchedulesAs, Swappable,
                SchedulingSteps, Schedulable, Closed, Patch, Goto, Leave, Start, NoCand,
                    Matches, CandRows, Commands, See, history, cardHistory, commands
LEMMA CardBeginDraft ==
  ASSUME TypeOK, TypeOK', CardInv, NEW p \in Passes, NEW c \in Cands, BeginDraft(p, c)
  PROVE  CardInv'
BY TrendTextsAssumption, RowsAssumption, ProcessesAssumption DEF BeginDraft, TypeOK, CardInv,
    ClaimHeld, OneCardUnlessLost, DecisionAfterCard, TapsHoldNone, EarlyUnstamped,
        UnstampedUncarded, HoldersStamp, OneHolder, HoldersUncarded, PromotedCarded,
            ResendsLate, ScheduledCarded, Claimable, HoldingSteps, SchedulesAs, Swappable,
                SchedulingSteps, Schedulable, Closed, Patch, Goto, Leave, Start, NoCand,
                    Matches, CandRows, Commands, See, history, cardHistory, commands
LEMMA CardBeginResend ==
  ASSUME TypeOK, TypeOK', CardInv, NEW p \in Passes, NEW c \in Cands, BeginResend(p, c)
  PROVE  CardInv'
<1>i. ClaimHeld /\ OneCardUnlessLost /\ DecisionAfterCard /\ TapsHoldNone /\ EarlyUnstamped
    /\ UnstampedUncarded /\ HoldersStamp /\ OneHolder /\ HoldersUncarded /\ PromotedCarded
        /\ ResendsLate /\ ScheduledCarded
  BY DEF CardInv
<1>r. /\ UNCHANGED <<cand, orphans>>
     /\ pc[p] = "idle" /\ p \in Commands /\ DOMAIN pc = Commands /\ DOMAIN at = Commands
     /\ pc' = [pc EXCEPT ![p] = "reclaim"] /\ at' = [at EXCEPT ![p] = c]
  BY DEF BeginResend, Start, Commands, TypeOK, history, cardHistory
<1>1. ClaimHeld'
  <2> SUFFICES ASSUME NEW d \in Cands, cand[d].status = "drafted", cand[d].stamp, d \notin orphans
               PROVE  \E q \in Passes : at'[q] = d /\ pc'[q] \in {"send", "release", "promote"}
    BY <1>r DEF ClaimHeld
  <2>1. PICK q \in Passes : at[q] = d /\ pc[q] \in {"send", "release", "promote"}
    BY <1>i DEF ClaimHeld
  <2>2. q # p
    BY <1>r, <2>1
  <2>3. at'[q] = at[q] /\ pc'[q] = pc[q]
    BY <1>r, <2>2 DEF Commands
  <2> QED
    BY <2>1, <2>3
<1>2. OneCardUnlessLost'
  BY <1>i, ProcessesAssumption DEF BeginResend, OneCardUnlessLost, HoldersUncarded,
      HoldingSteps, Patch, Start, Leave, Matches, TypeOK, CandRows, Commands, Closed,
          TrendStatuses, See, NoteOutdated, Outdated, history, cardHistory, commands
<1>3. DecisionAfterCard'
  BY <1>i, ProcessesAssumption DEF BeginResend, DecisionAfterCard, PromotedCarded,
      ScheduledCarded, SchedulesAs, SchedulingSteps, Patch, Start, Leave, Matches, TypeOK,
          CandRows, Commands, Closed, TrendStatuses, See, NoteOutdated, Outdated, history,
              cardHistory, commands
<1>4. TapsHoldNone'
  BY <1>i, ProcessesAssumption DEF BeginResend, TapsHoldNone, HoldingSteps, Patch, Start,
      Leave, Matches, TypeOK, CandRows, Commands, Closed, TrendStatuses, See, NoteOutdated,
          Outdated, history, cardHistory, commands
<1>5. EarlyUnstamped'
  BY <1>i, ProcessesAssumption DEF BeginResend, EarlyUnstamped, Patch, Start, Leave, Matches,
      TypeOK, CandRows, Commands, Closed, TrendStatuses, See, NoteOutdated, Outdated, history,
          cardHistory, commands
<1>6. UnstampedUncarded'
  BY <1>i, ProcessesAssumption DEF BeginResend, UnstampedUncarded, HoldersUncarded,
      HoldingSteps, OneHolder, Patch, Start, Leave, Matches, TypeOK, CandRows, Commands,
          Closed, TrendStatuses, See, NoteOutdated, Outdated, history, cardHistory, commands
<1>7. HoldersStamp'
  BY <1>i, ProcessesAssumption DEF BeginResend, HoldersStamp, HoldingSteps, OneHolder, Patch,
      Start, Leave, Matches, TypeOK, CandRows, Commands, Closed, TrendStatuses, See,
          NoteOutdated, Outdated, history, cardHistory, commands
<1>8. OneHolder'
  BY <1>i, ProcessesAssumption DEF BeginResend, OneHolder, HoldingSteps, HoldersStamp, Patch,
      Start, Leave, Matches, TypeOK, CandRows, Commands, Closed, TrendStatuses, See,
          NoteOutdated, Outdated, history, cardHistory, commands
<1>9. HoldersUncarded'
  BY <1>i, ProcessesAssumption DEF BeginResend, HoldersUncarded, HoldingSteps,
      UnstampedUncarded, OneHolder, Patch, Start, Leave, Matches, TypeOK, CandRows, Commands,
          Closed, TrendStatuses, See, NoteOutdated, Outdated, history, cardHistory, commands
<1>10. PromotedCarded'
  BY <1>i, ProcessesAssumption DEF BeginResend, PromotedCarded, Patch, Start, Leave, Matches,
      TypeOK, CandRows, Commands, Closed, TrendStatuses, See, NoteOutdated, Outdated, history,
          cardHistory, commands
<1>11. ResendsLate'
  BY <1>i, ProcessesAssumption DEF BeginResend, ResendsLate, Patch, Start, Leave, Matches,
      TypeOK, CandRows, Commands, Closed, TrendStatuses, See, NoteOutdated, Outdated, history,
          cardHistory, commands
<1>12. ScheduledCarded'
  BY <1>i, ProcessesAssumption DEF BeginResend, ScheduledCarded, SchedulesAs, SchedulingSteps,
      DecisionAfterCard, Patch, Start, Leave, Matches, TypeOK, CandRows, Commands, Closed,
          TrendStatuses, See, NoteOutdated, Outdated, history, cardHistory, commands
<1> QED
  BY <1>1, <1>2, <1>3, <1>4, <1>5, <1>6, <1>7, <1>8, <1>9, <1>10, <1>11, <1>12 DEF CardInv
LEMMA CardIrrelevant ==
  ASSUME TypeOK, CardInv, NEW p \in Passes, Irrelevant(p)
  PROVE  CardInv'
<1>0. /\ p \in Commands /\ \A r \in Commands : at[r] \in Cands
      /\ Passes \subseteq Commands /\ Taps \subseteq Commands /\ Passes \cap Taps = {}
      /\ \A d \in Cands : cards[d] \in Nat /\ lost[d] \in Nat
      /\ \A r \in Rows : queue[r].cand \in Cands
      /\ granted \subseteq Cands /\ refused \subseteq Cands
      /\ \A d \in Cands : cand[d].draft \in Texts \cup {NoText}
  BY ProcessesAssumption DEF Commands, TypeOK, CandRows
<1>i. ClaimHeld /\ OneCardUnlessLost /\ DecisionAfterCard /\ TapsHoldNone /\ EarlyUnstamped
    /\ UnstampedUncarded /\ HoldersStamp /\ OneHolder /\ HoldersUncarded /\ PromotedCarded
        /\ ResendsLate /\ ScheduledCarded
  BY DEF CardInv
<1>1. ASSUME IrrelevantEffect1(p) PROVE CardInv'
  <2>1. ClaimHeld'
    <3> SUFFICES ASSUME NEW c \in Cands, cand'[c].status = "drafted", cand'[c].stamp,
        c \notin orphans'
                 PROVE  \E r \in Passes : Holding(r, c)'
      BY DEF ClaimHeld, Holding
    <3>1. CASE cand[c].status = "drafted" /\ cand[c].stamp
      <4>1. PICK r \in Passes : Holding(r, c)
        BY <1>1, <3>1, <1>i DEF IrrelevantEffect1, ClaimHeld, Holding
      <4>2. CASE r = p
        BY <1>0, <1>i, <1>1, <3>1, <4>1, <4>2 DEF IrrelevantEffect1, HoldersStamp,
            EarlyUnstamped, ResendsLate, OneHolder, Holding, HoldingSteps
      <4>3. CASE r # p
        BY <1>0, <1>i, <1>1, <3>1, <4>1, <4>3 DEF IrrelevantEffect1, HoldersStamp,
            EarlyUnstamped, ResendsLate, OneHolder, Holding, HoldingSteps
      <4> QED
        BY <4>2, <4>3
    <3>2. CASE ~(cand[c].status = "drafted" /\ cand[c].stamp)
      BY <1>0, <1>i, <1>1, <3>2 DEF IrrelevantEffect1, HoldersStamp, EarlyUnstamped,
          ResendsLate, OneHolder, Holding, HoldingSteps
    <3> QED
      BY <3>1, <3>2
  <2>2. OneCardUnlessLost'
    BY <1>0, <1>i, <1>1 DEF IrrelevantEffect1, OneCardUnlessLost, HoldersUncarded, HoldingSteps
  <2>3. DecisionAfterCard'
    BY <1>0, <1>i, <1>1 DEF IrrelevantEffect1, DecisionAfterCard, PromotedCarded,
        ScheduledCarded, SchedulesAs, SchedulingSteps
  <2>4. TapsHoldNone'
    BY <1>0, <1>i, <1>1 DEF IrrelevantEffect1, TapsHoldNone, HoldingSteps
  <2>5. EarlyUnstamped'
    BY <1>0, <1>i, <1>1 DEF IrrelevantEffect1, EarlyUnstamped
  <2>6. UnstampedUncarded'
    BY <1>0, <1>i, <1>1 DEF IrrelevantEffect1, UnstampedUncarded, HoldersUncarded,
        HoldingSteps, OneHolder
  <2>7. HoldersStamp'
    BY <1>0, <1>i, <1>1 DEF IrrelevantEffect1, HoldersStamp, HoldingSteps, OneHolder
  <2>8. OneHolder'
    BY <1>0, <1>i, <1>1 DEF IrrelevantEffect1, OneHolder, HoldingSteps, HoldersStamp
  <2>9. HoldersUncarded'
    BY <1>0, <1>i, <1>1 DEF IrrelevantEffect1, HoldersUncarded, HoldingSteps,
        UnstampedUncarded, OneHolder
  <2>10. PromotedCarded'
    BY <1>0, <1>i, <1>1 DEF IrrelevantEffect1, PromotedCarded
  <2>11. ResendsLate'
    BY <1>0, <1>i, <1>1 DEF IrrelevantEffect1, ResendsLate
  <2>12. ScheduledCarded'
    BY <1>0, <1>i, <1>1 DEF IrrelevantEffect1, ScheduledCarded, SchedulesAs, SchedulingSteps,
        DecisionAfterCard
  <2> QED
    BY <2>1, <2>2, <2>3, <2>4, <2>5, <2>6, <2>7, <2>8, <2>9, <2>10, <2>11, <2>12 DEF CardInv
<1>2. ASSUME IrrelevantEffect2(p) PROVE CardInv'
  <2>1. ClaimHeld'
    <3> SUFFICES ASSUME NEW c \in Cands, cand'[c].status = "drafted", cand'[c].stamp,
        c \notin orphans'
                 PROVE  \E r \in Passes : Holding(r, c)'
      BY DEF ClaimHeld, Holding
    <3>1. CASE cand[c].status = "drafted" /\ cand[c].stamp
      <4>1. PICK r \in Passes : Holding(r, c)
        BY <1>2, <3>1, <1>i DEF IrrelevantEffect2, ClaimHeld, Holding
      <4>2. CASE r = p
        BY <1>0, <1>i, <1>2, <3>1, <4>1, <4>2 DEF IrrelevantEffect2, HoldersStamp,
            EarlyUnstamped, ResendsLate, OneHolder, Holding, HoldingSteps
      <4>3. CASE r # p
        BY <1>0, <1>i, <1>2, <3>1, <4>1, <4>3 DEF IrrelevantEffect2, HoldersStamp,
            EarlyUnstamped, ResendsLate, OneHolder, Holding, HoldingSteps
      <4> QED
        BY <4>2, <4>3
    <3>2. CASE ~(cand[c].status = "drafted" /\ cand[c].stamp)
      BY <1>0, <1>i, <1>2, <3>2 DEF IrrelevantEffect2, HoldersStamp, EarlyUnstamped,
          ResendsLate, OneHolder, Holding, HoldingSteps
    <3> QED
      BY <3>1, <3>2
  <2>2. OneCardUnlessLost'
    BY <1>0, <1>i, <1>2 DEF IrrelevantEffect2, OneCardUnlessLost, HoldersUncarded, HoldingSteps
  <2>3. DecisionAfterCard'
    BY <1>0, <1>i, <1>2 DEF IrrelevantEffect2, DecisionAfterCard, PromotedCarded,
        ScheduledCarded, SchedulesAs, SchedulingSteps
  <2>4. TapsHoldNone'
    BY <1>0, <1>i, <1>2 DEF IrrelevantEffect2, TapsHoldNone, HoldingSteps
  <2>5. EarlyUnstamped'
    BY <1>0, <1>i, <1>2 DEF IrrelevantEffect2, EarlyUnstamped
  <2>6. UnstampedUncarded'
    BY <1>0, <1>i, <1>2 DEF IrrelevantEffect2, UnstampedUncarded, HoldersUncarded,
        HoldingSteps, OneHolder
  <2>7. HoldersStamp'
    BY <1>0, <1>i, <1>2 DEF IrrelevantEffect2, HoldersStamp, HoldingSteps, OneHolder
  <2>8. OneHolder'
    BY <1>0, <1>i, <1>2 DEF IrrelevantEffect2, OneHolder, HoldingSteps, HoldersStamp
  <2>9. HoldersUncarded'
    BY <1>0, <1>i, <1>2 DEF IrrelevantEffect2, HoldersUncarded, HoldingSteps,
        UnstampedUncarded, OneHolder
  <2>10. PromotedCarded'
    BY <1>0, <1>i, <1>2 DEF IrrelevantEffect2, PromotedCarded
  <2>11. ResendsLate'
    BY <1>0, <1>i, <1>2 DEF IrrelevantEffect2, ResendsLate
  <2>12. ScheduledCarded'
    BY <1>0, <1>i, <1>2 DEF IrrelevantEffect2, ScheduledCarded, SchedulesAs, SchedulingSteps,
        DecisionAfterCard
  <2> QED
    BY <2>1, <2>2, <2>3, <2>4, <2>5, <2>6, <2>7, <2>8, <2>9, <2>10, <2>11, <2>12 DEF CardInv
<1> QED
  BY <1>1, <1>2, IrrelevantEffect
LEMMA CardStage ==
  ASSUME TypeOK, CardInv, NEW p \in Passes, Stage(p)
  PROVE  CardInv'
<1>0. /\ p \in Commands /\ \A r \in Commands : at[r] \in Cands
      /\ Passes \subseteq Commands /\ Taps \subseteq Commands /\ Passes \cap Taps = {}
      /\ \A d \in Cands : cards[d] \in Nat /\ lost[d] \in Nat
      /\ \A r \in Rows : queue[r].cand \in Cands
      /\ granted \subseteq Cands /\ refused \subseteq Cands
      /\ \A d \in Cands : cand[d].draft \in Texts \cup {NoText}
  BY ProcessesAssumption DEF Commands, TypeOK, CandRows
<1>i. ClaimHeld /\ OneCardUnlessLost /\ DecisionAfterCard /\ TapsHoldNone /\ EarlyUnstamped
    /\ UnstampedUncarded /\ HoldersStamp /\ OneHolder /\ HoldersUncarded /\ PromotedCarded
        /\ ResendsLate /\ ScheduledCarded
  BY DEF CardInv
<1>1. ASSUME StageEffect1(p) PROVE CardInv'
  <2>1. ClaimHeld'
    <3> SUFFICES ASSUME NEW c \in Cands, cand'[c].status = "drafted", cand'[c].stamp,
        c \notin orphans'
                 PROVE  \E r \in Passes : Holding(r, c)'
      BY DEF ClaimHeld, Holding
    <3>1. CASE cand[c].status = "drafted" /\ cand[c].stamp
      <4>1. PICK r \in Passes : Holding(r, c)
        BY <1>1, <3>1, <1>i DEF StageEffect1, ClaimHeld, Holding
      <4>2. CASE r = p
        BY <1>0, <1>i, <1>1, <3>1, <4>1, <4>2 DEF StageEffect1, HoldersStamp, EarlyUnstamped,
            ResendsLate, OneHolder, Holding, HoldingSteps
      <4>3. CASE r # p
        BY <1>0, <1>i, <1>1, <3>1, <4>1, <4>3 DEF StageEffect1, HoldersStamp, EarlyUnstamped,
            ResendsLate, OneHolder, Holding, HoldingSteps
      <4> QED
        BY <4>2, <4>3
    <3>2. CASE ~(cand[c].status = "drafted" /\ cand[c].stamp)
      BY <1>0, <1>i, <1>1, <3>2 DEF StageEffect1, HoldersStamp, EarlyUnstamped, ResendsLate,
          OneHolder, Holding, HoldingSteps
    <3> QED
      BY <3>1, <3>2
  <2>2. OneCardUnlessLost'
    BY <1>0, <1>i, <1>1 DEF StageEffect1, OneCardUnlessLost, HoldersUncarded, HoldingSteps
  <2>3. DecisionAfterCard'
    BY <1>0, <1>i, <1>1 DEF StageEffect1, DecisionAfterCard, PromotedCarded, ScheduledCarded,
        SchedulesAs, SchedulingSteps
  <2>4. TapsHoldNone'
    BY <1>0, <1>i, <1>1 DEF StageEffect1, TapsHoldNone, HoldingSteps
  <2>5. EarlyUnstamped'
    BY <1>0, <1>i, <1>1 DEF StageEffect1, EarlyUnstamped
  <2>6. UnstampedUncarded'
    BY <1>0, <1>i, <1>1 DEF StageEffect1, UnstampedUncarded, HoldersUncarded, HoldingSteps,
        OneHolder
  <2>7. HoldersStamp'
    BY <1>0, <1>i, <1>1 DEF StageEffect1, HoldersStamp, HoldingSteps, OneHolder
  <2>8. OneHolder'
    BY <1>0, <1>i, <1>1 DEF StageEffect1, OneHolder, HoldingSteps, HoldersStamp
  <2>9. HoldersUncarded'
    BY <1>0, <1>i, <1>1 DEF StageEffect1, HoldersUncarded, HoldingSteps, UnstampedUncarded,
        OneHolder
  <2>10. PromotedCarded'
    BY <1>0, <1>i, <1>1 DEF StageEffect1, PromotedCarded
  <2>11. ResendsLate'
    BY <1>0, <1>i, <1>1 DEF StageEffect1, ResendsLate
  <2>12. ScheduledCarded'
    BY <1>0, <1>i, <1>1 DEF StageEffect1, ScheduledCarded, SchedulesAs, SchedulingSteps,
        DecisionAfterCard
  <2> QED
    BY <2>1, <2>2, <2>3, <2>4, <2>5, <2>6, <2>7, <2>8, <2>9, <2>10, <2>11, <2>12 DEF CardInv
<1>2. ASSUME StageEffect2(p) PROVE CardInv'
  <2>1. ClaimHeld'
    <3> SUFFICES ASSUME NEW c \in Cands, cand'[c].status = "drafted", cand'[c].stamp,
        c \notin orphans'
                 PROVE  \E r \in Passes : Holding(r, c)'
      BY DEF ClaimHeld, Holding
    <3>1. CASE cand[c].status = "drafted" /\ cand[c].stamp
      <4>1. PICK r \in Passes : Holding(r, c)
        BY <1>2, <3>1, <1>i DEF StageEffect2, ClaimHeld, Holding
      <4>2. CASE r = p
        BY <1>0, <1>i, <1>2, <3>1, <4>1, <4>2 DEF StageEffect2, HoldersStamp, EarlyUnstamped,
            ResendsLate, OneHolder, Holding, HoldingSteps
      <4>3. CASE r # p
        BY <1>0, <1>i, <1>2, <3>1, <4>1, <4>3 DEF StageEffect2, HoldersStamp, EarlyUnstamped,
            ResendsLate, OneHolder, Holding, HoldingSteps
      <4> QED
        BY <4>2, <4>3
    <3>2. CASE ~(cand[c].status = "drafted" /\ cand[c].stamp)
      BY <1>0, <1>i, <1>2, <3>2 DEF StageEffect2, HoldersStamp, EarlyUnstamped, ResendsLate,
          OneHolder, Holding, HoldingSteps
    <3> QED
      BY <3>1, <3>2
  <2>2. OneCardUnlessLost'
    BY <1>0, <1>i, <1>2 DEF StageEffect2, OneCardUnlessLost, HoldersUncarded, HoldingSteps
  <2>3. DecisionAfterCard'
    BY <1>0, <1>i, <1>2 DEF StageEffect2, DecisionAfterCard, PromotedCarded, ScheduledCarded,
        SchedulesAs, SchedulingSteps
  <2>4. TapsHoldNone'
    BY <1>0, <1>i, <1>2 DEF StageEffect2, TapsHoldNone, HoldingSteps
  <2>5. EarlyUnstamped'
    BY <1>0, <1>i, <1>2 DEF StageEffect2, EarlyUnstamped
  <2>6. UnstampedUncarded'
    BY <1>0, <1>i, <1>2 DEF StageEffect2, UnstampedUncarded, HoldersUncarded, HoldingSteps,
        OneHolder
  <2>7. HoldersStamp'
    BY <1>0, <1>i, <1>2 DEF StageEffect2, HoldersStamp, HoldingSteps, OneHolder
  <2>8. OneHolder'
    BY <1>0, <1>i, <1>2 DEF StageEffect2, OneHolder, HoldingSteps, HoldersStamp
  <2>9. HoldersUncarded'
    BY <1>0, <1>i, <1>2 DEF StageEffect2, HoldersUncarded, HoldingSteps, UnstampedUncarded,
        OneHolder
  <2>10. PromotedCarded'
    BY <1>0, <1>i, <1>2 DEF StageEffect2, PromotedCarded
  <2>11. ResendsLate'
    BY <1>0, <1>i, <1>2 DEF StageEffect2, ResendsLate
  <2>12. ScheduledCarded'
    BY <1>0, <1>i, <1>2 DEF StageEffect2, ScheduledCarded, SchedulesAs, SchedulingSteps,
        DecisionAfterCard
  <2> QED
    BY <2>1, <2>2, <2>3, <2>4, <2>5, <2>6, <2>7, <2>8, <2>9, <2>10, <2>11, <2>12 DEF CardInv
<1>3. ASSUME StageEffect3(p) PROVE CardInv'
  <2>1. ClaimHeld'
    <3> SUFFICES ASSUME NEW c \in Cands, cand'[c].status = "drafted", cand'[c].stamp,
        c \notin orphans'
                 PROVE  \E r \in Passes : Holding(r, c)'
      BY DEF ClaimHeld, Holding
    <3>1. CASE cand[c].status = "drafted" /\ cand[c].stamp
      <4>1. PICK r \in Passes : Holding(r, c)
        BY <1>3, <3>1, <1>i DEF StageEffect3, ClaimHeld, Holding
      <4>2. CASE r = p
        BY <1>0, <1>i, <1>3, <3>1, <4>1, <4>2 DEF StageEffect3, HoldersStamp, EarlyUnstamped,
            ResendsLate, OneHolder, Holding, HoldingSteps
      <4>3. CASE r # p
        BY <1>0, <1>i, <1>3, <3>1, <4>1, <4>3 DEF StageEffect3, HoldersStamp, EarlyUnstamped,
            ResendsLate, OneHolder, Holding, HoldingSteps
      <4> QED
        BY <4>2, <4>3
    <3>2. CASE ~(cand[c].status = "drafted" /\ cand[c].stamp)
      BY <1>0, <1>i, <1>3, <3>2 DEF StageEffect3, HoldersStamp, EarlyUnstamped, ResendsLate,
          OneHolder, Holding, HoldingSteps
    <3> QED
      BY <3>1, <3>2
  <2>2. OneCardUnlessLost'
    BY <1>0, <1>i, <1>3 DEF StageEffect3, OneCardUnlessLost, HoldersUncarded, HoldingSteps
  <2>3. DecisionAfterCard'
    BY <1>0, <1>i, <1>3 DEF StageEffect3, DecisionAfterCard, PromotedCarded, ScheduledCarded,
        SchedulesAs, SchedulingSteps
  <2>4. TapsHoldNone'
    BY <1>0, <1>i, <1>3 DEF StageEffect3, TapsHoldNone, HoldingSteps
  <2>5. EarlyUnstamped'
    BY <1>0, <1>i, <1>3 DEF StageEffect3, EarlyUnstamped
  <2>6. UnstampedUncarded'
    BY <1>0, <1>i, <1>3 DEF StageEffect3, UnstampedUncarded, HoldersUncarded, HoldingSteps,
        OneHolder
  <2>7. HoldersStamp'
    BY <1>0, <1>i, <1>3 DEF StageEffect3, HoldersStamp, HoldingSteps, OneHolder
  <2>8. OneHolder'
    BY <1>0, <1>i, <1>3 DEF StageEffect3, OneHolder, HoldingSteps, HoldersStamp
  <2>9. HoldersUncarded'
    BY <1>0, <1>i, <1>3 DEF StageEffect3, HoldersUncarded, HoldingSteps, UnstampedUncarded,
        OneHolder
  <2>10. PromotedCarded'
    BY <1>0, <1>i, <1>3 DEF StageEffect3, PromotedCarded
  <2>11. ResendsLate'
    BY <1>0, <1>i, <1>3 DEF StageEffect3, ResendsLate
  <2>12. ScheduledCarded'
    BY <1>0, <1>i, <1>3 DEF StageEffect3, ScheduledCarded, SchedulesAs, SchedulingSteps,
        DecisionAfterCard
  <2> QED
    BY <2>1, <2>2, <2>3, <2>4, <2>5, <2>6, <2>7, <2>8, <2>9, <2>10, <2>11, <2>12 DEF CardInv
<1> QED
  BY <1>1, <1>2, <1>3, StageEffect
LEMMA CardClaim ==
  ASSUME TypeOK, CardInv, NEW p \in Passes, Claim(p)
  PROVE  CardInv'
<1>0. /\ p \in Commands /\ \A r \in Commands : at[r] \in Cands
      /\ Passes \subseteq Commands /\ Taps \subseteq Commands /\ Passes \cap Taps = {}
      /\ \A d \in Cands : cards[d] \in Nat /\ lost[d] \in Nat
      /\ \A r \in Rows : queue[r].cand \in Cands
      /\ granted \subseteq Cands /\ refused \subseteq Cands
      /\ \A d \in Cands : cand[d].draft \in Texts \cup {NoText}
  BY ProcessesAssumption DEF Commands, TypeOK, CandRows
<1>i. ClaimHeld /\ OneCardUnlessLost /\ DecisionAfterCard /\ TapsHoldNone /\ EarlyUnstamped
    /\ UnstampedUncarded /\ HoldersStamp /\ OneHolder /\ HoldersUncarded /\ PromotedCarded
        /\ ResendsLate /\ ScheduledCarded
  BY DEF CardInv
<1>1. ASSUME ClaimEffect1(p) PROVE CardInv'
  <2>1. ClaimHeld'
    <3> SUFFICES ASSUME NEW c \in Cands, cand'[c].status = "drafted", cand'[c].stamp,
        c \notin orphans'
                 PROVE  \E r \in Passes : Holding(r, c)'
      BY DEF ClaimHeld, Holding
    <3>1. CASE cand[c].status = "drafted" /\ cand[c].stamp
      <4>1. PICK r \in Passes : Holding(r, c)
        BY <1>1, <3>1, <1>i DEF ClaimEffect1, ClaimHeld, Holding
      <4>2. CASE r = p
        BY <1>0, <1>i, <1>1, <3>1, <4>1, <4>2 DEF ClaimEffect1, HoldersStamp, EarlyUnstamped,
            ResendsLate, OneHolder, Holding, HoldingSteps, Claimable, Matches
      <4>3. CASE r # p
        BY <1>0, <1>i, <1>1, <3>1, <4>1, <4>3 DEF ClaimEffect1, HoldersStamp, EarlyUnstamped,
            ResendsLate, OneHolder, Holding, HoldingSteps, Claimable, Matches
      <4> QED
        BY <4>2, <4>3
    <3>2. CASE ~(cand[c].status = "drafted" /\ cand[c].stamp)
      BY <1>0, <1>i, <1>1, <3>2 DEF ClaimEffect1, HoldersStamp, EarlyUnstamped, ResendsLate,
          OneHolder, Holding, HoldingSteps, Claimable, Matches
    <3> QED
      BY <3>1, <3>2
  <2>2. OneCardUnlessLost'
    BY <1>0, <1>i, <1>1 DEF ClaimEffect1, OneCardUnlessLost, HoldersUncarded, HoldingSteps,
        Claimable, Matches
  <2>3. DecisionAfterCard'
    BY <1>0, <1>i, <1>1 DEF ClaimEffect1, DecisionAfterCard, PromotedCarded, ScheduledCarded,
        SchedulesAs, SchedulingSteps, Claimable, Matches
  <2>4. TapsHoldNone'
    BY <1>0, <1>i, <1>1 DEF ClaimEffect1, TapsHoldNone, HoldingSteps, Claimable, Matches
  <2>5. EarlyUnstamped'
    BY <1>0, <1>i, <1>1 DEF ClaimEffect1, EarlyUnstamped, Claimable, Matches
  <2>6. UnstampedUncarded'
    BY <1>0, <1>i, <1>1 DEF ClaimEffect1, UnstampedUncarded, HoldersUncarded, HoldingSteps,
        OneHolder, Claimable, Matches
  <2>7. HoldersStamp'
    BY <1>0, <1>i, <1>1 DEF ClaimEffect1, HoldersStamp, HoldingSteps, OneHolder, Claimable,
        Matches
  <2>8. OneHolder'
    BY <1>0, <1>i, <1>1 DEF ClaimEffect1, OneHolder, HoldingSteps, HoldersStamp, Claimable,
        Matches
  <2>9. HoldersUncarded'
    BY <1>0, <1>i, <1>1 DEF ClaimEffect1, HoldersUncarded, HoldingSteps, UnstampedUncarded,
        OneHolder, Claimable, Matches
  <2>10. PromotedCarded'
    BY <1>0, <1>i, <1>1 DEF ClaimEffect1, PromotedCarded, Claimable, Matches
  <2>11. ResendsLate'
    BY <1>0, <1>i, <1>1 DEF ClaimEffect1, ResendsLate, Claimable, Matches
  <2>12. ScheduledCarded'
    BY <1>0, <1>i, <1>1 DEF ClaimEffect1, ScheduledCarded, SchedulesAs, SchedulingSteps,
        DecisionAfterCard, Claimable, Matches
  <2> QED
    BY <2>1, <2>2, <2>3, <2>4, <2>5, <2>6, <2>7, <2>8, <2>9, <2>10, <2>11, <2>12 DEF CardInv
<1>2. ASSUME ClaimEffect2(p) PROVE CardInv'
  <2>1. ClaimHeld'
    <3> SUFFICES ASSUME NEW c \in Cands, cand'[c].status = "drafted", cand'[c].stamp,
        c \notin orphans'
                 PROVE  \E r \in Passes : Holding(r, c)'
      BY DEF ClaimHeld, Holding
    <3>1. CASE cand[c].status = "drafted" /\ cand[c].stamp
      <4>1. PICK r \in Passes : Holding(r, c)
        BY <1>2, <3>1, <1>i DEF ClaimEffect2, ClaimHeld, Holding
      <4>2. CASE r = p
        BY <1>0, <1>i, <1>2, <3>1, <4>1, <4>2 DEF ClaimEffect2, HoldersStamp, EarlyUnstamped,
            ResendsLate, OneHolder, Holding, HoldingSteps, Claimable, Matches
      <4>3. CASE r # p
        BY <1>0, <1>i, <1>2, <3>1, <4>1, <4>3 DEF ClaimEffect2, HoldersStamp, EarlyUnstamped,
            ResendsLate, OneHolder, Holding, HoldingSteps, Claimable, Matches
      <4> QED
        BY <4>2, <4>3
    <3>2. CASE ~(cand[c].status = "drafted" /\ cand[c].stamp)
      BY <1>0, <1>i, <1>2, <3>2 DEF ClaimEffect2, HoldersStamp, EarlyUnstamped, ResendsLate,
          OneHolder, Holding, HoldingSteps, Claimable, Matches
    <3> QED
      BY <3>1, <3>2
  <2>2. OneCardUnlessLost'
    BY <1>0, <1>i, <1>2 DEF ClaimEffect2, OneCardUnlessLost, HoldersUncarded, HoldingSteps,
        Claimable, Matches
  <2>3. DecisionAfterCard'
    BY <1>0, <1>i, <1>2 DEF ClaimEffect2, DecisionAfterCard, PromotedCarded, ScheduledCarded,
        SchedulesAs, SchedulingSteps, Claimable, Matches
  <2>4. TapsHoldNone'
    BY <1>0, <1>i, <1>2 DEF ClaimEffect2, TapsHoldNone, HoldingSteps, Claimable, Matches
  <2>5. EarlyUnstamped'
    BY <1>0, <1>i, <1>2 DEF ClaimEffect2, EarlyUnstamped, Claimable, Matches
  <2>6. UnstampedUncarded'
    BY <1>0, <1>i, <1>2 DEF ClaimEffect2, UnstampedUncarded, HoldersUncarded, HoldingSteps,
        OneHolder, Claimable, Matches
  <2>7. HoldersStamp'
    BY <1>0, <1>i, <1>2 DEF ClaimEffect2, HoldersStamp, HoldingSteps, OneHolder, Claimable,
        Matches
  <2>8. OneHolder'
    BY <1>0, <1>i, <1>2 DEF ClaimEffect2, OneHolder, HoldingSteps, HoldersStamp, Claimable,
        Matches
  <2>9. HoldersUncarded'
    BY <1>0, <1>i, <1>2 DEF ClaimEffect2, HoldersUncarded, HoldingSteps, UnstampedUncarded,
        OneHolder, Claimable, Matches
  <2>10. PromotedCarded'
    BY <1>0, <1>i, <1>2 DEF ClaimEffect2, PromotedCarded, Claimable, Matches
  <2>11. ResendsLate'
    BY <1>0, <1>i, <1>2 DEF ClaimEffect2, ResendsLate, Claimable, Matches
  <2>12. ScheduledCarded'
    BY <1>0, <1>i, <1>2 DEF ClaimEffect2, ScheduledCarded, SchedulesAs, SchedulingSteps,
        DecisionAfterCard, Claimable, Matches
  <2> QED
    BY <2>1, <2>2, <2>3, <2>4, <2>5, <2>6, <2>7, <2>8, <2>9, <2>10, <2>11, <2>12 DEF CardInv
<1> QED
  BY <1>1, <1>2, ClaimEffect
LEMMA CardSendCard ==
  ASSUME TypeOK, TypeOK', CardInv, NEW p \in Passes, SendCard(p)
  PROVE  CardInv'
BY TrendTextsAssumption, RowsAssumption, ProcessesAssumption DEF SendCard, CardText, TypeOK,
    CardInv, ClaimHeld, OneCardUnlessLost, DecisionAfterCard, TapsHoldNone, EarlyUnstamped,
        UnstampedUncarded, HoldersStamp, OneHolder, HoldersUncarded, PromotedCarded,
            ResendsLate, ScheduledCarded, Claimable, HoldingSteps, SchedulesAs, Swappable,
                SchedulingSteps, Schedulable, Closed, Patch, Goto, Leave, Start, NoCand,
                    Matches, CandRows, Commands, See, history, cardHistory, commands
LEMMA CardCardFails ==
  ASSUME TypeOK, CardInv, NEW p \in Passes, CardFails(p)
  PROVE  CardInv'
<1>0. /\ p \in Commands /\ \A r \in Commands : at[r] \in Cands
      /\ Passes \subseteq Commands /\ Taps \subseteq Commands /\ Passes \cap Taps = {}
      /\ \A d \in Cands : cards[d] \in Nat /\ lost[d] \in Nat
      /\ \A r \in Rows : queue[r].cand \in Cands
      /\ granted \subseteq Cands /\ refused \subseteq Cands
      /\ \A d \in Cands : cand[d].draft \in Texts \cup {NoText}
  BY ProcessesAssumption DEF Commands, TypeOK, CandRows
<1>i. ClaimHeld /\ OneCardUnlessLost /\ DecisionAfterCard /\ TapsHoldNone /\ EarlyUnstamped
    /\ UnstampedUncarded /\ HoldersStamp /\ OneHolder /\ HoldersUncarded /\ PromotedCarded
        /\ ResendsLate /\ ScheduledCarded
  BY DEF CardInv
<1>1. ASSUME CardFailsEffect1(p) PROVE CardInv'
  <2>1. ClaimHeld'
    <3> SUFFICES ASSUME NEW c \in Cands, cand'[c].status = "drafted", cand'[c].stamp,
        c \notin orphans'
                 PROVE  \E r \in Passes : Holding(r, c)'
      BY DEF ClaimHeld, Holding
    <3>1. CASE cand[c].status = "drafted" /\ cand[c].stamp
      <4>1. PICK r \in Passes : Holding(r, c)
        BY <1>1, <3>1, <1>i DEF CardFailsEffect1, ClaimHeld, Holding
      <4>2. CASE r = p
        BY <1>0, <1>i, <1>1, <3>1, <4>1, <4>2 DEF CardFailsEffect1, HoldersStamp,
            EarlyUnstamped, ResendsLate, OneHolder, Holding, HoldingSteps
      <4>3. CASE r # p
        BY <1>0, <1>i, <1>1, <3>1, <4>1, <4>3 DEF CardFailsEffect1, HoldersStamp,
            EarlyUnstamped, ResendsLate, OneHolder, Holding, HoldingSteps
      <4> QED
        BY <4>2, <4>3
    <3>2. CASE ~(cand[c].status = "drafted" /\ cand[c].stamp)
      BY <1>0, <1>i, <1>1, <3>2 DEF CardFailsEffect1, HoldersStamp, EarlyUnstamped,
          ResendsLate, OneHolder, Holding, HoldingSteps
    <3> QED
      BY <3>1, <3>2
  <2>2. OneCardUnlessLost'
    BY <1>0, <1>i, <1>1 DEF CardFailsEffect1, OneCardUnlessLost, HoldersUncarded, HoldingSteps
  <2>3. DecisionAfterCard'
    BY <1>0, <1>i, <1>1 DEF CardFailsEffect1, DecisionAfterCard, PromotedCarded,
        ScheduledCarded, SchedulesAs, SchedulingSteps
  <2>4. TapsHoldNone'
    BY <1>0, <1>i, <1>1 DEF CardFailsEffect1, TapsHoldNone, HoldingSteps
  <2>5. EarlyUnstamped'
    BY <1>0, <1>i, <1>1 DEF CardFailsEffect1, EarlyUnstamped
  <2>6. UnstampedUncarded'
    BY <1>0, <1>i, <1>1 DEF CardFailsEffect1, UnstampedUncarded, HoldersUncarded, HoldingSteps,
        OneHolder
  <2>7. HoldersStamp'
    BY <1>0, <1>i, <1>1 DEF CardFailsEffect1, HoldersStamp, HoldingSteps, OneHolder
  <2>8. OneHolder'
    BY <1>0, <1>i, <1>1 DEF CardFailsEffect1, OneHolder, HoldingSteps, HoldersStamp
  <2>9. HoldersUncarded'
    BY <1>0, <1>i, <1>1 DEF CardFailsEffect1, HoldersUncarded, HoldingSteps, UnstampedUncarded,
        OneHolder
  <2>10. PromotedCarded'
    BY <1>0, <1>i, <1>1 DEF CardFailsEffect1, PromotedCarded
  <2>11. ResendsLate'
    BY <1>0, <1>i, <1>1 DEF CardFailsEffect1, ResendsLate
  <2>12. ScheduledCarded'
    BY <1>0, <1>i, <1>1 DEF CardFailsEffect1, ScheduledCarded, SchedulesAs, SchedulingSteps,
        DecisionAfterCard
  <2> QED
    BY <2>1, <2>2, <2>3, <2>4, <2>5, <2>6, <2>7, <2>8, <2>9, <2>10, <2>11, <2>12 DEF CardInv
<1>2. ASSUME CardFailsEffect2(p) PROVE CardInv'
  <2>1. ClaimHeld'
    <3> SUFFICES ASSUME NEW c \in Cands, cand'[c].status = "drafted", cand'[c].stamp,
        c \notin orphans'
                 PROVE  \E r \in Passes : Holding(r, c)'
      BY DEF ClaimHeld, Holding
    <3>1. CASE cand[c].status = "drafted" /\ cand[c].stamp
      <4>1. PICK r \in Passes : Holding(r, c)
        BY <1>2, <3>1, <1>i DEF CardFailsEffect2, ClaimHeld, Holding
      <4>2. CASE r = p
        BY <1>0, <1>i, <1>2, <3>1, <4>1, <4>2 DEF CardFailsEffect2, HoldersStamp,
            EarlyUnstamped, ResendsLate, OneHolder, Holding, HoldingSteps
      <4>3. CASE r # p
        BY <1>0, <1>i, <1>2, <3>1, <4>1, <4>3 DEF CardFailsEffect2, HoldersStamp,
            EarlyUnstamped, ResendsLate, OneHolder, Holding, HoldingSteps
      <4> QED
        BY <4>2, <4>3
    <3>2. CASE ~(cand[c].status = "drafted" /\ cand[c].stamp)
      BY <1>0, <1>i, <1>2, <3>2 DEF CardFailsEffect2, HoldersStamp, EarlyUnstamped,
          ResendsLate, OneHolder, Holding, HoldingSteps
    <3> QED
      BY <3>1, <3>2
  <2>2. OneCardUnlessLost'
    BY <1>0, <1>i, <1>2 DEF CardFailsEffect2, OneCardUnlessLost, HoldersUncarded, HoldingSteps
  <2>3. DecisionAfterCard'
    BY <1>0, <1>i, <1>2 DEF CardFailsEffect2, DecisionAfterCard, PromotedCarded,
        ScheduledCarded, SchedulesAs, SchedulingSteps
  <2>4. TapsHoldNone'
    BY <1>0, <1>i, <1>2 DEF CardFailsEffect2, TapsHoldNone, HoldingSteps
  <2>5. EarlyUnstamped'
    BY <1>0, <1>i, <1>2 DEF CardFailsEffect2, EarlyUnstamped
  <2>6. UnstampedUncarded'
    BY <1>0, <1>i, <1>2 DEF CardFailsEffect2, UnstampedUncarded, HoldersUncarded, HoldingSteps,
        OneHolder
  <2>7. HoldersStamp'
    BY <1>0, <1>i, <1>2 DEF CardFailsEffect2, HoldersStamp, HoldingSteps, OneHolder
  <2>8. OneHolder'
    BY <1>0, <1>i, <1>2 DEF CardFailsEffect2, OneHolder, HoldingSteps, HoldersStamp
  <2>9. HoldersUncarded'
    BY <1>0, <1>i, <1>2 DEF CardFailsEffect2, HoldersUncarded, HoldingSteps, UnstampedUncarded,
        OneHolder
  <2>10. PromotedCarded'
    BY <1>0, <1>i, <1>2 DEF CardFailsEffect2, PromotedCarded
  <2>11. ResendsLate'
    BY <1>0, <1>i, <1>2 DEF CardFailsEffect2, ResendsLate
  <2>12. ScheduledCarded'
    BY <1>0, <1>i, <1>2 DEF CardFailsEffect2, ScheduledCarded, SchedulesAs, SchedulingSteps,
        DecisionAfterCard
  <2> QED
    BY <2>1, <2>2, <2>3, <2>4, <2>5, <2>6, <2>7, <2>8, <2>9, <2>10, <2>11, <2>12 DEF CardInv
<1> QED
  BY <1>1, <1>2, CardFailsEffect
LEMMA CardRelease ==
  ASSUME TypeOK, TypeOK', CardInv, NEW p \in Passes, Release(p)
  PROVE  CardInv'
BY TrendTextsAssumption, RowsAssumption, ProcessesAssumption DEF Release, TypeOK, CardInv,
    ClaimHeld, OneCardUnlessLost, DecisionAfterCard, TapsHoldNone, EarlyUnstamped,
        UnstampedUncarded, HoldersStamp, OneHolder, HoldersUncarded, PromotedCarded,
            ResendsLate, ScheduledCarded, Claimable, HoldingSteps, SchedulesAs, Swappable,
                SchedulingSteps, Schedulable, Closed, Patch, Goto, Leave, Start, NoCand,
                    Matches, CandRows, Commands, See, history, cardHistory, commands
LEMMA CardPromote ==
  ASSUME TypeOK, CardInv, NEW p \in Passes, Promote(p)
  PROVE  CardInv'
<1>0. /\ p \in Commands /\ \A r \in Commands : at[r] \in Cands
      /\ Passes \subseteq Commands /\ Taps \subseteq Commands /\ Passes \cap Taps = {}
      /\ \A d \in Cands : cards[d] \in Nat /\ lost[d] \in Nat
      /\ \A r \in Rows : queue[r].cand \in Cands
      /\ granted \subseteq Cands /\ refused \subseteq Cands
      /\ \A d \in Cands : cand[d].draft \in Texts \cup {NoText}
  BY ProcessesAssumption DEF Commands, TypeOK, CandRows
<1>i. ClaimHeld /\ OneCardUnlessLost /\ DecisionAfterCard /\ TapsHoldNone /\ EarlyUnstamped
    /\ UnstampedUncarded /\ HoldersStamp /\ OneHolder /\ HoldersUncarded /\ PromotedCarded
        /\ ResendsLate /\ ScheduledCarded
  BY DEF CardInv
<1>1. ASSUME PromoteEffect1(p) PROVE CardInv'
  <2>1. ClaimHeld'
    <3> SUFFICES ASSUME NEW c \in Cands, cand'[c].status = "drafted", cand'[c].stamp,
        c \notin orphans'
                 PROVE  \E r \in Passes : Holding(r, c)'
      BY DEF ClaimHeld, Holding
    <3>1. CASE cand[c].status = "drafted" /\ cand[c].stamp
      <4>1. PICK r \in Passes : Holding(r, c)
        BY <1>1, <3>1, <1>i DEF PromoteEffect1, ClaimHeld, Holding
      <4>2. CASE r = p
        BY <1>0, <1>i, <1>1, <3>1, <4>1, <4>2 DEF PromoteEffect1, HoldersStamp, EarlyUnstamped,
            ResendsLate, OneHolder, Holding, HoldingSteps, Matches
      <4>3. CASE r # p
        BY <1>0, <1>i, <1>1, <3>1, <4>1, <4>3 DEF PromoteEffect1, HoldersStamp, EarlyUnstamped,
            ResendsLate, OneHolder, Holding, HoldingSteps, Matches
      <4> QED
        BY <4>2, <4>3
    <3>2. CASE ~(cand[c].status = "drafted" /\ cand[c].stamp)
      BY <1>0, <1>i, <1>1, <3>2 DEF PromoteEffect1, HoldersStamp, EarlyUnstamped, ResendsLate,
          OneHolder, Holding, HoldingSteps, Matches
    <3> QED
      BY <3>1, <3>2
  <2>2. OneCardUnlessLost'
    BY <1>0, <1>i, <1>1 DEF PromoteEffect1, OneCardUnlessLost, HoldersUncarded, HoldingSteps,
        Matches
  <2>3. DecisionAfterCard'
    BY <1>0, <1>i, <1>1 DEF PromoteEffect1, DecisionAfterCard, PromotedCarded, ScheduledCarded,
        SchedulesAs, SchedulingSteps, Matches
  <2>4. TapsHoldNone'
    BY <1>0, <1>i, <1>1 DEF PromoteEffect1, TapsHoldNone, HoldingSteps, Matches
  <2>5. EarlyUnstamped'
    BY <1>0, <1>i, <1>1 DEF PromoteEffect1, EarlyUnstamped, Matches
  <2>6. UnstampedUncarded'
    BY <1>0, <1>i, <1>1 DEF PromoteEffect1, UnstampedUncarded, HoldersUncarded, HoldingSteps,
        OneHolder, Matches
  <2>7. HoldersStamp'
    BY <1>0, <1>i, <1>1 DEF PromoteEffect1, HoldersStamp, HoldingSteps, OneHolder, Matches
  <2>8. OneHolder'
    BY <1>0, <1>i, <1>1 DEF PromoteEffect1, OneHolder, HoldingSteps, HoldersStamp, Matches
  <2>9. HoldersUncarded'
    BY <1>0, <1>i, <1>1 DEF PromoteEffect1, HoldersUncarded, HoldingSteps, UnstampedUncarded,
        OneHolder, Matches
  <2>10. PromotedCarded'
    BY <1>0, <1>i, <1>1 DEF PromoteEffect1, PromotedCarded, Matches
  <2>11. ResendsLate'
    BY <1>0, <1>i, <1>1 DEF PromoteEffect1, ResendsLate, Matches
  <2>12. ScheduledCarded'
    BY <1>0, <1>i, <1>1 DEF PromoteEffect1, ScheduledCarded, SchedulesAs, SchedulingSteps,
        DecisionAfterCard, Matches
  <2> QED
    BY <2>1, <2>2, <2>3, <2>4, <2>5, <2>6, <2>7, <2>8, <2>9, <2>10, <2>11, <2>12 DEF CardInv
<1>2. ASSUME PromoteEffect2(p) PROVE CardInv'
  <2>1. ClaimHeld'
    <3> SUFFICES ASSUME NEW c \in Cands, cand'[c].status = "drafted", cand'[c].stamp,
        c \notin orphans'
                 PROVE  \E r \in Passes : Holding(r, c)'
      BY DEF ClaimHeld, Holding
    <3>1. CASE cand[c].status = "drafted" /\ cand[c].stamp
      <4>1. PICK r \in Passes : Holding(r, c)
        BY <1>2, <3>1, <1>i DEF PromoteEffect2, ClaimHeld, Holding
      <4>2. CASE r = p
        BY <1>0, <1>i, <1>2, <3>1, <4>1, <4>2 DEF PromoteEffect2, HoldersStamp, EarlyUnstamped,
            ResendsLate, OneHolder, Holding, HoldingSteps, Matches
      <4>3. CASE r # p
        BY <1>0, <1>i, <1>2, <3>1, <4>1, <4>3 DEF PromoteEffect2, HoldersStamp, EarlyUnstamped,
            ResendsLate, OneHolder, Holding, HoldingSteps, Matches
      <4> QED
        BY <4>2, <4>3
    <3>2. CASE ~(cand[c].status = "drafted" /\ cand[c].stamp)
      BY <1>0, <1>i, <1>2, <3>2 DEF PromoteEffect2, HoldersStamp, EarlyUnstamped, ResendsLate,
          OneHolder, Holding, HoldingSteps, Matches
    <3> QED
      BY <3>1, <3>2
  <2>2. OneCardUnlessLost'
    BY <1>0, <1>i, <1>2 DEF PromoteEffect2, OneCardUnlessLost, HoldersUncarded, HoldingSteps,
        Matches
  <2>3. DecisionAfterCard'
    BY <1>0, <1>i, <1>2 DEF PromoteEffect2, DecisionAfterCard, PromotedCarded, ScheduledCarded,
        SchedulesAs, SchedulingSteps, Matches
  <2>4. TapsHoldNone'
    BY <1>0, <1>i, <1>2 DEF PromoteEffect2, TapsHoldNone, HoldingSteps, Matches
  <2>5. EarlyUnstamped'
    BY <1>0, <1>i, <1>2 DEF PromoteEffect2, EarlyUnstamped, Matches
  <2>6. UnstampedUncarded'
    BY <1>0, <1>i, <1>2 DEF PromoteEffect2, UnstampedUncarded, HoldersUncarded, HoldingSteps,
        OneHolder, Matches
  <2>7. HoldersStamp'
    BY <1>0, <1>i, <1>2 DEF PromoteEffect2, HoldersStamp, HoldingSteps, OneHolder, Matches
  <2>8. OneHolder'
    BY <1>0, <1>i, <1>2 DEF PromoteEffect2, OneHolder, HoldingSteps, HoldersStamp, Matches
  <2>9. HoldersUncarded'
    BY <1>0, <1>i, <1>2 DEF PromoteEffect2, HoldersUncarded, HoldingSteps, UnstampedUncarded,
        OneHolder, Matches
  <2>10. PromotedCarded'
    BY <1>0, <1>i, <1>2 DEF PromoteEffect2, PromotedCarded, Matches
  <2>11. ResendsLate'
    BY <1>0, <1>i, <1>2 DEF PromoteEffect2, ResendsLate, Matches
  <2>12. ScheduledCarded'
    BY <1>0, <1>i, <1>2 DEF PromoteEffect2, ScheduledCarded, SchedulesAs, SchedulingSteps,
        DecisionAfterCard, Matches
  <2> QED
    BY <2>1, <2>2, <2>3, <2>4, <2>5, <2>6, <2>7, <2>8, <2>9, <2>10, <2>11, <2>12 DEF CardInv
<1> QED
  BY <1>1, <1>2, PromoteEffect
LEMMA CardRefRead ==
  ASSUME TypeOK, CardInv, NEW p \in Passes, RefRead(p)
  PROVE  CardInv'
<1>0. /\ p \in Commands /\ \A r \in Commands : at[r] \in Cands
      /\ Passes \subseteq Commands /\ Taps \subseteq Commands /\ Passes \cap Taps = {}
      /\ \A d \in Cands : cards[d] \in Nat /\ lost[d] \in Nat
      /\ \A r \in Rows : queue[r].cand \in Cands
      /\ granted \subseteq Cands /\ refused \subseteq Cands
      /\ \A d \in Cands : cand[d].draft \in Texts \cup {NoText}
  BY ProcessesAssumption DEF Commands, TypeOK, CandRows
<1>i. ClaimHeld /\ OneCardUnlessLost /\ DecisionAfterCard /\ TapsHoldNone /\ EarlyUnstamped
    /\ UnstampedUncarded /\ HoldersStamp /\ OneHolder /\ HoldersUncarded /\ PromotedCarded
        /\ ResendsLate /\ ScheduledCarded
  BY DEF CardInv
<1>1. ASSUME RefReadEffect1(p) PROVE CardInv'
  <2>1. ClaimHeld'
    <3> SUFFICES ASSUME NEW c \in Cands, cand'[c].status = "drafted", cand'[c].stamp,
        c \notin orphans'
                 PROVE  \E r \in Passes : Holding(r, c)'
      BY DEF ClaimHeld, Holding
    <3>1. CASE cand[c].status = "drafted" /\ cand[c].stamp
      <4>1. PICK r \in Passes : Holding(r, c)
        BY <1>1, <3>1, <1>i DEF RefReadEffect1, ClaimHeld, Holding
      <4>2. CASE r = p
        BY <1>0, <1>i, <1>1, <3>1, <4>1, <4>2 DEF RefReadEffect1, HoldersStamp, EarlyUnstamped,
            ResendsLate, OneHolder, Holding, HoldingSteps, Matches
      <4>3. CASE r # p
        BY <1>0, <1>i, <1>1, <3>1, <4>1, <4>3 DEF RefReadEffect1, HoldersStamp, EarlyUnstamped,
            ResendsLate, OneHolder, Holding, HoldingSteps, Matches
      <4> QED
        BY <4>2, <4>3
    <3>2. CASE ~(cand[c].status = "drafted" /\ cand[c].stamp)
      BY <1>0, <1>i, <1>1, <3>2 DEF RefReadEffect1, HoldersStamp, EarlyUnstamped, ResendsLate,
          OneHolder, Holding, HoldingSteps, Matches
    <3> QED
      BY <3>1, <3>2
  <2>2. OneCardUnlessLost'
    BY <1>0, <1>i, <1>1 DEF RefReadEffect1, OneCardUnlessLost, HoldersUncarded, HoldingSteps,
        Matches
  <2>3. DecisionAfterCard'
    BY <1>0, <1>i, <1>1 DEF RefReadEffect1, DecisionAfterCard, PromotedCarded, ScheduledCarded,
        SchedulesAs, SchedulingSteps, Matches
  <2>4. TapsHoldNone'
    BY <1>0, <1>i, <1>1 DEF RefReadEffect1, TapsHoldNone, HoldingSteps, Matches
  <2>5. EarlyUnstamped'
    BY <1>0, <1>i, <1>1 DEF RefReadEffect1, EarlyUnstamped, Matches
  <2>6. UnstampedUncarded'
    BY <1>0, <1>i, <1>1 DEF RefReadEffect1, UnstampedUncarded, HoldersUncarded, HoldingSteps,
        OneHolder, Matches
  <2>7. HoldersStamp'
    BY <1>0, <1>i, <1>1 DEF RefReadEffect1, HoldersStamp, HoldingSteps, OneHolder, Matches
  <2>8. OneHolder'
    BY <1>0, <1>i, <1>1 DEF RefReadEffect1, OneHolder, HoldingSteps, HoldersStamp, Matches
  <2>9. HoldersUncarded'
    BY <1>0, <1>i, <1>1 DEF RefReadEffect1, HoldersUncarded, HoldingSteps, UnstampedUncarded,
        OneHolder, Matches
  <2>10. PromotedCarded'
    BY <1>0, <1>i, <1>1 DEF RefReadEffect1, PromotedCarded, Matches
  <2>11. ResendsLate'
    BY <1>0, <1>i, <1>1 DEF RefReadEffect1, ResendsLate, Matches
  <2>12. ScheduledCarded'
    BY <1>0, <1>i, <1>1 DEF RefReadEffect1, ScheduledCarded, SchedulesAs, SchedulingSteps,
        DecisionAfterCard, Matches
  <2> QED
    BY <2>1, <2>2, <2>3, <2>4, <2>5, <2>6, <2>7, <2>8, <2>9, <2>10, <2>11, <2>12 DEF CardInv
<1>2. ASSUME RefReadEffect2(p) PROVE CardInv'
  <2>1. ClaimHeld'
    <3> SUFFICES ASSUME NEW c \in Cands, cand'[c].status = "drafted", cand'[c].stamp,
        c \notin orphans'
                 PROVE  \E r \in Passes : Holding(r, c)'
      BY DEF ClaimHeld, Holding
    <3>1. CASE cand[c].status = "drafted" /\ cand[c].stamp
      <4>1. PICK r \in Passes : Holding(r, c)
        BY <1>2, <3>1, <1>i DEF RefReadEffect2, ClaimHeld, Holding
      <4>2. CASE r = p
        BY <1>0, <1>i, <1>2, <3>1, <4>1, <4>2 DEF RefReadEffect2, HoldersStamp, EarlyUnstamped,
            ResendsLate, OneHolder, Holding, HoldingSteps, Matches
      <4>3. CASE r # p
        BY <1>0, <1>i, <1>2, <3>1, <4>1, <4>3 DEF RefReadEffect2, HoldersStamp, EarlyUnstamped,
            ResendsLate, OneHolder, Holding, HoldingSteps, Matches
      <4> QED
        BY <4>2, <4>3
    <3>2. CASE ~(cand[c].status = "drafted" /\ cand[c].stamp)
      BY <1>0, <1>i, <1>2, <3>2 DEF RefReadEffect2, HoldersStamp, EarlyUnstamped, ResendsLate,
          OneHolder, Holding, HoldingSteps, Matches
    <3> QED
      BY <3>1, <3>2
  <2>2. OneCardUnlessLost'
    BY <1>0, <1>i, <1>2 DEF RefReadEffect2, OneCardUnlessLost, HoldersUncarded, HoldingSteps,
        Matches
  <2>3. DecisionAfterCard'
    BY <1>0, <1>i, <1>2 DEF RefReadEffect2, DecisionAfterCard, PromotedCarded, ScheduledCarded,
        SchedulesAs, SchedulingSteps, Matches
  <2>4. TapsHoldNone'
    BY <1>0, <1>i, <1>2 DEF RefReadEffect2, TapsHoldNone, HoldingSteps, Matches
  <2>5. EarlyUnstamped'
    BY <1>0, <1>i, <1>2 DEF RefReadEffect2, EarlyUnstamped, Matches
  <2>6. UnstampedUncarded'
    BY <1>0, <1>i, <1>2 DEF RefReadEffect2, UnstampedUncarded, HoldersUncarded, HoldingSteps,
        OneHolder, Matches
  <2>7. HoldersStamp'
    BY <1>0, <1>i, <1>2 DEF RefReadEffect2, HoldersStamp, HoldingSteps, OneHolder, Matches
  <2>8. OneHolder'
    BY <1>0, <1>i, <1>2 DEF RefReadEffect2, OneHolder, HoldingSteps, HoldersStamp, Matches
  <2>9. HoldersUncarded'
    BY <1>0, <1>i, <1>2 DEF RefReadEffect2, HoldersUncarded, HoldingSteps, UnstampedUncarded,
        OneHolder, Matches
  <2>10. PromotedCarded'
    BY <1>0, <1>i, <1>2 DEF RefReadEffect2, PromotedCarded, Matches
  <2>11. ResendsLate'
    BY <1>0, <1>i, <1>2 DEF RefReadEffect2, ResendsLate, Matches
  <2>12. ScheduledCarded'
    BY <1>0, <1>i, <1>2 DEF RefReadEffect2, ScheduledCarded, SchedulesAs, SchedulingSteps,
        DecisionAfterCard, Matches
  <2> QED
    BY <2>1, <2>2, <2>3, <2>4, <2>5, <2>6, <2>7, <2>8, <2>9, <2>10, <2>11, <2>12 DEF CardInv
<1> QED
  BY <1>1, <1>2, RefReadEffect
LEMMA CardRefWrite ==
  ASSUME TypeOK, CardInv, NEW p \in Passes, RefWrite(p)
  PROVE  CardInv'
<1>0. /\ p \in Commands /\ \A r \in Commands : at[r] \in Cands
      /\ Passes \subseteq Commands /\ Taps \subseteq Commands /\ Passes \cap Taps = {}
      /\ \A d \in Cands : cards[d] \in Nat /\ lost[d] \in Nat
      /\ \A r \in Rows : queue[r].cand \in Cands
      /\ granted \subseteq Cands /\ refused \subseteq Cands
      /\ \A d \in Cands : cand[d].draft \in Texts \cup {NoText}
  BY ProcessesAssumption DEF Commands, TypeOK, CandRows
<1>i. ClaimHeld /\ OneCardUnlessLost /\ DecisionAfterCard /\ TapsHoldNone /\ EarlyUnstamped
    /\ UnstampedUncarded /\ HoldersStamp /\ OneHolder /\ HoldersUncarded /\ PromotedCarded
        /\ ResendsLate /\ ScheduledCarded
  BY DEF CardInv
<1>1. ASSUME RefWriteEffect1(p) PROVE CardInv'
  <2>1. ClaimHeld'
    <3> SUFFICES ASSUME NEW c \in Cands, cand'[c].status = "drafted", cand'[c].stamp,
        c \notin orphans'
                 PROVE  \E r \in Passes : Holding(r, c)'
      BY DEF ClaimHeld, Holding
    <3>1. CASE cand[c].status = "drafted" /\ cand[c].stamp
      <4>1. PICK r \in Passes : Holding(r, c)
        BY <1>1, <3>1, <1>i DEF RefWriteEffect1, ClaimHeld, Holding
      <4>2. CASE r = p
        BY <1>0, <1>i, <1>1, <3>1, <4>1, <4>2 DEF RefWriteEffect1, HoldersStamp,
            EarlyUnstamped, ResendsLate, OneHolder, Holding, HoldingSteps, Matches
      <4>3. CASE r # p
        BY <1>0, <1>i, <1>1, <3>1, <4>1, <4>3 DEF RefWriteEffect1, HoldersStamp,
            EarlyUnstamped, ResendsLate, OneHolder, Holding, HoldingSteps, Matches
      <4> QED
        BY <4>2, <4>3
    <3>2. CASE ~(cand[c].status = "drafted" /\ cand[c].stamp)
      BY <1>0, <1>i, <1>1, <3>2 DEF RefWriteEffect1, HoldersStamp, EarlyUnstamped, ResendsLate,
          OneHolder, Holding, HoldingSteps, Matches
    <3> QED
      BY <3>1, <3>2
  <2>2. OneCardUnlessLost'
    BY <1>0, <1>i, <1>1 DEF RefWriteEffect1, OneCardUnlessLost, HoldersUncarded, HoldingSteps,
        Matches
  <2>3. DecisionAfterCard'
    BY <1>0, <1>i, <1>1 DEF RefWriteEffect1, DecisionAfterCard, PromotedCarded,
        ScheduledCarded, SchedulesAs, SchedulingSteps, Matches
  <2>4. TapsHoldNone'
    BY <1>0, <1>i, <1>1 DEF RefWriteEffect1, TapsHoldNone, HoldingSteps, Matches
  <2>5. EarlyUnstamped'
    BY <1>0, <1>i, <1>1 DEF RefWriteEffect1, EarlyUnstamped, Matches
  <2>6. UnstampedUncarded'
    BY <1>0, <1>i, <1>1 DEF RefWriteEffect1, UnstampedUncarded, HoldersUncarded, HoldingSteps,
        OneHolder, Matches
  <2>7. HoldersStamp'
    BY <1>0, <1>i, <1>1 DEF RefWriteEffect1, HoldersStamp, HoldingSteps, OneHolder, Matches
  <2>8. OneHolder'
    BY <1>0, <1>i, <1>1 DEF RefWriteEffect1, OneHolder, HoldingSteps, HoldersStamp, Matches
  <2>9. HoldersUncarded'
    BY <1>0, <1>i, <1>1 DEF RefWriteEffect1, HoldersUncarded, HoldingSteps, UnstampedUncarded,
        OneHolder, Matches
  <2>10. PromotedCarded'
    BY <1>0, <1>i, <1>1 DEF RefWriteEffect1, PromotedCarded, Matches
  <2>11. ResendsLate'
    BY <1>0, <1>i, <1>1 DEF RefWriteEffect1, ResendsLate, Matches
  <2>12. ScheduledCarded'
    BY <1>0, <1>i, <1>1 DEF RefWriteEffect1, ScheduledCarded, SchedulesAs, SchedulingSteps,
        DecisionAfterCard, Matches
  <2> QED
    BY <2>1, <2>2, <2>3, <2>4, <2>5, <2>6, <2>7, <2>8, <2>9, <2>10, <2>11, <2>12 DEF CardInv
<1>2. ASSUME RefWriteEffect2(p) PROVE CardInv'
  <2>1. ClaimHeld'
    <3> SUFFICES ASSUME NEW c \in Cands, cand'[c].status = "drafted", cand'[c].stamp,
        c \notin orphans'
                 PROVE  \E r \in Passes : Holding(r, c)'
      BY DEF ClaimHeld, Holding
    <3>1. CASE cand[c].status = "drafted" /\ cand[c].stamp
      <4>1. PICK r \in Passes : Holding(r, c)
        BY <1>2, <3>1, <1>i DEF RefWriteEffect2, ClaimHeld, Holding
      <4>2. CASE r = p
        BY <1>0, <1>i, <1>2, <3>1, <4>1, <4>2 DEF RefWriteEffect2, HoldersStamp,
            EarlyUnstamped, ResendsLate, OneHolder, Holding, HoldingSteps, Matches
      <4>3. CASE r # p
        BY <1>0, <1>i, <1>2, <3>1, <4>1, <4>3 DEF RefWriteEffect2, HoldersStamp,
            EarlyUnstamped, ResendsLate, OneHolder, Holding, HoldingSteps, Matches
      <4> QED
        BY <4>2, <4>3
    <3>2. CASE ~(cand[c].status = "drafted" /\ cand[c].stamp)
      BY <1>0, <1>i, <1>2, <3>2 DEF RefWriteEffect2, HoldersStamp, EarlyUnstamped, ResendsLate,
          OneHolder, Holding, HoldingSteps, Matches
    <3> QED
      BY <3>1, <3>2
  <2>2. OneCardUnlessLost'
    BY <1>0, <1>i, <1>2 DEF RefWriteEffect2, OneCardUnlessLost, HoldersUncarded, HoldingSteps,
        Matches
  <2>3. DecisionAfterCard'
    BY <1>0, <1>i, <1>2 DEF RefWriteEffect2, DecisionAfterCard, PromotedCarded,
        ScheduledCarded, SchedulesAs, SchedulingSteps, Matches
  <2>4. TapsHoldNone'
    BY <1>0, <1>i, <1>2 DEF RefWriteEffect2, TapsHoldNone, HoldingSteps, Matches
  <2>5. EarlyUnstamped'
    BY <1>0, <1>i, <1>2 DEF RefWriteEffect2, EarlyUnstamped, Matches
  <2>6. UnstampedUncarded'
    BY <1>0, <1>i, <1>2 DEF RefWriteEffect2, UnstampedUncarded, HoldersUncarded, HoldingSteps,
        OneHolder, Matches
  <2>7. HoldersStamp'
    BY <1>0, <1>i, <1>2 DEF RefWriteEffect2, HoldersStamp, HoldingSteps, OneHolder, Matches
  <2>8. OneHolder'
    BY <1>0, <1>i, <1>2 DEF RefWriteEffect2, OneHolder, HoldingSteps, HoldersStamp, Matches
  <2>9. HoldersUncarded'
    BY <1>0, <1>i, <1>2 DEF RefWriteEffect2, HoldersUncarded, HoldingSteps, UnstampedUncarded,
        OneHolder, Matches
  <2>10. PromotedCarded'
    BY <1>0, <1>i, <1>2 DEF RefWriteEffect2, PromotedCarded, Matches
  <2>11. ResendsLate'
    BY <1>0, <1>i, <1>2 DEF RefWriteEffect2, ResendsLate, Matches
  <2>12. ScheduledCarded'
    BY <1>0, <1>i, <1>2 DEF RefWriteEffect2, ScheduledCarded, SchedulesAs, SchedulingSteps,
        DecisionAfterCard, Matches
  <2> QED
    BY <2>1, <2>2, <2>3, <2>4, <2>5, <2>6, <2>7, <2>8, <2>9, <2>10, <2>11, <2>12 DEF CardInv
<1> QED
  BY <1>1, <1>2, RefWriteEffect
LEMMA CardBeginApprove ==
  ASSUME TypeOK, TypeOK', CardInv, NEW p \in Taps, NEW c \in Cands, BeginApprove(p, c)
  PROVE  CardInv'
BY TrendTextsAssumption, RowsAssumption, ProcessesAssumption DEF BeginApprove, TypeOK, CardInv,
    ClaimHeld, OneCardUnlessLost, DecisionAfterCard, TapsHoldNone, EarlyUnstamped,
        UnstampedUncarded, HoldersStamp, OneHolder, HoldersUncarded, PromotedCarded,
            ResendsLate, ScheduledCarded, Claimable, HoldingSteps, SchedulesAs, Swappable,
                SchedulingSteps, Schedulable, Closed, Patch, Goto, Leave, Start, NoCand,
                    Matches, CandRows, Commands, See, history, cardHistory, commands
LEMMA CardBeginUse ==
  ASSUME TypeOK, TypeOK', CardInv, NEW p \in Taps, NEW c \in Cands, BeginUse(p, c)
  PROVE  CardInv'
BY TrendTextsAssumption, RowsAssumption, ProcessesAssumption DEF BeginUse, TypeOK, CardInv,
    ClaimHeld, OneCardUnlessLost, DecisionAfterCard, TapsHoldNone, EarlyUnstamped,
        UnstampedUncarded, HoldersStamp, OneHolder, HoldersUncarded, PromotedCarded,
            ResendsLate, ScheduledCarded, Claimable, HoldingSteps, SchedulesAs, Swappable,
                SchedulingSteps, Schedulable, Closed, Patch, Goto, Leave, Start, NoCand,
                    Matches, CandRows, Commands, See, history, cardHistory, commands
LEMMA CardBeginRefresh ==
  ASSUME TypeOK, TypeOK', CardInv, NEW p \in Taps, NEW c \in Cands, BeginRefresh(p, c)
  PROVE  CardInv'
BY TrendTextsAssumption, RowsAssumption, ProcessesAssumption DEF BeginRefresh, ModelTexts,
    TypeOK, CardInv, ClaimHeld, OneCardUnlessLost, DecisionAfterCard, TapsHoldNone,
        EarlyUnstamped, UnstampedUncarded, HoldersStamp, OneHolder, HoldersUncarded,
            PromotedCarded, ResendsLate, ScheduledCarded, Claimable, HoldingSteps, SchedulesAs,
                Swappable, SchedulingSteps, Schedulable, Closed, Patch, Goto, Leave, Start,
                    NoCand, Matches, CandRows, Commands, See, history, cardHistory, commands
LEMMA CardBeginRaw ==
  ASSUME TypeOK, TypeOK', CardInv, NEW p \in Taps, NEW c \in Cands, BeginRaw(p, c)
  PROVE  CardInv'
BY TrendTextsAssumption, RowsAssumption, ProcessesAssumption DEF BeginRaw, TypeOK, CardInv,
    ClaimHeld, OneCardUnlessLost, DecisionAfterCard, TapsHoldNone, EarlyUnstamped,
        UnstampedUncarded, HoldersStamp, OneHolder, HoldersUncarded, PromotedCarded,
            ResendsLate, ScheduledCarded, Claimable, HoldingSteps, SchedulesAs, Swappable,
                SchedulingSteps, Schedulable, Closed, Patch, Goto, Leave, Start, NoCand,
                    Matches, CandRows, Commands, See, history, cardHistory, commands
LEMMA CardBeginSchedule ==
  ASSUME TypeOK, TypeOK', CardInv, NEW p \in Taps, NEW c \in Cands, BeginSchedule(p, c)
  PROVE  CardInv'
BY TrendTextsAssumption, RowsAssumption, ProcessesAssumption DEF BeginSchedule, TypeOK,
    CardInv, ClaimHeld, OneCardUnlessLost, DecisionAfterCard, TapsHoldNone, EarlyUnstamped,
        UnstampedUncarded, HoldersStamp, OneHolder, HoldersUncarded, PromotedCarded,
            ResendsLate, ScheduledCarded, Claimable, HoldingSteps, SchedulesAs, Swappable,
                SchedulingSteps, Schedulable, Closed, Patch, Goto, Leave, Start, NoCand,
                    Matches, CandRows, Commands, See, history, cardHistory, commands
LEMMA CardBeginCancel ==
  ASSUME TypeOK, TypeOK', CardInv, NEW p \in Taps, NEW c \in Cands, BeginCancel(p, c)
  PROVE  CardInv'
BY TrendTextsAssumption, RowsAssumption, ProcessesAssumption DEF BeginCancel, TypeOK, CardInv,
    ClaimHeld, OneCardUnlessLost, DecisionAfterCard, TapsHoldNone, EarlyUnstamped,
        UnstampedUncarded, HoldersStamp, OneHolder, HoldersUncarded, PromotedCarded,
            ResendsLate, ScheduledCarded, Claimable, HoldingSteps, SchedulesAs, Swappable,
                SchedulingSteps, Schedulable, Closed, Patch, Goto, Leave, Start, NoCand,
                    Matches, CandRows, Commands, See, history, cardHistory, commands
LEMMA CardBeginEdit ==
  ASSUME TypeOK, TypeOK', CardInv, NEW p \in Taps, NEW c \in Cands, NEW t \in Texts,
      BeginEdit(p, c, t)
  PROVE  CardInv'
BY TrendTextsAssumption, RowsAssumption, ProcessesAssumption DEF BeginEdit, TypeOK, CardInv,
    ClaimHeld, OneCardUnlessLost, DecisionAfterCard, TapsHoldNone, EarlyUnstamped,
        UnstampedUncarded, HoldersStamp, OneHolder, HoldersUncarded, PromotedCarded,
            ResendsLate, ScheduledCarded, Claimable, HoldingSteps, SchedulesAs, Swappable,
                SchedulingSteps, Schedulable, Closed, Patch, Goto, Leave, Start, NoCand,
                    Matches, CandRows, Commands, See, history, cardHistory, commands
LEMMA CardSaveDecision ==
  ASSUME TypeOK, CardInv, NEW p \in Taps, SaveDecision(p)
  PROVE  CardInv'
<1>0. /\ p \in Commands /\ \A r \in Commands : at[r] \in Cands
      /\ Passes \subseteq Commands /\ Taps \subseteq Commands /\ Passes \cap Taps = {}
      /\ \A d \in Cands : cards[d] \in Nat /\ lost[d] \in Nat
      /\ \A r \in Rows : queue[r].cand \in Cands
      /\ granted \subseteq Cands /\ refused \subseteq Cands
      /\ \A d \in Cands : cand[d].draft \in Texts \cup {NoText}
  BY ProcessesAssumption DEF Commands, TypeOK, CandRows
<1>i. ClaimHeld /\ OneCardUnlessLost /\ DecisionAfterCard /\ TapsHoldNone /\ EarlyUnstamped
    /\ UnstampedUncarded /\ HoldersStamp /\ OneHolder /\ HoldersUncarded /\ PromotedCarded
        /\ ResendsLate /\ ScheduledCarded
  BY DEF CardInv
<1>1. ASSUME SaveDecisionEffect1(p) PROVE CardInv'
  <2>1. ClaimHeld'
    <3> SUFFICES ASSUME NEW c \in Cands, cand'[c].status = "drafted", cand'[c].stamp,
        c \notin orphans'
                 PROVE  \E r \in Passes : Holding(r, c)'
      BY DEF ClaimHeld, Holding
    <3>1. CASE cand[c].status = "drafted" /\ cand[c].stamp
      <4>1. PICK r \in Passes : Holding(r, c)
        BY <1>1, <3>1, <1>i DEF SaveDecisionEffect1, ClaimHeld, Holding
      <4>2. CASE r = p
        BY <1>0, <1>i, <1>1, <3>1, <4>1, <4>2 DEF SaveDecisionEffect1, HoldersStamp,
            EarlyUnstamped, ResendsLate, OneHolder, Holding, HoldingSteps, Swappable, Matches
      <4>3. CASE r # p
        BY <1>0, <1>i, <1>1, <3>1, <4>1, <4>3 DEF SaveDecisionEffect1, HoldersStamp,
            EarlyUnstamped, ResendsLate, OneHolder, Holding, HoldingSteps, Swappable, Matches
      <4> QED
        BY <4>2, <4>3
    <3>2. CASE ~(cand[c].status = "drafted" /\ cand[c].stamp)
      BY <1>0, <1>i, <1>1, <3>2 DEF SaveDecisionEffect1, HoldersStamp, EarlyUnstamped,
          ResendsLate, OneHolder, Holding, HoldingSteps, Swappable, Matches
    <3> QED
      BY <3>1, <3>2
  <2>2. OneCardUnlessLost'
    BY <1>0, <1>i, <1>1 DEF SaveDecisionEffect1, OneCardUnlessLost, HoldersUncarded,
        HoldingSteps, Swappable, Matches
  <2>3. DecisionAfterCard'
    BY <1>0, <1>i, <1>1 DEF SaveDecisionEffect1, DecisionAfterCard, PromotedCarded,
        ScheduledCarded, SchedulesAs, SchedulingSteps, Swappable, Matches
  <2>4. TapsHoldNone'
    BY <1>0, <1>i, <1>1 DEF SaveDecisionEffect1, TapsHoldNone, HoldingSteps, Swappable, Matches
  <2>5. EarlyUnstamped'
    BY <1>0, <1>i, <1>1 DEF SaveDecisionEffect1, EarlyUnstamped, Swappable, Matches
  <2>6. UnstampedUncarded'
    BY <1>0, <1>i, <1>1 DEF SaveDecisionEffect1, UnstampedUncarded, HoldersUncarded,
        HoldingSteps, OneHolder, Swappable, Matches
  <2>7. HoldersStamp'
    BY <1>0, <1>i, <1>1 DEF SaveDecisionEffect1, HoldersStamp, HoldingSteps, OneHolder,
        Swappable, Matches
  <2>8. OneHolder'
    BY <1>0, <1>i, <1>1 DEF SaveDecisionEffect1, OneHolder, HoldingSteps, HoldersStamp,
        Swappable, Matches
  <2>9. HoldersUncarded'
    BY <1>0, <1>i, <1>1 DEF SaveDecisionEffect1, HoldersUncarded, HoldingSteps,
        UnstampedUncarded, OneHolder, Swappable, Matches
  <2>10. PromotedCarded'
    BY <1>0, <1>i, <1>1 DEF SaveDecisionEffect1, PromotedCarded, Swappable, Matches
  <2>11. ResendsLate'
    BY <1>0, <1>i, <1>1 DEF SaveDecisionEffect1, ResendsLate, Swappable, Matches
  <2>12. ScheduledCarded'
    BY <1>0, <1>i, <1>1 DEF SaveDecisionEffect1, ScheduledCarded, SchedulesAs, SchedulingSteps,
        DecisionAfterCard, Swappable, Matches
  <2> QED
    BY <2>1, <2>2, <2>3, <2>4, <2>5, <2>6, <2>7, <2>8, <2>9, <2>10, <2>11, <2>12 DEF CardInv
<1>2. ASSUME SaveDecisionEffect2(p) PROVE CardInv'
  <2>1. ClaimHeld'
    <3> SUFFICES ASSUME NEW c \in Cands, cand'[c].status = "drafted", cand'[c].stamp,
        c \notin orphans'
                 PROVE  \E r \in Passes : Holding(r, c)'
      BY DEF ClaimHeld, Holding
    <3>1. CASE cand[c].status = "drafted" /\ cand[c].stamp
      <4>1. PICK r \in Passes : Holding(r, c)
        BY <1>2, <3>1, <1>i DEF SaveDecisionEffect2, ClaimHeld, Holding
      <4>2. CASE r = p
        BY <1>0, <1>i, <1>2, <3>1, <4>1, <4>2 DEF SaveDecisionEffect2, HoldersStamp,
            EarlyUnstamped, ResendsLate, OneHolder, Holding, HoldingSteps, Swappable, Matches
      <4>3. CASE r # p
        BY <1>0, <1>i, <1>2, <3>1, <4>1, <4>3 DEF SaveDecisionEffect2, HoldersStamp,
            EarlyUnstamped, ResendsLate, OneHolder, Holding, HoldingSteps, Swappable, Matches
      <4> QED
        BY <4>2, <4>3
    <3>2. CASE ~(cand[c].status = "drafted" /\ cand[c].stamp)
      BY <1>0, <1>i, <1>2, <3>2 DEF SaveDecisionEffect2, HoldersStamp, EarlyUnstamped,
          ResendsLate, OneHolder, Holding, HoldingSteps, Swappable, Matches
    <3> QED
      BY <3>1, <3>2
  <2>2. OneCardUnlessLost'
    BY <1>0, <1>i, <1>2 DEF SaveDecisionEffect2, OneCardUnlessLost, HoldersUncarded,
        HoldingSteps, Swappable, Matches
  <2>3. DecisionAfterCard'
    BY <1>0, <1>i, <1>2 DEF SaveDecisionEffect2, DecisionAfterCard, PromotedCarded,
        ScheduledCarded, SchedulesAs, SchedulingSteps, Swappable, Matches
  <2>4. TapsHoldNone'
    BY <1>0, <1>i, <1>2 DEF SaveDecisionEffect2, TapsHoldNone, HoldingSteps, Swappable, Matches
  <2>5. EarlyUnstamped'
    BY <1>0, <1>i, <1>2 DEF SaveDecisionEffect2, EarlyUnstamped, Swappable, Matches
  <2>6. UnstampedUncarded'
    BY <1>0, <1>i, <1>2 DEF SaveDecisionEffect2, UnstampedUncarded, HoldersUncarded,
        HoldingSteps, OneHolder, Swappable, Matches
  <2>7. HoldersStamp'
    BY <1>0, <1>i, <1>2 DEF SaveDecisionEffect2, HoldersStamp, HoldingSteps, OneHolder,
        Swappable, Matches
  <2>8. OneHolder'
    BY <1>0, <1>i, <1>2 DEF SaveDecisionEffect2, OneHolder, HoldingSteps, HoldersStamp,
        Swappable, Matches
  <2>9. HoldersUncarded'
    BY <1>0, <1>i, <1>2 DEF SaveDecisionEffect2, HoldersUncarded, HoldingSteps,
        UnstampedUncarded, OneHolder, Swappable, Matches
  <2>10. PromotedCarded'
    BY <1>0, <1>i, <1>2 DEF SaveDecisionEffect2, PromotedCarded, Swappable, Matches
  <2>11. ResendsLate'
    BY <1>0, <1>i, <1>2 DEF SaveDecisionEffect2, ResendsLate, Swappable, Matches
  <2>12. ScheduledCarded'
    BY <1>0, <1>i, <1>2 DEF SaveDecisionEffect2, ScheduledCarded, SchedulesAs, SchedulingSteps,
        DecisionAfterCard, Swappable, Matches
  <2> QED
    BY <2>1, <2>2, <2>3, <2>4, <2>5, <2>6, <2>7, <2>8, <2>9, <2>10, <2>11, <2>12 DEF CardInv
<1> QED
  BY <1>1, <1>2, SaveDecisionEffect
LEMMA CardSaveDraft ==
  ASSUME TypeOK, CardInv, NEW p \in Taps, SaveDraft(p)
  PROVE  CardInv'
<1>0. /\ p \in Commands /\ \A r \in Commands : at[r] \in Cands
      /\ Passes \subseteq Commands /\ Taps \subseteq Commands /\ Passes \cap Taps = {}
      /\ \A d \in Cands : cards[d] \in Nat /\ lost[d] \in Nat
      /\ \A r \in Rows : queue[r].cand \in Cands
      /\ granted \subseteq Cands /\ refused \subseteq Cands
      /\ \A d \in Cands : cand[d].draft \in Texts \cup {NoText}
  BY ProcessesAssumption DEF Commands, TypeOK, CandRows
<1>i. ClaimHeld /\ OneCardUnlessLost /\ DecisionAfterCard /\ TapsHoldNone /\ EarlyUnstamped
    /\ UnstampedUncarded /\ HoldersStamp /\ OneHolder /\ HoldersUncarded /\ PromotedCarded
        /\ ResendsLate /\ ScheduledCarded
  BY DEF CardInv
<1>1. ASSUME SaveDraftEffect1(p) PROVE CardInv'
  <2>1. ClaimHeld'
    <3> SUFFICES ASSUME NEW c \in Cands, cand'[c].status = "drafted", cand'[c].stamp,
        c \notin orphans'
                 PROVE  \E r \in Passes : Holding(r, c)'
      BY DEF ClaimHeld, Holding
    <3>1. CASE cand[c].status = "drafted" /\ cand[c].stamp
      <4>1. PICK r \in Passes : Holding(r, c)
        BY <1>1, <3>1, <1>i DEF SaveDraftEffect1, ClaimHeld, Holding
      <4>2. CASE r = p
        BY <1>0, <1>i, <1>1, <3>1, <4>1, <4>2 DEF SaveDraftEffect1, HoldersStamp,
            EarlyUnstamped, ResendsLate, OneHolder, Holding, HoldingSteps
      <4>3. CASE r # p
        BY <1>0, <1>i, <1>1, <3>1, <4>1, <4>3 DEF SaveDraftEffect1, HoldersStamp,
            EarlyUnstamped, ResendsLate, OneHolder, Holding, HoldingSteps
      <4> QED
        BY <4>2, <4>3
    <3>2. CASE ~(cand[c].status = "drafted" /\ cand[c].stamp)
      BY <1>0, <1>i, <1>1, <3>2 DEF SaveDraftEffect1, HoldersStamp, EarlyUnstamped,
          ResendsLate, OneHolder, Holding, HoldingSteps
    <3> QED
      BY <3>1, <3>2
  <2>2. OneCardUnlessLost'
    BY <1>0, <1>i, <1>1 DEF SaveDraftEffect1, OneCardUnlessLost, HoldersUncarded, HoldingSteps
  <2>3. DecisionAfterCard'
    BY <1>0, <1>i, <1>1 DEF SaveDraftEffect1, DecisionAfterCard, PromotedCarded,
        ScheduledCarded, SchedulesAs, SchedulingSteps
  <2>4. TapsHoldNone'
    BY <1>0, <1>i, <1>1 DEF SaveDraftEffect1, TapsHoldNone, HoldingSteps
  <2>5. EarlyUnstamped'
    BY <1>0, <1>i, <1>1 DEF SaveDraftEffect1, EarlyUnstamped
  <2>6. UnstampedUncarded'
    BY <1>0, <1>i, <1>1 DEF SaveDraftEffect1, UnstampedUncarded, HoldersUncarded, HoldingSteps,
        OneHolder
  <2>7. HoldersStamp'
    BY <1>0, <1>i, <1>1 DEF SaveDraftEffect1, HoldersStamp, HoldingSteps, OneHolder
  <2>8. OneHolder'
    BY <1>0, <1>i, <1>1 DEF SaveDraftEffect1, OneHolder, HoldingSteps, HoldersStamp
  <2>9. HoldersUncarded'
    BY <1>0, <1>i, <1>1 DEF SaveDraftEffect1, HoldersUncarded, HoldingSteps, UnstampedUncarded,
        OneHolder
  <2>10. PromotedCarded'
    BY <1>0, <1>i, <1>1 DEF SaveDraftEffect1, PromotedCarded
  <2>11. ResendsLate'
    BY <1>0, <1>i, <1>1 DEF SaveDraftEffect1, ResendsLate
  <2>12. ScheduledCarded'
    BY <1>0, <1>i, <1>1 DEF SaveDraftEffect1, ScheduledCarded, SchedulesAs, SchedulingSteps,
        DecisionAfterCard
  <2> QED
    BY <2>1, <2>2, <2>3, <2>4, <2>5, <2>6, <2>7, <2>8, <2>9, <2>10, <2>11, <2>12 DEF CardInv
<1>2. ASSUME SaveDraftEffect2(p) PROVE CardInv'
  <2>1. ClaimHeld'
    <3> SUFFICES ASSUME NEW c \in Cands, cand'[c].status = "drafted", cand'[c].stamp,
        c \notin orphans'
                 PROVE  \E r \in Passes : Holding(r, c)'
      BY DEF ClaimHeld, Holding
    <3>1. CASE cand[c].status = "drafted" /\ cand[c].stamp
      <4>1. PICK r \in Passes : Holding(r, c)
        BY <1>2, <3>1, <1>i DEF SaveDraftEffect2, ClaimHeld, Holding
      <4>2. CASE r = p
        BY <1>0, <1>i, <1>2, <3>1, <4>1, <4>2 DEF SaveDraftEffect2, HoldersStamp,
            EarlyUnstamped, ResendsLate, OneHolder, Holding, HoldingSteps
      <4>3. CASE r # p
        BY <1>0, <1>i, <1>2, <3>1, <4>1, <4>3 DEF SaveDraftEffect2, HoldersStamp,
            EarlyUnstamped, ResendsLate, OneHolder, Holding, HoldingSteps
      <4> QED
        BY <4>2, <4>3
    <3>2. CASE ~(cand[c].status = "drafted" /\ cand[c].stamp)
      BY <1>0, <1>i, <1>2, <3>2 DEF SaveDraftEffect2, HoldersStamp, EarlyUnstamped,
          ResendsLate, OneHolder, Holding, HoldingSteps
    <3> QED
      BY <3>1, <3>2
  <2>2. OneCardUnlessLost'
    BY <1>0, <1>i, <1>2 DEF SaveDraftEffect2, OneCardUnlessLost, HoldersUncarded, HoldingSteps
  <2>3. DecisionAfterCard'
    BY <1>0, <1>i, <1>2 DEF SaveDraftEffect2, DecisionAfterCard, PromotedCarded,
        ScheduledCarded, SchedulesAs, SchedulingSteps
  <2>4. TapsHoldNone'
    BY <1>0, <1>i, <1>2 DEF SaveDraftEffect2, TapsHoldNone, HoldingSteps
  <2>5. EarlyUnstamped'
    BY <1>0, <1>i, <1>2 DEF SaveDraftEffect2, EarlyUnstamped
  <2>6. UnstampedUncarded'
    BY <1>0, <1>i, <1>2 DEF SaveDraftEffect2, UnstampedUncarded, HoldersUncarded, HoldingSteps,
        OneHolder
  <2>7. HoldersStamp'
    BY <1>0, <1>i, <1>2 DEF SaveDraftEffect2, HoldersStamp, HoldingSteps, OneHolder
  <2>8. OneHolder'
    BY <1>0, <1>i, <1>2 DEF SaveDraftEffect2, OneHolder, HoldingSteps, HoldersStamp
  <2>9. HoldersUncarded'
    BY <1>0, <1>i, <1>2 DEF SaveDraftEffect2, HoldersUncarded, HoldingSteps, UnstampedUncarded,
        OneHolder
  <2>10. PromotedCarded'
    BY <1>0, <1>i, <1>2 DEF SaveDraftEffect2, PromotedCarded
  <2>11. ResendsLate'
    BY <1>0, <1>i, <1>2 DEF SaveDraftEffect2, ResendsLate
  <2>12. ScheduledCarded'
    BY <1>0, <1>i, <1>2 DEF SaveDraftEffect2, ScheduledCarded, SchedulesAs, SchedulingSteps,
        DecisionAfterCard
  <2> QED
    BY <2>1, <2>2, <2>3, <2>4, <2>5, <2>6, <2>7, <2>8, <2>9, <2>10, <2>11, <2>12 DEF CardInv
<1> QED
  BY <1>1, <1>2, SaveDraftEffect
LEMMA CardRawWrite ==
  ASSUME TypeOK, TypeOK', CardInv, NEW p \in Taps, RawWrite(p)
  PROVE  CardInv'
BY TrendTextsAssumption, RowsAssumption, ProcessesAssumption DEF RawWrite, TypeOK, CardInv,
    ClaimHeld, OneCardUnlessLost, DecisionAfterCard, TapsHoldNone, EarlyUnstamped,
        UnstampedUncarded, HoldersStamp, OneHolder, HoldersUncarded, PromotedCarded,
            ResendsLate, ScheduledCarded, Claimable, HoldingSteps, SchedulesAs, Swappable,
                SchedulingSteps, Schedulable, Closed, Patch, Goto, Leave, Start, NoCand,
                    Matches, CandRows, Commands, See, history, cardHistory, commands
LEMMA CardPromoteRow ==
  ASSUME TypeOK, CardInv, NEW p \in Taps, PromoteRow(p)
  PROVE  CardInv'
<1>0. /\ p \in Commands /\ \A r \in Commands : at[r] \in Cands
      /\ Passes \subseteq Commands /\ Taps \subseteq Commands /\ Passes \cap Taps = {}
      /\ \A d \in Cands : cards[d] \in Nat /\ lost[d] \in Nat
      /\ \A r \in Rows : queue[r].cand \in Cands
      /\ granted \subseteq Cands /\ refused \subseteq Cands
      /\ \A d \in Cands : cand[d].draft \in Texts \cup {NoText}
  BY ProcessesAssumption DEF Commands, TypeOK, CandRows
<1>i. ClaimHeld /\ OneCardUnlessLost /\ DecisionAfterCard /\ TapsHoldNone /\ EarlyUnstamped
    /\ UnstampedUncarded /\ HoldersStamp /\ OneHolder /\ HoldersUncarded /\ PromotedCarded
        /\ ResendsLate /\ ScheduledCarded
  BY DEF CardInv
<1>1. ASSUME PromoteRowEffect1(p) PROVE CardInv'
  <2>1. ClaimHeld'
    <3> SUFFICES ASSUME NEW c \in Cands, cand'[c].status = "drafted", cand'[c].stamp,
        c \notin orphans'
                 PROVE  \E r \in Passes : Holding(r, c)'
      BY DEF ClaimHeld, Holding
    <3>1. CASE cand[c].status = "drafted" /\ cand[c].stamp
      <4>1. PICK r \in Passes : Holding(r, c)
        BY <1>1, <3>1, <1>i DEF PromoteRowEffect1, ClaimHeld, Holding
      <4>2. CASE r = p
        BY <1>0, <1>i, <1>1, <3>1, <4>1, <4>2 DEF PromoteRowEffect1, HoldersStamp,
            EarlyUnstamped, ResendsLate, OneHolder, Holding, HoldingSteps
      <4>3. CASE r # p
        BY <1>0, <1>i, <1>1, <3>1, <4>1, <4>3 DEF PromoteRowEffect1, HoldersStamp,
            EarlyUnstamped, ResendsLate, OneHolder, Holding, HoldingSteps
      <4> QED
        BY <4>2, <4>3
    <3>2. CASE ~(cand[c].status = "drafted" /\ cand[c].stamp)
      BY <1>0, <1>i, <1>1, <3>2 DEF PromoteRowEffect1, HoldersStamp, EarlyUnstamped,
          ResendsLate, OneHolder, Holding, HoldingSteps
    <3> QED
      BY <3>1, <3>2
  <2>2. OneCardUnlessLost'
    BY <1>0, <1>i, <1>1 DEF PromoteRowEffect1, OneCardUnlessLost, HoldersUncarded, HoldingSteps
  <2>3. DecisionAfterCard'
    BY <1>0, <1>i, <1>1 DEF PromoteRowEffect1, DecisionAfterCard, PromotedCarded,
        ScheduledCarded, SchedulesAs, SchedulingSteps
  <2>4. TapsHoldNone'
    BY <1>0, <1>i, <1>1 DEF PromoteRowEffect1, TapsHoldNone, HoldingSteps
  <2>5. EarlyUnstamped'
    BY <1>0, <1>i, <1>1 DEF PromoteRowEffect1, EarlyUnstamped
  <2>6. UnstampedUncarded'
    BY <1>0, <1>i, <1>1 DEF PromoteRowEffect1, UnstampedUncarded, HoldersUncarded,
        HoldingSteps, OneHolder
  <2>7. HoldersStamp'
    BY <1>0, <1>i, <1>1 DEF PromoteRowEffect1, HoldersStamp, HoldingSteps, OneHolder
  <2>8. OneHolder'
    BY <1>0, <1>i, <1>1 DEF PromoteRowEffect1, OneHolder, HoldingSteps, HoldersStamp
  <2>9. HoldersUncarded'
    BY <1>0, <1>i, <1>1 DEF PromoteRowEffect1, HoldersUncarded, HoldingSteps,
        UnstampedUncarded, OneHolder
  <2>10. PromotedCarded'
    BY <1>0, <1>i, <1>1 DEF PromoteRowEffect1, PromotedCarded
  <2>11. ResendsLate'
    BY <1>0, <1>i, <1>1 DEF PromoteRowEffect1, ResendsLate
  <2>12. ScheduledCarded'
    BY <1>0, <1>i, <1>1 DEF PromoteRowEffect1, ScheduledCarded, SchedulesAs, SchedulingSteps,
        DecisionAfterCard
  <2> QED
    BY <2>1, <2>2, <2>3, <2>4, <2>5, <2>6, <2>7, <2>8, <2>9, <2>10, <2>11, <2>12 DEF CardInv
<1>2. ASSUME PromoteRowEffect2(p) PROVE CardInv'
  <2>1. ClaimHeld'
    <3> SUFFICES ASSUME NEW c \in Cands, cand'[c].status = "drafted", cand'[c].stamp,
        c \notin orphans'
                 PROVE  \E r \in Passes : Holding(r, c)'
      BY DEF ClaimHeld, Holding
    <3>1. CASE cand[c].status = "drafted" /\ cand[c].stamp
      <4>1. PICK r \in Passes : Holding(r, c)
        BY <1>2, <3>1, <1>i DEF PromoteRowEffect2, ClaimHeld, Holding
      <4>2. CASE r = p
        BY <1>0, <1>i, <1>2, <3>1, <4>1, <4>2 DEF PromoteRowEffect2, HoldersStamp,
            EarlyUnstamped, ResendsLate, OneHolder, Holding, HoldingSteps
      <4>3. CASE r # p
        BY <1>0, <1>i, <1>2, <3>1, <4>1, <4>3 DEF PromoteRowEffect2, HoldersStamp,
            EarlyUnstamped, ResendsLate, OneHolder, Holding, HoldingSteps
      <4> QED
        BY <4>2, <4>3
    <3>2. CASE ~(cand[c].status = "drafted" /\ cand[c].stamp)
      BY <1>0, <1>i, <1>2, <3>2 DEF PromoteRowEffect2, HoldersStamp, EarlyUnstamped,
          ResendsLate, OneHolder, Holding, HoldingSteps
    <3> QED
      BY <3>1, <3>2
  <2>2. OneCardUnlessLost'
    BY <1>0, <1>i, <1>2 DEF PromoteRowEffect2, OneCardUnlessLost, HoldersUncarded, HoldingSteps
  <2>3. DecisionAfterCard'
    BY <1>0, <1>i, <1>2 DEF PromoteRowEffect2, DecisionAfterCard, PromotedCarded,
        ScheduledCarded, SchedulesAs, SchedulingSteps
  <2>4. TapsHoldNone'
    BY <1>0, <1>i, <1>2 DEF PromoteRowEffect2, TapsHoldNone, HoldingSteps
  <2>5. EarlyUnstamped'
    BY <1>0, <1>i, <1>2 DEF PromoteRowEffect2, EarlyUnstamped
  <2>6. UnstampedUncarded'
    BY <1>0, <1>i, <1>2 DEF PromoteRowEffect2, UnstampedUncarded, HoldersUncarded,
        HoldingSteps, OneHolder
  <2>7. HoldersStamp'
    BY <1>0, <1>i, <1>2 DEF PromoteRowEffect2, HoldersStamp, HoldingSteps, OneHolder
  <2>8. OneHolder'
    BY <1>0, <1>i, <1>2 DEF PromoteRowEffect2, OneHolder, HoldingSteps, HoldersStamp
  <2>9. HoldersUncarded'
    BY <1>0, <1>i, <1>2 DEF PromoteRowEffect2, HoldersUncarded, HoldingSteps,
        UnstampedUncarded, OneHolder
  <2>10. PromotedCarded'
    BY <1>0, <1>i, <1>2 DEF PromoteRowEffect2, PromotedCarded
  <2>11. ResendsLate'
    BY <1>0, <1>i, <1>2 DEF PromoteRowEffect2, ResendsLate
  <2>12. ScheduledCarded'
    BY <1>0, <1>i, <1>2 DEF PromoteRowEffect2, ScheduledCarded, SchedulesAs, SchedulingSteps,
        DecisionAfterCard
  <2> QED
    BY <2>1, <2>2, <2>3, <2>4, <2>5, <2>6, <2>7, <2>8, <2>9, <2>10, <2>11, <2>12 DEF CardInv
<1> QED
  BY <1>1, <1>2, PromoteRowEffect
LEMMA CardFetchRow ==
  ASSUME TypeOK, TypeOK', CardInv, NEW p \in Taps, FetchRow(p)
  PROVE  CardInv'
BY TrendTextsAssumption, RowsAssumption, ProcessesAssumption DEF FetchRow, TypeOK, CardInv,
    ClaimHeld, OneCardUnlessLost, DecisionAfterCard, TapsHoldNone, EarlyUnstamped,
        UnstampedUncarded, HoldersStamp, OneHolder, HoldersUncarded, PromotedCarded,
            ResendsLate, ScheduledCarded, Claimable, HoldingSteps, SchedulesAs, Swappable,
                SchedulingSteps, Schedulable, Closed, Patch, Goto, Leave, Start, NoCand,
                    Matches, CandRows, Commands, See, history, cardHistory, commands
LEMMA CardFinalize ==
  ASSUME TypeOK, CardInv, NEW p \in Taps, Finalize(p)
  PROVE  CardInv'
<1>0. /\ p \in Commands /\ \A r \in Commands : at[r] \in Cands
      /\ Passes \subseteq Commands /\ Taps \subseteq Commands /\ Passes \cap Taps = {}
      /\ \A d \in Cands : cards[d] \in Nat /\ lost[d] \in Nat
      /\ \A r \in Rows : queue[r].cand \in Cands
      /\ granted \subseteq Cands /\ refused \subseteq Cands
      /\ \A d \in Cands : cand[d].draft \in Texts \cup {NoText}
  BY ProcessesAssumption DEF Commands, TypeOK, CandRows
<1>i. ClaimHeld /\ OneCardUnlessLost /\ DecisionAfterCard /\ TapsHoldNone /\ EarlyUnstamped
    /\ UnstampedUncarded /\ HoldersStamp /\ OneHolder /\ HoldersUncarded /\ PromotedCarded
        /\ ResendsLate /\ ScheduledCarded
  BY DEF CardInv
<1>1. ASSUME FinalizeEffect1(p) PROVE CardInv'
  <2>1. ClaimHeld'
    <3> SUFFICES ASSUME NEW c \in Cands, cand'[c].status = "drafted", cand'[c].stamp,
        c \notin orphans'
                 PROVE  \E r \in Passes : Holding(r, c)'
      BY DEF ClaimHeld, Holding
    <3>1. CASE cand[c].status = "drafted" /\ cand[c].stamp
      <4>1. PICK r \in Passes : Holding(r, c)
        BY <1>1, <3>1, <1>i DEF FinalizeEffect1, ClaimHeld, Holding
      <4>2. CASE r = p
        BY <1>0, <1>i, <1>1, <3>1, <4>1, <4>2 DEF FinalizeEffect1, HoldersStamp,
            EarlyUnstamped, ResendsLate, OneHolder, Holding, HoldingSteps
      <4>3. CASE r # p
        BY <1>0, <1>i, <1>1, <3>1, <4>1, <4>3 DEF FinalizeEffect1, HoldersStamp,
            EarlyUnstamped, ResendsLate, OneHolder, Holding, HoldingSteps
      <4> QED
        BY <4>2, <4>3
    <3>2. CASE ~(cand[c].status = "drafted" /\ cand[c].stamp)
      BY <1>0, <1>i, <1>1, <3>2 DEF FinalizeEffect1, HoldersStamp, EarlyUnstamped, ResendsLate,
          OneHolder, Holding, HoldingSteps
    <3> QED
      BY <3>1, <3>2
  <2>2. OneCardUnlessLost'
    BY <1>0, <1>i, <1>1 DEF FinalizeEffect1, OneCardUnlessLost, HoldersUncarded, HoldingSteps
  <2>3. DecisionAfterCard'
    BY <1>0, <1>i, <1>1 DEF FinalizeEffect1, DecisionAfterCard, PromotedCarded,
        ScheduledCarded, SchedulesAs, SchedulingSteps
  <2>4. TapsHoldNone'
    BY <1>0, <1>i, <1>1 DEF FinalizeEffect1, TapsHoldNone, HoldingSteps
  <2>5. EarlyUnstamped'
    BY <1>0, <1>i, <1>1 DEF FinalizeEffect1, EarlyUnstamped
  <2>6. UnstampedUncarded'
    BY <1>0, <1>i, <1>1 DEF FinalizeEffect1, UnstampedUncarded, HoldersUncarded, HoldingSteps,
        OneHolder
  <2>7. HoldersStamp'
    BY <1>0, <1>i, <1>1 DEF FinalizeEffect1, HoldersStamp, HoldingSteps, OneHolder
  <2>8. OneHolder'
    BY <1>0, <1>i, <1>1 DEF FinalizeEffect1, OneHolder, HoldingSteps, HoldersStamp
  <2>9. HoldersUncarded'
    BY <1>0, <1>i, <1>1 DEF FinalizeEffect1, HoldersUncarded, HoldingSteps, UnstampedUncarded,
        OneHolder
  <2>10. PromotedCarded'
    BY <1>0, <1>i, <1>1 DEF FinalizeEffect1, PromotedCarded
  <2>11. ResendsLate'
    BY <1>0, <1>i, <1>1 DEF FinalizeEffect1, ResendsLate
  <2>12. ScheduledCarded'
    BY <1>0, <1>i, <1>1 DEF FinalizeEffect1, ScheduledCarded, SchedulesAs, SchedulingSteps,
        DecisionAfterCard
  <2> QED
    BY <2>1, <2>2, <2>3, <2>4, <2>5, <2>6, <2>7, <2>8, <2>9, <2>10, <2>11, <2>12 DEF CardInv
<1> QED
  BY <1>1, FinalizeEffect
LEMMA CardCancelRow ==
  ASSUME TypeOK, TypeOK', CardInv, NEW p \in Taps, CancelRow(p)
  PROVE  CardInv'
BY TrendTextsAssumption, RowsAssumption, ProcessesAssumption DEF CancelRow, TypeOK, CardInv,
    ClaimHeld, OneCardUnlessLost, DecisionAfterCard, TapsHoldNone, EarlyUnstamped,
        UnstampedUncarded, HoldersStamp, OneHolder, HoldersUncarded, PromotedCarded,
            ResendsLate, ScheduledCarded, Claimable, HoldingSteps, SchedulesAs, Swappable,
                SchedulingSteps, Schedulable, Closed, Patch, Goto, Leave, Start, NoCand,
                    Matches, CandRows, Commands, See, history, cardHistory, commands
LEMMA CardInsertRow ==
  ASSUME TypeOK, TypeOK', CardInv, NEW p \in Taps, NEW q \in Rows, InsertRow(p, q)
  PROVE  CardInv'
BY TrendTextsAssumption, RowsAssumption, ProcessesAssumption DEF InsertRow, TypeOK, CardInv,
    ClaimHeld, OneCardUnlessLost, DecisionAfterCard, TapsHoldNone, EarlyUnstamped,
        UnstampedUncarded, HoldersStamp, OneHolder, HoldersUncarded, PromotedCarded,
            ResendsLate, ScheduledCarded, Claimable, HoldingSteps, SchedulesAs, Swappable,
                SchedulingSteps, Schedulable, Closed, Patch, Goto, Leave, Start, NoCand,
                    Matches, CandRows, Commands, See, history, cardHistory, commands
LEMMA CardPublish ==
  ASSUME TypeOK, TypeOK', CardInv, NEW q \in Rows, Publish(q)
  PROVE  CardInv'
BY TrendTextsAssumption, RowsAssumption, ProcessesAssumption DEF Publish, TypeOK, CardInv,
    ClaimHeld, OneCardUnlessLost, DecisionAfterCard, TapsHoldNone, EarlyUnstamped,
        UnstampedUncarded, HoldersStamp, OneHolder, HoldersUncarded, PromotedCarded,
            ResendsLate, ScheduledCarded, Claimable, HoldingSteps, SchedulesAs, Swappable,
                SchedulingSteps, Schedulable, Closed, Patch, Goto, Leave, Start, NoCand,
                    Matches, CandRows, Commands, See, history, cardHistory, commands
LEMMA CardCrash ==
  ASSUME TypeOK, TypeOK', CardInv, NEW p \in Commands, Crash(p)
  PROVE  CardInv'
BY TrendTextsAssumption, RowsAssumption, ProcessesAssumption DEF Crash, TypeOK, CardInv,
    ClaimHeld, OneCardUnlessLost, DecisionAfterCard, TapsHoldNone, EarlyUnstamped,
        UnstampedUncarded, HoldersStamp, OneHolder, HoldersUncarded, PromotedCarded,
            ResendsLate, ScheduledCarded, Claimable, HoldingSteps, SchedulesAs, Swappable,
                SchedulingSteps, Schedulable, Closed, Patch, Goto, Leave, Start, NoCand,
                    Matches, CandRows, Commands, Upset, See, history, cardHistory, commands
LEMMA CardStep == TypeOK /\ TypeOK' /\ CardInv /\ [Next]_trendVars => CardInv'
<1> SUFFICES ASSUME TypeOK, TypeOK', CardInv, [Next]_trendVars PROVE CardInv'
  OBVIOUS
<1>1. CASE UNCHANGED trendVars
  BY <1>1 DEF CardInv, ClaimHeld, OneCardUnlessLost, DecisionAfterCard, TapsHoldNone,
      EarlyUnstamped, UnstampedUncarded, HoldersStamp, OneHolder, HoldersUncarded,
          PromotedCarded, ResendsLate, ScheduledCarded, Claimable, HoldingSteps, SchedulesAs,
              Swappable, SchedulingSteps, Schedulable, trendVars, commands, history, cardHistory
<1>2. CASE Next
  <2>n. Next
    BY <1>2
  <2>1. ASSUME NEW c \in Cands, Insert(c) PROVE CardInv'
    BY <2>1, CardInsert
  <2>2. ASSUME NEW c \in Cands, InsertUnstamped(c) PROVE CardInv'
    BY <2>2, CardInsertUnstamped
  <2>3. ASSUME NEW c \in Cands, NEW q \in Rows, InsertLinked(c, q) PROVE CardInv'
    BY <2>3, CardInsertLinked
  <2>4. ASSUME NEW c \in Cands, Refuse(c) PROVE CardInv'
    BY <2>4, CardRefuse
  <2>5. ASSUME NEW c \in Cands, TimeOut(c) PROVE CardInv'
    BY <2>5, CardTimeOut
  <2>6. ASSUME NEW c \in Cands, ShowBacklog(c) PROVE CardInv'
    BY <2>6, CardShowBacklog
  <2>7. ASSUME NEW p \in Passes, NEW c \in Cands, BeginDraft(p, c) PROVE CardInv'
    BY <2>7, CardBeginDraft
  <2>8. ASSUME NEW p \in Passes, NEW c \in Cands, BeginResend(p, c) PROVE CardInv'
    BY <2>8, CardBeginResend
  <2>9. ASSUME NEW p \in Passes, Irrelevant(p) PROVE CardInv'
    BY <2>9, CardIrrelevant
  <2>10. ASSUME NEW p \in Passes, Stage(p) PROVE CardInv'
    BY <2>10, CardStage
  <2>11. ASSUME NEW p \in Passes, Claim(p) PROVE CardInv'
    BY <2>11, CardClaim
  <2>12. ASSUME NEW p \in Passes, SendCard(p) PROVE CardInv'
    BY <2>12, CardSendCard
  <2>13. ASSUME NEW p \in Passes, CardFails(p) PROVE CardInv'
    BY <2>13, CardCardFails
  <2>14. ASSUME NEW p \in Passes, Release(p) PROVE CardInv'
    BY <2>14, CardRelease
  <2>15. ASSUME NEW p \in Passes, Promote(p) PROVE CardInv'
    BY <2>15, CardPromote
  <2>16. ASSUME NEW p \in Passes, RefRead(p) PROVE CardInv'
    BY <2>16, CardRefRead
  <2>17. ASSUME NEW p \in Passes, RefWrite(p) PROVE CardInv'
    BY <2>17, CardRefWrite
  <2>18. ASSUME NEW p \in Taps, NEW c \in Cands, BeginApprove(p, c) PROVE CardInv'
    BY <2>18, CardBeginApprove
  <2>19. ASSUME NEW p \in Taps, NEW c \in Cands, BeginUse(p, c) PROVE CardInv'
    BY <2>19, CardBeginUse
  <2>20. ASSUME NEW p \in Taps, NEW c \in Cands, BeginRefresh(p, c) PROVE CardInv'
    BY <2>20, CardBeginRefresh
  <2>21. ASSUME NEW p \in Taps, NEW c \in Cands, BeginRaw(p, c) PROVE CardInv'
    BY <2>21, CardBeginRaw
  <2>22. ASSUME NEW p \in Taps, NEW c \in Cands, BeginSchedule(p, c) PROVE CardInv'
    BY <2>22, CardBeginSchedule
  <2>23. ASSUME NEW p \in Taps, NEW c \in Cands, BeginCancel(p, c) PROVE CardInv'
    BY <2>23, CardBeginCancel
  <2>24. ASSUME NEW p \in Taps, NEW c \in Cands, NEW t \in Texts, BeginEdit(p, c,
      t) PROVE CardInv'
    BY <2>24, CardBeginEdit
  <2>25. ASSUME NEW p \in Taps, SaveDecision(p) PROVE CardInv'
    BY <2>25, CardSaveDecision
  <2>26. ASSUME NEW p \in Taps, SaveDraft(p) PROVE CardInv'
    BY <2>26, CardSaveDraft
  <2>27. ASSUME NEW p \in Taps, RawWrite(p) PROVE CardInv'
    BY <2>27, CardRawWrite
  <2>28. ASSUME NEW p \in Taps, PromoteRow(p) PROVE CardInv'
    BY <2>28, CardPromoteRow
  <2>29. ASSUME NEW p \in Taps, FetchRow(p) PROVE CardInv'
    BY <2>29, CardFetchRow
  <2>30. ASSUME NEW p \in Taps, Finalize(p) PROVE CardInv'
    BY <2>30, CardFinalize
  <2>31. ASSUME NEW p \in Taps, CancelRow(p) PROVE CardInv'
    BY <2>31, CardCancelRow
  <2>32. ASSUME NEW p \in Taps, NEW q \in Rows, InsertRow(p, q) PROVE CardInv'
    BY <2>32, CardInsertRow
  <2>33. ASSUME NEW q \in Rows, Publish(q) PROVE CardInv'
    BY <2>33, CardPublish
  <2>34. ASSUME NEW p \in Commands, Crash(p) PROVE CardInv'
    BY <2>34, CardCrash
  <2> QED
    BY <2>n, <2>1, <2>2, <2>3, <2>4, <2>5, <2>6, <2>7, <2>8, <2>9, <2>10, <2>11, <2>12, <2>13,
        <2>14, <2>15, <2>16, <2>17, <2>18, <2>19, <2>20, <2>21, <2>22, <2>23, <2>24, <2>25,
            <2>26, <2>27, <2>28, <2>29, <2>30, <2>31, <2>32, <2>33, <2>34 DEF Next, PassStep,
                TapStep, BeginTap
<1> QED
  BY <1>1, <1>2
LEMMA CardInit == Init => CardInv
BY RowsAssumption DEF Init, CardInv, ClaimHeld, OneCardUnlessLost, DecisionAfterCard,
    TapsHoldNone, EarlyUnstamped, UnstampedUncarded, HoldersStamp, OneHolder, HoldersUncarded,
        PromotedCarded, ResendsLate, ScheduledCarded, Claimable, HoldingSteps, SchedulesAs,
            Swappable, SchedulingSteps, Schedulable, NoCand, NoRow, Commands, Closed
LEMMA CardAlways == Spec => []CardInv
<1>1. TypeOK /\ CardInv /\ [Next]_trendVars => CardInv'
  BY TypeStep, CardStep
<1> QED
  BY CardInit, <1>1, TypeCorrect, PTL DEF Spec

\* A stamped draft is held by the command that stamped it, unless it was killed.
THEOREM ClaimsAreHeld == Spec => []ClaimHeld
<1>1. CardInv => ClaimHeld
  BY DEF CardInv
<1> QED
  BY <1>1, CardAlways, PTL

\* No number of overlapping passes and resends delivers a second card, unless the
\* answer to a card request was lost.
THEOREM OneCardEach == Spec => []OneCardUnlessLost
<1>1. CardInv => OneCardUnlessLost
  BY DEF CardInv
<1> QED
  BY <1>1, CardAlways, PTL

\* No candidate waits for a decision, or is past one, before its card was delivered.
THEOREM CardsComeFirst == Spec => []DecisionAfterCard
<1>1. CardInv => DecisionAfterCard
  BY DEF CardInv
<1> QED
  BY <1>1, CardAlways, PTL

-----------------------------------------------------------------------------
(***************************************************************************)
(* Texts.  An approved candidate's draft has been seen, or a command wrote *)
(* over a row that had changed since it read it; so has what is scheduled. *)
(***************************************************************************)

ApprovedSeen ==
  \A c \in Cands : cand[c].status = "approved" => SeenOr(c, cand[c].draft)
SchedulesSeen ==
  \A p \in Commands :
    pc[p] \in {"promoteRow", "fetchRow", "insertRow"} => SeenOr(at[p], saw[p].draft)
SchedulesApproved ==
  \A p \in Commands : pc[p] \in SchedulesAs => saw[p].status = "approved"
ComposesEarly ==
  \A p \in Commands : pc[p] = "compose" => saw[p].status \in {"discovered", "drafted"}
DecidesText ==
  \A p \in Commands : pc[p] \in {"approve", "use"} => saw[p].draft \in Texts
EditsText ==
  \A p \in Commands : pc[p] = "edit" => text[p] \in Texts
RefreshesBacklog ==
  \A p \in Commands : pc[p] = "refresh" => saw[p].status = "backlog"

SeenInv ==
  /\ ScheduledWasSeen
  /\ ApprovedSeen
  /\ SchedulesSeen
  /\ SchedulesApproved
  /\ ComposesEarly
  /\ DecidesText
  /\ EditsText
  /\ RefreshesBacklog
  /\ CancelsPresent

LEMMA SeenInsert ==
  ASSUME TypeOK, TypeOK', SeenInv, NEW c \in Cands, Insert(c)
  PROVE  SeenInv'
BY TrendTextsAssumption, RowsAssumption, ProcessesAssumption DEF Insert, TypeOK, SeenInv,
    ScheduledWasSeen, ApprovedSeen, SchedulesSeen, SchedulesApproved, ComposesEarly,
        DecidesText, EditsText, RefreshesBacklog, CancelsPresent, SchedulesAs, SeenOr,
            Swappable, Schedulable, SchedulingSteps, NoteOutdated, Outdated, NextRow, SetRow,
                Closed, Patch, Goto, Leave, Start, NoCand, Matches, CandRows, Commands, See,
                    history, cardHistory, commands
LEMMA SeenInsertUnstamped ==
  ASSUME TypeOK, TypeOK', SeenInv, NEW c \in Cands, InsertUnstamped(c)
  PROVE  SeenInv'
BY TrendTextsAssumption, RowsAssumption, ProcessesAssumption DEF InsertUnstamped, TypeOK,
    SeenInv, ScheduledWasSeen, ApprovedSeen, SchedulesSeen, SchedulesApproved, ComposesEarly,
        DecidesText, EditsText, RefreshesBacklog, CancelsPresent, SchedulesAs, SeenOr,
            Swappable, Schedulable, SchedulingSteps, NoteOutdated, Outdated, NextRow, SetRow,
                Closed, Patch, Goto, Leave, Start, NoCand, Matches, CandRows, Commands, See,
                    history, cardHistory, commands
LEMMA SeenInsertLinked ==
  ASSUME TypeOK, TypeOK', SeenInv, NEW c \in Cands, NEW q \in Rows, InsertLinked(c, q)
  PROVE  SeenInv'
BY TrendTextsAssumption, RowsAssumption, ProcessesAssumption DEF InsertLinked, TypeOK, SeenInv,
    ScheduledWasSeen, ApprovedSeen, SchedulesSeen, SchedulesApproved, ComposesEarly,
        DecidesText, EditsText, RefreshesBacklog, CancelsPresent, SchedulesAs, SeenOr,
            Swappable, Schedulable, SchedulingSteps, NoteOutdated, Outdated, NextRow, SetRow,
                Closed, Patch, Goto, Leave, Start, NoCand, Matches, CandRows, Commands, See,
                    history, cardHistory, commands
LEMMA SeenRefuse ==
  ASSUME TypeOK, TypeOK', SeenInv, NEW c \in Cands, Refuse(c)
  PROVE  SeenInv'
BY TrendTextsAssumption, RowsAssumption, ProcessesAssumption DEF Refuse, TypeOK, SeenInv,
    ScheduledWasSeen, ApprovedSeen, SchedulesSeen, SchedulesApproved, ComposesEarly,
        DecidesText, EditsText, RefreshesBacklog, CancelsPresent, SchedulesAs, SeenOr,
            Swappable, Schedulable, SchedulingSteps, NoteOutdated, Outdated, NextRow, SetRow,
                Closed, Patch, Goto, Leave, Start, NoCand, Matches, CandRows, Commands, See,
                    history, cardHistory, commands
LEMMA SeenTimeOut ==
  ASSUME TypeOK, TypeOK', SeenInv, NEW c \in Cands, TimeOut(c)
  PROVE  SeenInv'
BY TrendTextsAssumption, RowsAssumption, ProcessesAssumption DEF TimeOut, Stale, MoveToBacklog,
    TypeOK, SeenInv, ScheduledWasSeen, ApprovedSeen, SchedulesSeen, SchedulesApproved,
        ComposesEarly, DecidesText, EditsText, RefreshesBacklog, CancelsPresent, SchedulesAs,
            SeenOr, Swappable, Schedulable, SchedulingSteps, NoteOutdated, Outdated, NextRow,
                SetRow, Closed, Patch, Goto, Leave, Start, NoCand, Matches, CandRows, Commands,
                    See, history, cardHistory, commands
LEMMA SeenShowBacklog ==
  ASSUME TypeOK, TypeOK', SeenInv, NEW c \in Cands, ShowBacklog(c)
  PROVE  SeenInv'
BY TrendTextsAssumption, RowsAssumption, ProcessesAssumption DEF ShowBacklog, Listed, TypeOK,
    SeenInv, ScheduledWasSeen, ApprovedSeen, SchedulesSeen, SchedulesApproved, ComposesEarly,
        DecidesText, EditsText, RefreshesBacklog, CancelsPresent, SchedulesAs, SeenOr,
            Swappable, Schedulable, SchedulingSteps, NoteOutdated, Outdated, NextRow, SetRow,
                Closed, Patch, Goto, Leave, Start, NoCand, Matches, CandRows, Commands, See,
                    history, cardHistory, commands
LEMMA SeenBeginDraft ==
  ASSUME TypeOK, TypeOK', SeenInv, NEW p \in Passes, NEW c \in Cands, BeginDraft(p, c)
  PROVE  SeenInv'
BY TrendTextsAssumption, RowsAssumption, ProcessesAssumption DEF BeginDraft, TypeOK, SeenInv,
    ScheduledWasSeen, ApprovedSeen, SchedulesSeen, SchedulesApproved, ComposesEarly,
        DecidesText, EditsText, RefreshesBacklog, CancelsPresent, SchedulesAs, SeenOr,
            Swappable, Schedulable, SchedulingSteps, NoteOutdated, Outdated, NextRow, SetRow,
                Closed, Patch, Goto, Leave, Start, NoCand, Matches, CandRows, Commands, See,
                    history, cardHistory, commands
LEMMA SeenBeginResend ==
  ASSUME TypeOK, TypeOK', SeenInv, NEW p \in Passes, NEW c \in Cands, BeginResend(p, c)
  PROVE  SeenInv'
BY TrendTextsAssumption, RowsAssumption, ProcessesAssumption DEF BeginResend, TypeOK, SeenInv,
    ScheduledWasSeen, ApprovedSeen, SchedulesSeen, SchedulesApproved, ComposesEarly,
        DecidesText, EditsText, RefreshesBacklog, CancelsPresent, SchedulesAs, SeenOr,
            Swappable, Schedulable, SchedulingSteps, NoteOutdated, Outdated, NextRow, SetRow,
                Closed, Patch, Goto, Leave, Start, NoCand, Matches, CandRows, Commands, See,
                    history, cardHistory, commands
LEMMA SeenIrrelevant ==
  ASSUME TypeOK, SeenInv, NEW p \in Passes, Irrelevant(p)
  PROVE  SeenInv'
<1>0. /\ p \in Commands /\ \A r \in Commands : at[r] \in Cands
      /\ Passes \subseteq Commands /\ Taps \subseteq Commands /\ Passes \cap Taps = {}
      /\ \A d \in Cands : cards[d] \in Nat /\ lost[d] \in Nat
      /\ \A r \in Rows : queue[r].cand \in Cands
      /\ granted \subseteq Cands /\ refused \subseteq Cands
      /\ \A d \in Cands : cand[d].draft \in Texts \cup {NoText}
  BY ProcessesAssumption DEF Commands, TypeOK, CandRows
<1>i. ScheduledWasSeen /\ ApprovedSeen /\ SchedulesSeen /\ SchedulesApproved
    /\ ComposesEarly /\ DecidesText /\ EditsText /\ RefreshesBacklog /\ CancelsPresent
  BY DEF SeenInv
<1>1. ASSUME IrrelevantEffect1(p) PROVE SeenInv'
  <2>1. ScheduledWasSeen'
    BY <1>0, <1>i, <1>1 DEF IrrelevantEffect1, ScheduledWasSeen, SeenOr, SchedulesSeen
  <2>2. ApprovedSeen'
    BY <1>0, <1>i, <1>1 DEF IrrelevantEffect1, ApprovedSeen, SeenOr, DecidesText,
        ComposesEarly, EditsText, RefreshesBacklog
  <2>3. SchedulesSeen'
    BY <1>0, <1>i, <1>1 DEF IrrelevantEffect1, SchedulesSeen, SeenOr, ApprovedSeen
  <2>4. SchedulesApproved'
    BY <1>0, <1>i, <1>1 DEF IrrelevantEffect1, SchedulesApproved, SchedulesAs, SchedulingSteps
  <2>5. ComposesEarly'
    BY <1>0, <1>i, <1>1 DEF IrrelevantEffect1, ComposesEarly
  <2>6. DecidesText'
    BY <1>0, <1>i, <1>1 DEF IrrelevantEffect1, DecidesText
  <2>7. EditsText'
    BY <1>0, <1>i, <1>1 DEF IrrelevantEffect1, EditsText
  <2>8. RefreshesBacklog'
    BY <1>0, <1>i, <1>1 DEF IrrelevantEffect1, RefreshesBacklog
  <2>9. CancelsPresent'
    BY <1>0, <1>i, <1>1 DEF IrrelevantEffect1, CancelsPresent
  <2> QED
    BY <2>1, <2>2, <2>3, <2>4, <2>5, <2>6, <2>7, <2>8, <2>9 DEF SeenInv
<1>2. ASSUME IrrelevantEffect2(p) PROVE SeenInv'
  <2>1. ScheduledWasSeen'
    BY <1>0, <1>i, <1>2 DEF IrrelevantEffect2, ScheduledWasSeen, SeenOr, SchedulesSeen
  <2>2. ApprovedSeen'
    BY <1>0, <1>i, <1>2 DEF IrrelevantEffect2, ApprovedSeen, SeenOr, DecidesText,
        ComposesEarly, EditsText, RefreshesBacklog
  <2>3. SchedulesSeen'
    BY <1>0, <1>i, <1>2 DEF IrrelevantEffect2, SchedulesSeen, SeenOr, ApprovedSeen
  <2>4. SchedulesApproved'
    BY <1>0, <1>i, <1>2 DEF IrrelevantEffect2, SchedulesApproved, SchedulesAs, SchedulingSteps
  <2>5. ComposesEarly'
    BY <1>0, <1>i, <1>2 DEF IrrelevantEffect2, ComposesEarly
  <2>6. DecidesText'
    BY <1>0, <1>i, <1>2 DEF IrrelevantEffect2, DecidesText
  <2>7. EditsText'
    BY <1>0, <1>i, <1>2 DEF IrrelevantEffect2, EditsText
  <2>8. RefreshesBacklog'
    BY <1>0, <1>i, <1>2 DEF IrrelevantEffect2, RefreshesBacklog
  <2>9. CancelsPresent'
    BY <1>0, <1>i, <1>2 DEF IrrelevantEffect2, CancelsPresent
  <2> QED
    BY <2>1, <2>2, <2>3, <2>4, <2>5, <2>6, <2>7, <2>8, <2>9 DEF SeenInv
<1> QED
  BY <1>1, <1>2, IrrelevantEffect
LEMMA SeenStage ==
  ASSUME TypeOK, SeenInv, NEW p \in Passes, Stage(p)
  PROVE  SeenInv'
<1>0. /\ p \in Commands /\ \A r \in Commands : at[r] \in Cands
      /\ Passes \subseteq Commands /\ Taps \subseteq Commands /\ Passes \cap Taps = {}
      /\ \A d \in Cands : cards[d] \in Nat /\ lost[d] \in Nat
      /\ \A r \in Rows : queue[r].cand \in Cands
      /\ granted \subseteq Cands /\ refused \subseteq Cands
      /\ \A d \in Cands : cand[d].draft \in Texts \cup {NoText}
  BY ProcessesAssumption DEF Commands, TypeOK, CandRows
<1>i. ScheduledWasSeen /\ ApprovedSeen /\ SchedulesSeen /\ SchedulesApproved
    /\ ComposesEarly /\ DecidesText /\ EditsText /\ RefreshesBacklog /\ CancelsPresent
  BY DEF SeenInv
<1>1. ASSUME StageEffect1(p) PROVE SeenInv'
  <2>1. ScheduledWasSeen'
    BY <1>0, <1>i, <1>1 DEF StageEffect1, ScheduledWasSeen, SeenOr, SchedulesSeen
  <2>2. ApprovedSeen'
    BY <1>0, <1>i, <1>1 DEF StageEffect1, ApprovedSeen, SeenOr, DecidesText, ComposesEarly,
        EditsText, RefreshesBacklog
  <2>3. SchedulesSeen'
    BY <1>0, <1>i, <1>1 DEF StageEffect1, SchedulesSeen, SeenOr, ApprovedSeen
  <2>4. SchedulesApproved'
    BY <1>0, <1>i, <1>1 DEF StageEffect1, SchedulesApproved, SchedulesAs, SchedulingSteps
  <2>5. ComposesEarly'
    BY <1>0, <1>i, <1>1 DEF StageEffect1, ComposesEarly
  <2>6. DecidesText'
    BY <1>0, <1>i, <1>1 DEF StageEffect1, DecidesText
  <2>7. EditsText'
    BY <1>0, <1>i, <1>1 DEF StageEffect1, EditsText
  <2>8. RefreshesBacklog'
    BY <1>0, <1>i, <1>1 DEF StageEffect1, RefreshesBacklog
  <2>9. CancelsPresent'
    BY <1>0, <1>i, <1>1 DEF StageEffect1, CancelsPresent
  <2> QED
    BY <2>1, <2>2, <2>3, <2>4, <2>5, <2>6, <2>7, <2>8, <2>9 DEF SeenInv
<1>2. ASSUME StageEffect2(p) PROVE SeenInv'
  <2>1. ScheduledWasSeen'
    BY <1>0, <1>i, <1>2 DEF StageEffect2, ScheduledWasSeen, SeenOr, SchedulesSeen
  <2>2. ApprovedSeen'
    BY <1>0, <1>i, <1>2 DEF StageEffect2, ApprovedSeen, SeenOr, DecidesText, ComposesEarly,
        EditsText, RefreshesBacklog
  <2>3. SchedulesSeen'
    BY <1>0, <1>i, <1>2 DEF StageEffect2, SchedulesSeen, SeenOr, ApprovedSeen
  <2>4. SchedulesApproved'
    BY <1>0, <1>i, <1>2 DEF StageEffect2, SchedulesApproved, SchedulesAs, SchedulingSteps
  <2>5. ComposesEarly'
    BY <1>0, <1>i, <1>2 DEF StageEffect2, ComposesEarly
  <2>6. DecidesText'
    BY <1>0, <1>i, <1>2 DEF StageEffect2, DecidesText
  <2>7. EditsText'
    BY <1>0, <1>i, <1>2 DEF StageEffect2, EditsText
  <2>8. RefreshesBacklog'
    BY <1>0, <1>i, <1>2 DEF StageEffect2, RefreshesBacklog
  <2>9. CancelsPresent'
    BY <1>0, <1>i, <1>2 DEF StageEffect2, CancelsPresent
  <2> QED
    BY <2>1, <2>2, <2>3, <2>4, <2>5, <2>6, <2>7, <2>8, <2>9 DEF SeenInv
<1>3. ASSUME StageEffect3(p) PROVE SeenInv'
  <2>1. ScheduledWasSeen'
    BY <1>0, <1>i, <1>3 DEF StageEffect3, ScheduledWasSeen, SeenOr, SchedulesSeen
  <2>2. ApprovedSeen'
    BY <1>0, <1>i, <1>3 DEF StageEffect3, ApprovedSeen, SeenOr, DecidesText, ComposesEarly,
        EditsText, RefreshesBacklog
  <2>3. SchedulesSeen'
    BY <1>0, <1>i, <1>3 DEF StageEffect3, SchedulesSeen, SeenOr, ApprovedSeen
  <2>4. SchedulesApproved'
    BY <1>0, <1>i, <1>3 DEF StageEffect3, SchedulesApproved, SchedulesAs, SchedulingSteps
  <2>5. ComposesEarly'
    BY <1>0, <1>i, <1>3 DEF StageEffect3, ComposesEarly
  <2>6. DecidesText'
    BY <1>0, <1>i, <1>3 DEF StageEffect3, DecidesText
  <2>7. EditsText'
    BY <1>0, <1>i, <1>3 DEF StageEffect3, EditsText
  <2>8. RefreshesBacklog'
    BY <1>0, <1>i, <1>3 DEF StageEffect3, RefreshesBacklog
  <2>9. CancelsPresent'
    BY <1>0, <1>i, <1>3 DEF StageEffect3, CancelsPresent
  <2> QED
    BY <2>1, <2>2, <2>3, <2>4, <2>5, <2>6, <2>7, <2>8, <2>9 DEF SeenInv
<1> QED
  BY <1>1, <1>2, <1>3, StageEffect
LEMMA SeenClaim ==
  ASSUME TypeOK, SeenInv, NEW p \in Passes, Claim(p)
  PROVE  SeenInv'
<1>0. /\ p \in Commands /\ \A r \in Commands : at[r] \in Cands
      /\ Passes \subseteq Commands /\ Taps \subseteq Commands /\ Passes \cap Taps = {}
      /\ \A d \in Cands : cards[d] \in Nat /\ lost[d] \in Nat
      /\ \A r \in Rows : queue[r].cand \in Cands
      /\ granted \subseteq Cands /\ refused \subseteq Cands
      /\ \A d \in Cands : cand[d].draft \in Texts \cup {NoText}
  BY ProcessesAssumption DEF Commands, TypeOK, CandRows
<1>i. ScheduledWasSeen /\ ApprovedSeen /\ SchedulesSeen /\ SchedulesApproved
    /\ ComposesEarly /\ DecidesText /\ EditsText /\ RefreshesBacklog /\ CancelsPresent
  BY DEF SeenInv
<1>1. ASSUME ClaimEffect1(p) PROVE SeenInv'
  <2>1. ScheduledWasSeen'
    BY <1>0, <1>i, <1>1 DEF ClaimEffect1, ScheduledWasSeen, SeenOr, SchedulesSeen, Claimable,
        Matches
  <2>2. ApprovedSeen'
    BY <1>0, <1>i, <1>1 DEF ClaimEffect1, ApprovedSeen, SeenOr, DecidesText, ComposesEarly,
        EditsText, RefreshesBacklog, Claimable, Matches
  <2>3. SchedulesSeen'
    BY <1>0, <1>i, <1>1 DEF ClaimEffect1, SchedulesSeen, SeenOr, ApprovedSeen, Claimable,
        Matches
  <2>4. SchedulesApproved'
    BY <1>0, <1>i, <1>1 DEF ClaimEffect1, SchedulesApproved, SchedulesAs, SchedulingSteps,
        Claimable, Matches
  <2>5. ComposesEarly'
    BY <1>0, <1>i, <1>1 DEF ClaimEffect1, ComposesEarly, Claimable, Matches
  <2>6. DecidesText'
    BY <1>0, <1>i, <1>1 DEF ClaimEffect1, DecidesText, Claimable, Matches
  <2>7. EditsText'
    BY <1>0, <1>i, <1>1 DEF ClaimEffect1, EditsText, Claimable, Matches
  <2>8. RefreshesBacklog'
    BY <1>0, <1>i, <1>1 DEF ClaimEffect1, RefreshesBacklog, Claimable, Matches
  <2>9. CancelsPresent'
    BY <1>0, <1>i, <1>1 DEF ClaimEffect1, CancelsPresent, Claimable, Matches
  <2> QED
    BY <2>1, <2>2, <2>3, <2>4, <2>5, <2>6, <2>7, <2>8, <2>9 DEF SeenInv
<1>2. ASSUME ClaimEffect2(p) PROVE SeenInv'
  <2>1. ScheduledWasSeen'
    BY <1>0, <1>i, <1>2 DEF ClaimEffect2, ScheduledWasSeen, SeenOr, SchedulesSeen, Claimable,
        Matches
  <2>2. ApprovedSeen'
    BY <1>0, <1>i, <1>2 DEF ClaimEffect2, ApprovedSeen, SeenOr, DecidesText, ComposesEarly,
        EditsText, RefreshesBacklog, Claimable, Matches
  <2>3. SchedulesSeen'
    BY <1>0, <1>i, <1>2 DEF ClaimEffect2, SchedulesSeen, SeenOr, ApprovedSeen, Claimable,
        Matches
  <2>4. SchedulesApproved'
    BY <1>0, <1>i, <1>2 DEF ClaimEffect2, SchedulesApproved, SchedulesAs, SchedulingSteps,
        Claimable, Matches
  <2>5. ComposesEarly'
    BY <1>0, <1>i, <1>2 DEF ClaimEffect2, ComposesEarly, Claimable, Matches
  <2>6. DecidesText'
    BY <1>0, <1>i, <1>2 DEF ClaimEffect2, DecidesText, Claimable, Matches
  <2>7. EditsText'
    BY <1>0, <1>i, <1>2 DEF ClaimEffect2, EditsText, Claimable, Matches
  <2>8. RefreshesBacklog'
    BY <1>0, <1>i, <1>2 DEF ClaimEffect2, RefreshesBacklog, Claimable, Matches
  <2>9. CancelsPresent'
    BY <1>0, <1>i, <1>2 DEF ClaimEffect2, CancelsPresent, Claimable, Matches
  <2> QED
    BY <2>1, <2>2, <2>3, <2>4, <2>5, <2>6, <2>7, <2>8, <2>9 DEF SeenInv
<1> QED
  BY <1>1, <1>2, ClaimEffect
LEMMA SeenSendCard ==
  ASSUME TypeOK, TypeOK', SeenInv, NEW p \in Passes, SendCard(p)
  PROVE  SeenInv'
BY TrendTextsAssumption, RowsAssumption, ProcessesAssumption DEF SendCard, CardText, TypeOK,
    SeenInv, ScheduledWasSeen, ApprovedSeen, SchedulesSeen, SchedulesApproved, ComposesEarly,
        DecidesText, EditsText, RefreshesBacklog, CancelsPresent, SchedulesAs, SeenOr,
            Swappable, Schedulable, SchedulingSteps, NoteOutdated, Outdated, NextRow, SetRow,
                Closed, Patch, Goto, Leave, Start, NoCand, Matches, CandRows, Commands, See,
                    history, cardHistory, commands
LEMMA SeenCardFails ==
  ASSUME TypeOK, SeenInv, NEW p \in Passes, CardFails(p)
  PROVE  SeenInv'
<1>0. /\ p \in Commands /\ \A r \in Commands : at[r] \in Cands
      /\ Passes \subseteq Commands /\ Taps \subseteq Commands /\ Passes \cap Taps = {}
      /\ \A d \in Cands : cards[d] \in Nat /\ lost[d] \in Nat
      /\ \A r \in Rows : queue[r].cand \in Cands
      /\ granted \subseteq Cands /\ refused \subseteq Cands
      /\ \A d \in Cands : cand[d].draft \in Texts \cup {NoText}
  BY ProcessesAssumption DEF Commands, TypeOK, CandRows
<1>i. ScheduledWasSeen /\ ApprovedSeen /\ SchedulesSeen /\ SchedulesApproved
    /\ ComposesEarly /\ DecidesText /\ EditsText /\ RefreshesBacklog /\ CancelsPresent
  BY DEF SeenInv
<1>1. ASSUME CardFailsEffect1(p) PROVE SeenInv'
  <2>1. ScheduledWasSeen'
    BY <1>0, <1>i, <1>1 DEF CardFailsEffect1, ScheduledWasSeen, SeenOr, SchedulesSeen
  <2>2. ApprovedSeen'
    BY <1>0, <1>i, <1>1 DEF CardFailsEffect1, ApprovedSeen, SeenOr, DecidesText, ComposesEarly,
        EditsText, RefreshesBacklog
  <2>3. SchedulesSeen'
    BY <1>0, <1>i, <1>1 DEF CardFailsEffect1, SchedulesSeen, SeenOr, ApprovedSeen
  <2>4. SchedulesApproved'
    BY <1>0, <1>i, <1>1 DEF CardFailsEffect1, SchedulesApproved, SchedulesAs, SchedulingSteps
  <2>5. ComposesEarly'
    BY <1>0, <1>i, <1>1 DEF CardFailsEffect1, ComposesEarly
  <2>6. DecidesText'
    BY <1>0, <1>i, <1>1 DEF CardFailsEffect1, DecidesText
  <2>7. EditsText'
    BY <1>0, <1>i, <1>1 DEF CardFailsEffect1, EditsText
  <2>8. RefreshesBacklog'
    BY <1>0, <1>i, <1>1 DEF CardFailsEffect1, RefreshesBacklog
  <2>9. CancelsPresent'
    BY <1>0, <1>i, <1>1 DEF CardFailsEffect1, CancelsPresent
  <2> QED
    BY <2>1, <2>2, <2>3, <2>4, <2>5, <2>6, <2>7, <2>8, <2>9 DEF SeenInv
<1>2. ASSUME CardFailsEffect2(p) PROVE SeenInv'
  <2>1. ScheduledWasSeen'
    BY <1>0, <1>i, <1>2 DEF CardFailsEffect2, ScheduledWasSeen, SeenOr, SchedulesSeen
  <2>2. ApprovedSeen'
    BY <1>0, <1>i, <1>2 DEF CardFailsEffect2, ApprovedSeen, SeenOr, DecidesText, ComposesEarly,
        EditsText, RefreshesBacklog
  <2>3. SchedulesSeen'
    BY <1>0, <1>i, <1>2 DEF CardFailsEffect2, SchedulesSeen, SeenOr, ApprovedSeen
  <2>4. SchedulesApproved'
    BY <1>0, <1>i, <1>2 DEF CardFailsEffect2, SchedulesApproved, SchedulesAs, SchedulingSteps
  <2>5. ComposesEarly'
    BY <1>0, <1>i, <1>2 DEF CardFailsEffect2, ComposesEarly
  <2>6. DecidesText'
    BY <1>0, <1>i, <1>2 DEF CardFailsEffect2, DecidesText
  <2>7. EditsText'
    BY <1>0, <1>i, <1>2 DEF CardFailsEffect2, EditsText
  <2>8. RefreshesBacklog'
    BY <1>0, <1>i, <1>2 DEF CardFailsEffect2, RefreshesBacklog
  <2>9. CancelsPresent'
    BY <1>0, <1>i, <1>2 DEF CardFailsEffect2, CancelsPresent
  <2> QED
    BY <2>1, <2>2, <2>3, <2>4, <2>5, <2>6, <2>7, <2>8, <2>9 DEF SeenInv
<1> QED
  BY <1>1, <1>2, CardFailsEffect
LEMMA SeenRelease ==
  ASSUME TypeOK, TypeOK', SeenInv, NEW p \in Passes, Release(p)
  PROVE  SeenInv'
BY TrendTextsAssumption, RowsAssumption, ProcessesAssumption DEF Release, TypeOK, SeenInv,
    ScheduledWasSeen, ApprovedSeen, SchedulesSeen, SchedulesApproved, ComposesEarly,
        DecidesText, EditsText, RefreshesBacklog, CancelsPresent, SchedulesAs, SeenOr,
            Swappable, Schedulable, SchedulingSteps, NoteOutdated, Outdated, NextRow, SetRow,
                Closed, Patch, Goto, Leave, Start, NoCand, Matches, CandRows, Commands, See,
                    history, cardHistory, commands
LEMMA SeenPromote ==
  ASSUME TypeOK, SeenInv, NEW p \in Passes, Promote(p)
  PROVE  SeenInv'
<1>0. /\ p \in Commands /\ \A r \in Commands : at[r] \in Cands
      /\ Passes \subseteq Commands /\ Taps \subseteq Commands /\ Passes \cap Taps = {}
      /\ \A d \in Cands : cards[d] \in Nat /\ lost[d] \in Nat
      /\ \A r \in Rows : queue[r].cand \in Cands
      /\ granted \subseteq Cands /\ refused \subseteq Cands
      /\ \A d \in Cands : cand[d].draft \in Texts \cup {NoText}
  BY ProcessesAssumption DEF Commands, TypeOK, CandRows
<1>i. ScheduledWasSeen /\ ApprovedSeen /\ SchedulesSeen /\ SchedulesApproved
    /\ ComposesEarly /\ DecidesText /\ EditsText /\ RefreshesBacklog /\ CancelsPresent
  BY DEF SeenInv
<1>1. ASSUME PromoteEffect1(p) PROVE SeenInv'
  <2>1. ScheduledWasSeen'
    BY <1>0, <1>i, <1>1 DEF PromoteEffect1, ScheduledWasSeen, SeenOr, SchedulesSeen, Matches
  <2>2. ApprovedSeen'
    BY <1>0, <1>i, <1>1 DEF PromoteEffect1, ApprovedSeen, SeenOr, DecidesText, ComposesEarly,
        EditsText, RefreshesBacklog, Matches
  <2>3. SchedulesSeen'
    BY <1>0, <1>i, <1>1 DEF PromoteEffect1, SchedulesSeen, SeenOr, ApprovedSeen, Matches
  <2>4. SchedulesApproved'
    BY <1>0, <1>i, <1>1 DEF PromoteEffect1, SchedulesApproved, SchedulesAs, SchedulingSteps,
        Matches
  <2>5. ComposesEarly'
    BY <1>0, <1>i, <1>1 DEF PromoteEffect1, ComposesEarly, Matches
  <2>6. DecidesText'
    BY <1>0, <1>i, <1>1 DEF PromoteEffect1, DecidesText, Matches
  <2>7. EditsText'
    BY <1>0, <1>i, <1>1 DEF PromoteEffect1, EditsText, Matches
  <2>8. RefreshesBacklog'
    BY <1>0, <1>i, <1>1 DEF PromoteEffect1, RefreshesBacklog, Matches
  <2>9. CancelsPresent'
    BY <1>0, <1>i, <1>1 DEF PromoteEffect1, CancelsPresent, Matches
  <2> QED
    BY <2>1, <2>2, <2>3, <2>4, <2>5, <2>6, <2>7, <2>8, <2>9 DEF SeenInv
<1>2. ASSUME PromoteEffect2(p) PROVE SeenInv'
  <2>1. ScheduledWasSeen'
    BY <1>0, <1>i, <1>2 DEF PromoteEffect2, ScheduledWasSeen, SeenOr, SchedulesSeen, Matches
  <2>2. ApprovedSeen'
    BY <1>0, <1>i, <1>2 DEF PromoteEffect2, ApprovedSeen, SeenOr, DecidesText, ComposesEarly,
        EditsText, RefreshesBacklog, Matches
  <2>3. SchedulesSeen'
    BY <1>0, <1>i, <1>2 DEF PromoteEffect2, SchedulesSeen, SeenOr, ApprovedSeen, Matches
  <2>4. SchedulesApproved'
    BY <1>0, <1>i, <1>2 DEF PromoteEffect2, SchedulesApproved, SchedulesAs, SchedulingSteps,
        Matches
  <2>5. ComposesEarly'
    BY <1>0, <1>i, <1>2 DEF PromoteEffect2, ComposesEarly, Matches
  <2>6. DecidesText'
    BY <1>0, <1>i, <1>2 DEF PromoteEffect2, DecidesText, Matches
  <2>7. EditsText'
    BY <1>0, <1>i, <1>2 DEF PromoteEffect2, EditsText, Matches
  <2>8. RefreshesBacklog'
    BY <1>0, <1>i, <1>2 DEF PromoteEffect2, RefreshesBacklog, Matches
  <2>9. CancelsPresent'
    BY <1>0, <1>i, <1>2 DEF PromoteEffect2, CancelsPresent, Matches
  <2> QED
    BY <2>1, <2>2, <2>3, <2>4, <2>5, <2>6, <2>7, <2>8, <2>9 DEF SeenInv
<1> QED
  BY <1>1, <1>2, PromoteEffect
LEMMA SeenRefRead ==
  ASSUME TypeOK, SeenInv, NEW p \in Passes, RefRead(p)
  PROVE  SeenInv'
<1>0. /\ p \in Commands /\ \A r \in Commands : at[r] \in Cands
      /\ Passes \subseteq Commands /\ Taps \subseteq Commands /\ Passes \cap Taps = {}
      /\ \A d \in Cands : cards[d] \in Nat /\ lost[d] \in Nat
      /\ \A r \in Rows : queue[r].cand \in Cands
      /\ granted \subseteq Cands /\ refused \subseteq Cands
      /\ \A d \in Cands : cand[d].draft \in Texts \cup {NoText}
  BY ProcessesAssumption DEF Commands, TypeOK, CandRows
<1>i. ScheduledWasSeen /\ ApprovedSeen /\ SchedulesSeen /\ SchedulesApproved
    /\ ComposesEarly /\ DecidesText /\ EditsText /\ RefreshesBacklog /\ CancelsPresent
  BY DEF SeenInv
<1>1. ASSUME RefReadEffect1(p) PROVE SeenInv'
  <2>1. ScheduledWasSeen'
    BY <1>0, <1>i, <1>1 DEF RefReadEffect1, ScheduledWasSeen, SeenOr, SchedulesSeen, Matches
  <2>2. ApprovedSeen'
    BY <1>0, <1>i, <1>1 DEF RefReadEffect1, ApprovedSeen, SeenOr, DecidesText, ComposesEarly,
        EditsText, RefreshesBacklog, Matches
  <2>3. SchedulesSeen'
    BY <1>0, <1>i, <1>1 DEF RefReadEffect1, SchedulesSeen, SeenOr, ApprovedSeen, Matches
  <2>4. SchedulesApproved'
    BY <1>0, <1>i, <1>1 DEF RefReadEffect1, SchedulesApproved, SchedulesAs, SchedulingSteps,
        Matches
  <2>5. ComposesEarly'
    BY <1>0, <1>i, <1>1 DEF RefReadEffect1, ComposesEarly, Matches
  <2>6. DecidesText'
    BY <1>0, <1>i, <1>1 DEF RefReadEffect1, DecidesText, Matches
  <2>7. EditsText'
    BY <1>0, <1>i, <1>1 DEF RefReadEffect1, EditsText, Matches
  <2>8. RefreshesBacklog'
    BY <1>0, <1>i, <1>1 DEF RefReadEffect1, RefreshesBacklog, Matches
  <2>9. CancelsPresent'
    BY <1>0, <1>i, <1>1 DEF RefReadEffect1, CancelsPresent, Matches
  <2> QED
    BY <2>1, <2>2, <2>3, <2>4, <2>5, <2>6, <2>7, <2>8, <2>9 DEF SeenInv
<1>2. ASSUME RefReadEffect2(p) PROVE SeenInv'
  <2>1. ScheduledWasSeen'
    BY <1>0, <1>i, <1>2 DEF RefReadEffect2, ScheduledWasSeen, SeenOr, SchedulesSeen, Matches
  <2>2. ApprovedSeen'
    BY <1>0, <1>i, <1>2 DEF RefReadEffect2, ApprovedSeen, SeenOr, DecidesText, ComposesEarly,
        EditsText, RefreshesBacklog, Matches
  <2>3. SchedulesSeen'
    BY <1>0, <1>i, <1>2 DEF RefReadEffect2, SchedulesSeen, SeenOr, ApprovedSeen, Matches
  <2>4. SchedulesApproved'
    BY <1>0, <1>i, <1>2 DEF RefReadEffect2, SchedulesApproved, SchedulesAs, SchedulingSteps,
        Matches
  <2>5. ComposesEarly'
    BY <1>0, <1>i, <1>2 DEF RefReadEffect2, ComposesEarly, Matches
  <2>6. DecidesText'
    BY <1>0, <1>i, <1>2 DEF RefReadEffect2, DecidesText, Matches
  <2>7. EditsText'
    BY <1>0, <1>i, <1>2 DEF RefReadEffect2, EditsText, Matches
  <2>8. RefreshesBacklog'
    BY <1>0, <1>i, <1>2 DEF RefReadEffect2, RefreshesBacklog, Matches
  <2>9. CancelsPresent'
    BY <1>0, <1>i, <1>2 DEF RefReadEffect2, CancelsPresent, Matches
  <2> QED
    BY <2>1, <2>2, <2>3, <2>4, <2>5, <2>6, <2>7, <2>8, <2>9 DEF SeenInv
<1> QED
  BY <1>1, <1>2, RefReadEffect
LEMMA SeenRefWrite ==
  ASSUME TypeOK, SeenInv, NEW p \in Passes, RefWrite(p)
  PROVE  SeenInv'
<1>0. /\ p \in Commands /\ \A r \in Commands : at[r] \in Cands
      /\ Passes \subseteq Commands /\ Taps \subseteq Commands /\ Passes \cap Taps = {}
      /\ \A d \in Cands : cards[d] \in Nat /\ lost[d] \in Nat
      /\ \A r \in Rows : queue[r].cand \in Cands
      /\ granted \subseteq Cands /\ refused \subseteq Cands
      /\ \A d \in Cands : cand[d].draft \in Texts \cup {NoText}
  BY ProcessesAssumption DEF Commands, TypeOK, CandRows
<1>i. ScheduledWasSeen /\ ApprovedSeen /\ SchedulesSeen /\ SchedulesApproved
    /\ ComposesEarly /\ DecidesText /\ EditsText /\ RefreshesBacklog /\ CancelsPresent
  BY DEF SeenInv
<1>1. ASSUME RefWriteEffect1(p) PROVE SeenInv'
  <2>1. ScheduledWasSeen'
    BY <1>0, <1>i, <1>1 DEF RefWriteEffect1, ScheduledWasSeen, SeenOr, SchedulesSeen, Matches
  <2>2. ApprovedSeen'
    BY <1>0, <1>i, <1>1 DEF RefWriteEffect1, ApprovedSeen, SeenOr, DecidesText, ComposesEarly,
        EditsText, RefreshesBacklog, Matches
  <2>3. SchedulesSeen'
    BY <1>0, <1>i, <1>1 DEF RefWriteEffect1, SchedulesSeen, SeenOr, ApprovedSeen, Matches
  <2>4. SchedulesApproved'
    BY <1>0, <1>i, <1>1 DEF RefWriteEffect1, SchedulesApproved, SchedulesAs, SchedulingSteps,
        Matches
  <2>5. ComposesEarly'
    BY <1>0, <1>i, <1>1 DEF RefWriteEffect1, ComposesEarly, Matches
  <2>6. DecidesText'
    BY <1>0, <1>i, <1>1 DEF RefWriteEffect1, DecidesText, Matches
  <2>7. EditsText'
    BY <1>0, <1>i, <1>1 DEF RefWriteEffect1, EditsText, Matches
  <2>8. RefreshesBacklog'
    BY <1>0, <1>i, <1>1 DEF RefWriteEffect1, RefreshesBacklog, Matches
  <2>9. CancelsPresent'
    BY <1>0, <1>i, <1>1 DEF RefWriteEffect1, CancelsPresent, Matches
  <2> QED
    BY <2>1, <2>2, <2>3, <2>4, <2>5, <2>6, <2>7, <2>8, <2>9 DEF SeenInv
<1>2. ASSUME RefWriteEffect2(p) PROVE SeenInv'
  <2>1. ScheduledWasSeen'
    BY <1>0, <1>i, <1>2 DEF RefWriteEffect2, ScheduledWasSeen, SeenOr, SchedulesSeen, Matches
  <2>2. ApprovedSeen'
    BY <1>0, <1>i, <1>2 DEF RefWriteEffect2, ApprovedSeen, SeenOr, DecidesText, ComposesEarly,
        EditsText, RefreshesBacklog, Matches
  <2>3. SchedulesSeen'
    BY <1>0, <1>i, <1>2 DEF RefWriteEffect2, SchedulesSeen, SeenOr, ApprovedSeen, Matches
  <2>4. SchedulesApproved'
    BY <1>0, <1>i, <1>2 DEF RefWriteEffect2, SchedulesApproved, SchedulesAs, SchedulingSteps,
        Matches
  <2>5. ComposesEarly'
    BY <1>0, <1>i, <1>2 DEF RefWriteEffect2, ComposesEarly, Matches
  <2>6. DecidesText'
    BY <1>0, <1>i, <1>2 DEF RefWriteEffect2, DecidesText, Matches
  <2>7. EditsText'
    BY <1>0, <1>i, <1>2 DEF RefWriteEffect2, EditsText, Matches
  <2>8. RefreshesBacklog'
    BY <1>0, <1>i, <1>2 DEF RefWriteEffect2, RefreshesBacklog, Matches
  <2>9. CancelsPresent'
    BY <1>0, <1>i, <1>2 DEF RefWriteEffect2, CancelsPresent, Matches
  <2> QED
    BY <2>1, <2>2, <2>3, <2>4, <2>5, <2>6, <2>7, <2>8, <2>9 DEF SeenInv
<1> QED
  BY <1>1, <1>2, RefWriteEffect
LEMMA SeenBeginApprove ==
  ASSUME TypeOK, TypeOK', SeenInv, NEW p \in Taps, NEW c \in Cands, BeginApprove(p, c)
  PROVE  SeenInv'
BY TrendTextsAssumption, RowsAssumption, ProcessesAssumption DEF BeginApprove, TypeOK, SeenInv,
    ScheduledWasSeen, ApprovedSeen, SchedulesSeen, SchedulesApproved, ComposesEarly,
        DecidesText, EditsText, RefreshesBacklog, CancelsPresent, SchedulesAs, SeenOr,
            Swappable, Schedulable, SchedulingSteps, NoteOutdated, Outdated, NextRow, SetRow,
                Closed, Patch, Goto, Leave, Start, NoCand, Matches, CandRows, Commands, See,
                    history, cardHistory, commands
LEMMA SeenBeginUse ==
  ASSUME TypeOK, TypeOK', SeenInv, NEW p \in Taps, NEW c \in Cands, BeginUse(p, c)
  PROVE  SeenInv'
BY TrendTextsAssumption, RowsAssumption, ProcessesAssumption DEF BeginUse, TypeOK, SeenInv,
    ScheduledWasSeen, ApprovedSeen, SchedulesSeen, SchedulesApproved, ComposesEarly,
        DecidesText, EditsText, RefreshesBacklog, CancelsPresent, SchedulesAs, SeenOr,
            Swappable, Schedulable, SchedulingSteps, NoteOutdated, Outdated, NextRow, SetRow,
                Closed, Patch, Goto, Leave, Start, NoCand, Matches, CandRows, Commands, See,
                    history, cardHistory, commands
LEMMA SeenBeginRefresh ==
  ASSUME TypeOK, TypeOK', SeenInv, NEW p \in Taps, NEW c \in Cands, BeginRefresh(p, c)
  PROVE  SeenInv'
BY TrendTextsAssumption, RowsAssumption, ProcessesAssumption DEF BeginRefresh, ModelTexts,
    TypeOK, SeenInv, ScheduledWasSeen, ApprovedSeen, SchedulesSeen, SchedulesApproved,
        ComposesEarly, DecidesText, EditsText, RefreshesBacklog, CancelsPresent, SchedulesAs,
            SeenOr, Swappable, Schedulable, SchedulingSteps, NoteOutdated, Outdated, NextRow,
                SetRow, Closed, Patch, Goto, Leave, Start, NoCand, Matches, CandRows, Commands,
                    See, history, cardHistory, commands
LEMMA SeenBeginRaw ==
  ASSUME TypeOK, TypeOK', SeenInv, NEW p \in Taps, NEW c \in Cands, BeginRaw(p, c)
  PROVE  SeenInv'
BY TrendTextsAssumption, RowsAssumption, ProcessesAssumption DEF BeginRaw, TypeOK, SeenInv,
    ScheduledWasSeen, ApprovedSeen, SchedulesSeen, SchedulesApproved, ComposesEarly,
        DecidesText, EditsText, RefreshesBacklog, CancelsPresent, SchedulesAs, SeenOr,
            Swappable, Schedulable, SchedulingSteps, NoteOutdated, Outdated, NextRow, SetRow,
                Closed, Patch, Goto, Leave, Start, NoCand, Matches, CandRows, Commands, See,
                    history, cardHistory, commands
LEMMA SeenBeginSchedule ==
  ASSUME TypeOK, TypeOK', SeenInv, NEW p \in Taps, NEW c \in Cands, BeginSchedule(p, c)
  PROVE  SeenInv'
BY TrendTextsAssumption, RowsAssumption, ProcessesAssumption DEF BeginSchedule, TypeOK,
    SeenInv, ScheduledWasSeen, ApprovedSeen, SchedulesSeen, SchedulesApproved, ComposesEarly,
        DecidesText, EditsText, RefreshesBacklog, CancelsPresent, SchedulesAs, SeenOr,
            Swappable, Schedulable, SchedulingSteps, NoteOutdated, Outdated, NextRow, SetRow,
                Closed, Patch, Goto, Leave, Start, NoCand, Matches, CandRows, Commands, See,
                    history, cardHistory, commands
LEMMA SeenBeginCancel ==
  ASSUME TypeOK, TypeOK', SeenInv, NEW p \in Taps, NEW c \in Cands, BeginCancel(p, c)
  PROVE  SeenInv'
BY TrendTextsAssumption, RowsAssumption, ProcessesAssumption DEF BeginCancel, TypeOK, SeenInv,
    ScheduledWasSeen, ApprovedSeen, SchedulesSeen, SchedulesApproved, ComposesEarly,
        DecidesText, EditsText, RefreshesBacklog, CancelsPresent, SchedulesAs, SeenOr,
            Swappable, Schedulable, SchedulingSteps, NoteOutdated, Outdated, NextRow, SetRow,
                Closed, Patch, Goto, Leave, Start, NoCand, Matches, CandRows, Commands, See,
                    history, cardHistory, commands
LEMMA SeenBeginEdit ==
  ASSUME TypeOK, TypeOK', SeenInv, NEW p \in Taps, NEW c \in Cands, NEW t \in Texts,
      BeginEdit(p, c, t)
  PROVE  SeenInv'
BY TrendTextsAssumption, RowsAssumption, ProcessesAssumption DEF BeginEdit, TypeOK, SeenInv,
    ScheduledWasSeen, ApprovedSeen, SchedulesSeen, SchedulesApproved, ComposesEarly,
        DecidesText, EditsText, RefreshesBacklog, CancelsPresent, SchedulesAs, SeenOr,
            Swappable, Schedulable, SchedulingSteps, NoteOutdated, Outdated, NextRow, SetRow,
                Closed, Patch, Goto, Leave, Start, NoCand, Matches, CandRows, Commands, See,
                    history, cardHistory, commands
LEMMA SeenSaveDecision ==
  ASSUME TypeOK, SeenInv, NEW p \in Taps, SaveDecision(p)
  PROVE  SeenInv'
<1>0. /\ p \in Commands /\ \A r \in Commands : at[r] \in Cands
      /\ Passes \subseteq Commands /\ Taps \subseteq Commands /\ Passes \cap Taps = {}
      /\ \A d \in Cands : cards[d] \in Nat /\ lost[d] \in Nat
      /\ \A r \in Rows : queue[r].cand \in Cands
      /\ granted \subseteq Cands /\ refused \subseteq Cands
      /\ \A d \in Cands : cand[d].draft \in Texts \cup {NoText}
  BY ProcessesAssumption DEF Commands, TypeOK, CandRows
<1>i. ScheduledWasSeen /\ ApprovedSeen /\ SchedulesSeen /\ SchedulesApproved
    /\ ComposesEarly /\ DecidesText /\ EditsText /\ RefreshesBacklog /\ CancelsPresent
  BY DEF SeenInv
<1>1. ASSUME SaveDecisionEffect1(p) PROVE SeenInv'
  <2>1. ScheduledWasSeen'
    BY <1>0, <1>i, <1>1 DEF SaveDecisionEffect1, ScheduledWasSeen, SeenOr, SchedulesSeen,
        Swappable, Matches
  <2>2. ApprovedSeen'
    BY <1>0, <1>i, <1>1 DEF SaveDecisionEffect1, ApprovedSeen, SeenOr, DecidesText,
        ComposesEarly, EditsText, RefreshesBacklog, Swappable, Matches
  <2>3. SchedulesSeen'
    BY <1>0, <1>i, <1>1 DEF SaveDecisionEffect1, SchedulesSeen, SeenOr, ApprovedSeen,
        Swappable, Matches
  <2>4. SchedulesApproved'
    BY <1>0, <1>i, <1>1 DEF SaveDecisionEffect1, SchedulesApproved, SchedulesAs,
        SchedulingSteps, Swappable, Matches
  <2>5. ComposesEarly'
    BY <1>0, <1>i, <1>1 DEF SaveDecisionEffect1, ComposesEarly, Swappable, Matches
  <2>6. DecidesText'
    BY <1>0, <1>i, <1>1 DEF SaveDecisionEffect1, DecidesText, Swappable, Matches
  <2>7. EditsText'
    BY <1>0, <1>i, <1>1 DEF SaveDecisionEffect1, EditsText, Swappable, Matches
  <2>8. RefreshesBacklog'
    BY <1>0, <1>i, <1>1 DEF SaveDecisionEffect1, RefreshesBacklog, Swappable, Matches
  <2>9. CancelsPresent'
    BY <1>0, <1>i, <1>1 DEF SaveDecisionEffect1, CancelsPresent, Swappable, Matches
  <2> QED
    BY <2>1, <2>2, <2>3, <2>4, <2>5, <2>6, <2>7, <2>8, <2>9 DEF SeenInv
<1>2. ASSUME SaveDecisionEffect2(p) PROVE SeenInv'
  <2>1. ScheduledWasSeen'
    BY <1>0, <1>i, <1>2 DEF SaveDecisionEffect2, ScheduledWasSeen, SeenOr, SchedulesSeen,
        Swappable, Matches
  <2>2. ApprovedSeen'
    BY <1>0, <1>i, <1>2 DEF SaveDecisionEffect2, ApprovedSeen, SeenOr, DecidesText,
        ComposesEarly, EditsText, RefreshesBacklog, Swappable, Matches
  <2>3. SchedulesSeen'
    BY <1>0, <1>i, <1>2 DEF SaveDecisionEffect2, SchedulesSeen, SeenOr, ApprovedSeen,
        Swappable, Matches
  <2>4. SchedulesApproved'
    BY <1>0, <1>i, <1>2 DEF SaveDecisionEffect2, SchedulesApproved, SchedulesAs,
        SchedulingSteps, Swappable, Matches
  <2>5. ComposesEarly'
    BY <1>0, <1>i, <1>2 DEF SaveDecisionEffect2, ComposesEarly, Swappable, Matches
  <2>6. DecidesText'
    BY <1>0, <1>i, <1>2 DEF SaveDecisionEffect2, DecidesText, Swappable, Matches
  <2>7. EditsText'
    BY <1>0, <1>i, <1>2 DEF SaveDecisionEffect2, EditsText, Swappable, Matches
  <2>8. RefreshesBacklog'
    BY <1>0, <1>i, <1>2 DEF SaveDecisionEffect2, RefreshesBacklog, Swappable, Matches
  <2>9. CancelsPresent'
    BY <1>0, <1>i, <1>2 DEF SaveDecisionEffect2, CancelsPresent, Swappable, Matches
  <2> QED
    BY <2>1, <2>2, <2>3, <2>4, <2>5, <2>6, <2>7, <2>8, <2>9 DEF SeenInv
<1> QED
  BY <1>1, <1>2, SaveDecisionEffect
LEMMA SeenSaveDraft ==
  ASSUME TypeOK, SeenInv, NEW p \in Taps, SaveDraft(p)
  PROVE  SeenInv'
<1>0. /\ p \in Commands /\ \A r \in Commands : at[r] \in Cands
      /\ Passes \subseteq Commands /\ Taps \subseteq Commands /\ Passes \cap Taps = {}
      /\ \A d \in Cands : cards[d] \in Nat /\ lost[d] \in Nat
      /\ \A r \in Rows : queue[r].cand \in Cands
      /\ granted \subseteq Cands /\ refused \subseteq Cands
      /\ \A d \in Cands : cand[d].draft \in Texts \cup {NoText}
  BY ProcessesAssumption DEF Commands, TypeOK, CandRows
<1>i. ScheduledWasSeen /\ ApprovedSeen /\ SchedulesSeen /\ SchedulesApproved
    /\ ComposesEarly /\ DecidesText /\ EditsText /\ RefreshesBacklog /\ CancelsPresent
  BY DEF SeenInv
<1>1. ASSUME SaveDraftEffect1(p) PROVE SeenInv'
  <2>1. ScheduledWasSeen'
    BY <1>0, <1>i, <1>1 DEF SaveDraftEffect1, ScheduledWasSeen, SeenOr, SchedulesSeen
  <2>2. ApprovedSeen'
    BY <1>0, <1>i, <1>1 DEF SaveDraftEffect1, ApprovedSeen, SeenOr, DecidesText, ComposesEarly,
        EditsText, RefreshesBacklog
  <2>3. SchedulesSeen'
    BY <1>0, <1>i, <1>1 DEF SaveDraftEffect1, SchedulesSeen, SeenOr, ApprovedSeen
  <2>4. SchedulesApproved'
    BY <1>0, <1>i, <1>1 DEF SaveDraftEffect1, SchedulesApproved, SchedulesAs, SchedulingSteps
  <2>5. ComposesEarly'
    BY <1>0, <1>i, <1>1 DEF SaveDraftEffect1, ComposesEarly
  <2>6. DecidesText'
    BY <1>0, <1>i, <1>1 DEF SaveDraftEffect1, DecidesText
  <2>7. EditsText'
    BY <1>0, <1>i, <1>1 DEF SaveDraftEffect1, EditsText
  <2>8. RefreshesBacklog'
    BY <1>0, <1>i, <1>1 DEF SaveDraftEffect1, RefreshesBacklog
  <2>9. CancelsPresent'
    BY <1>0, <1>i, <1>1 DEF SaveDraftEffect1, CancelsPresent
  <2> QED
    BY <2>1, <2>2, <2>3, <2>4, <2>5, <2>6, <2>7, <2>8, <2>9 DEF SeenInv
<1>2. ASSUME SaveDraftEffect2(p) PROVE SeenInv'
  <2>1. ScheduledWasSeen'
    BY <1>0, <1>i, <1>2 DEF SaveDraftEffect2, ScheduledWasSeen, SeenOr, SchedulesSeen
  <2>2. ApprovedSeen'
    BY <1>0, <1>i, <1>2 DEF SaveDraftEffect2, ApprovedSeen, SeenOr, DecidesText, ComposesEarly,
        EditsText, RefreshesBacklog
  <2>3. SchedulesSeen'
    BY <1>0, <1>i, <1>2 DEF SaveDraftEffect2, SchedulesSeen, SeenOr, ApprovedSeen
  <2>4. SchedulesApproved'
    BY <1>0, <1>i, <1>2 DEF SaveDraftEffect2, SchedulesApproved, SchedulesAs, SchedulingSteps
  <2>5. ComposesEarly'
    BY <1>0, <1>i, <1>2 DEF SaveDraftEffect2, ComposesEarly
  <2>6. DecidesText'
    BY <1>0, <1>i, <1>2 DEF SaveDraftEffect2, DecidesText
  <2>7. EditsText'
    BY <1>0, <1>i, <1>2 DEF SaveDraftEffect2, EditsText
  <2>8. RefreshesBacklog'
    BY <1>0, <1>i, <1>2 DEF SaveDraftEffect2, RefreshesBacklog
  <2>9. CancelsPresent'
    BY <1>0, <1>i, <1>2 DEF SaveDraftEffect2, CancelsPresent
  <2> QED
    BY <2>1, <2>2, <2>3, <2>4, <2>5, <2>6, <2>7, <2>8, <2>9 DEF SeenInv
<1> QED
  BY <1>1, <1>2, SaveDraftEffect
LEMMA SeenRawWrite ==
  ASSUME TypeOK, TypeOK', SeenInv, NEW p \in Taps, RawWrite(p)
  PROVE  SeenInv'
BY TrendTextsAssumption, RowsAssumption, ProcessesAssumption DEF RawWrite, TypeOK, SeenInv,
    ScheduledWasSeen, ApprovedSeen, SchedulesSeen, SchedulesApproved, ComposesEarly,
        DecidesText, EditsText, RefreshesBacklog, CancelsPresent, SchedulesAs, SeenOr,
            Swappable, Schedulable, SchedulingSteps, NoteOutdated, Outdated, NextRow, SetRow,
                Closed, Patch, Goto, Leave, Start, NoCand, Matches, CandRows, Commands, See,
                    history, cardHistory, commands
LEMMA SeenPromoteRow ==
  ASSUME TypeOK, SeenInv, NEW p \in Taps, PromoteRow(p)
  PROVE  SeenInv'
<1>0. /\ p \in Commands /\ \A r \in Commands : at[r] \in Cands
      /\ Passes \subseteq Commands /\ Taps \subseteq Commands /\ Passes \cap Taps = {}
      /\ \A d \in Cands : cards[d] \in Nat /\ lost[d] \in Nat
      /\ \A r \in Rows : queue[r].cand \in Cands
      /\ granted \subseteq Cands /\ refused \subseteq Cands
      /\ \A d \in Cands : cand[d].draft \in Texts \cup {NoText}
  BY ProcessesAssumption DEF Commands, TypeOK, CandRows
<1>i. ScheduledWasSeen /\ ApprovedSeen /\ SchedulesSeen /\ SchedulesApproved
    /\ ComposesEarly /\ DecidesText /\ EditsText /\ RefreshesBacklog /\ CancelsPresent
  BY DEF SeenInv
<1>1. ASSUME PromoteRowEffect1(p) PROVE SeenInv'
  <2>1. ScheduledWasSeen'
    BY <1>0, <1>i, <1>1 DEF PromoteRowEffect1, ScheduledWasSeen, SeenOr, SchedulesSeen
  <2>2. ApprovedSeen'
    BY <1>0, <1>i, <1>1 DEF PromoteRowEffect1, ApprovedSeen, SeenOr, DecidesText,
        ComposesEarly, EditsText, RefreshesBacklog
  <2>3. SchedulesSeen'
    BY <1>0, <1>i, <1>1 DEF PromoteRowEffect1, SchedulesSeen, SeenOr, ApprovedSeen
  <2>4. SchedulesApproved'
    BY <1>0, <1>i, <1>1 DEF PromoteRowEffect1, SchedulesApproved, SchedulesAs, SchedulingSteps
  <2>5. ComposesEarly'
    BY <1>0, <1>i, <1>1 DEF PromoteRowEffect1, ComposesEarly
  <2>6. DecidesText'
    BY <1>0, <1>i, <1>1 DEF PromoteRowEffect1, DecidesText
  <2>7. EditsText'
    BY <1>0, <1>i, <1>1 DEF PromoteRowEffect1, EditsText
  <2>8. RefreshesBacklog'
    BY <1>0, <1>i, <1>1 DEF PromoteRowEffect1, RefreshesBacklog
  <2>9. CancelsPresent'
    BY <1>0, <1>i, <1>1 DEF PromoteRowEffect1, CancelsPresent
  <2> QED
    BY <2>1, <2>2, <2>3, <2>4, <2>5, <2>6, <2>7, <2>8, <2>9 DEF SeenInv
<1>2. ASSUME PromoteRowEffect2(p) PROVE SeenInv'
  <2>1. ScheduledWasSeen'
    BY <1>0, <1>i, <1>2 DEF PromoteRowEffect2, ScheduledWasSeen, SeenOr, SchedulesSeen
  <2>2. ApprovedSeen'
    BY <1>0, <1>i, <1>2 DEF PromoteRowEffect2, ApprovedSeen, SeenOr, DecidesText,
        ComposesEarly, EditsText, RefreshesBacklog
  <2>3. SchedulesSeen'
    BY <1>0, <1>i, <1>2 DEF PromoteRowEffect2, SchedulesSeen, SeenOr, ApprovedSeen
  <2>4. SchedulesApproved'
    BY <1>0, <1>i, <1>2 DEF PromoteRowEffect2, SchedulesApproved, SchedulesAs, SchedulingSteps
  <2>5. ComposesEarly'
    BY <1>0, <1>i, <1>2 DEF PromoteRowEffect2, ComposesEarly
  <2>6. DecidesText'
    BY <1>0, <1>i, <1>2 DEF PromoteRowEffect2, DecidesText
  <2>7. EditsText'
    BY <1>0, <1>i, <1>2 DEF PromoteRowEffect2, EditsText
  <2>8. RefreshesBacklog'
    BY <1>0, <1>i, <1>2 DEF PromoteRowEffect2, RefreshesBacklog
  <2>9. CancelsPresent'
    BY <1>0, <1>i, <1>2 DEF PromoteRowEffect2, CancelsPresent
  <2> QED
    BY <2>1, <2>2, <2>3, <2>4, <2>5, <2>6, <2>7, <2>8, <2>9 DEF SeenInv
<1> QED
  BY <1>1, <1>2, PromoteRowEffect
LEMMA SeenFetchRow ==
  ASSUME TypeOK, TypeOK', SeenInv, NEW p \in Taps, FetchRow(p)
  PROVE  SeenInv'
BY TrendTextsAssumption, RowsAssumption, ProcessesAssumption DEF FetchRow, TypeOK, SeenInv,
    ScheduledWasSeen, ApprovedSeen, SchedulesSeen, SchedulesApproved, ComposesEarly,
        DecidesText, EditsText, RefreshesBacklog, CancelsPresent, SchedulesAs, SeenOr,
            Swappable, Schedulable, SchedulingSteps, NoteOutdated, Outdated, NextRow, SetRow,
                Closed, Patch, Goto, Leave, Start, NoCand, Matches, CandRows, Commands, See,
                    history, cardHistory, commands
LEMMA SeenFinalize ==
  ASSUME TypeOK, SeenInv, NEW p \in Taps, Finalize(p)
  PROVE  SeenInv'
<1>0. /\ p \in Commands /\ \A r \in Commands : at[r] \in Cands
      /\ Passes \subseteq Commands /\ Taps \subseteq Commands /\ Passes \cap Taps = {}
      /\ \A d \in Cands : cards[d] \in Nat /\ lost[d] \in Nat
      /\ \A r \in Rows : queue[r].cand \in Cands
      /\ granted \subseteq Cands /\ refused \subseteq Cands
      /\ \A d \in Cands : cand[d].draft \in Texts \cup {NoText}
  BY ProcessesAssumption DEF Commands, TypeOK, CandRows
<1>i. ScheduledWasSeen /\ ApprovedSeen /\ SchedulesSeen /\ SchedulesApproved
    /\ ComposesEarly /\ DecidesText /\ EditsText /\ RefreshesBacklog /\ CancelsPresent
  BY DEF SeenInv
<1>1. ASSUME FinalizeEffect1(p) PROVE SeenInv'
  <2>1. ScheduledWasSeen'
    BY <1>0, <1>i, <1>1 DEF FinalizeEffect1, ScheduledWasSeen, SeenOr, SchedulesSeen
  <2>2. ApprovedSeen'
    BY <1>0, <1>i, <1>1 DEF FinalizeEffect1, ApprovedSeen, SeenOr, DecidesText, ComposesEarly,
        EditsText, RefreshesBacklog
  <2>3. SchedulesSeen'
    BY <1>0, <1>i, <1>1 DEF FinalizeEffect1, SchedulesSeen, SeenOr, ApprovedSeen
  <2>4. SchedulesApproved'
    BY <1>0, <1>i, <1>1 DEF FinalizeEffect1, SchedulesApproved, SchedulesAs, SchedulingSteps
  <2>5. ComposesEarly'
    BY <1>0, <1>i, <1>1 DEF FinalizeEffect1, ComposesEarly
  <2>6. DecidesText'
    BY <1>0, <1>i, <1>1 DEF FinalizeEffect1, DecidesText
  <2>7. EditsText'
    BY <1>0, <1>i, <1>1 DEF FinalizeEffect1, EditsText
  <2>8. RefreshesBacklog'
    BY <1>0, <1>i, <1>1 DEF FinalizeEffect1, RefreshesBacklog
  <2>9. CancelsPresent'
    BY <1>0, <1>i, <1>1 DEF FinalizeEffect1, CancelsPresent
  <2> QED
    BY <2>1, <2>2, <2>3, <2>4, <2>5, <2>6, <2>7, <2>8, <2>9 DEF SeenInv
<1> QED
  BY <1>1, FinalizeEffect
LEMMA SeenCancelRow ==
  ASSUME TypeOK, TypeOK', SeenInv, NEW p \in Taps, CancelRow(p)
  PROVE  SeenInv'
BY TrendTextsAssumption, RowsAssumption, ProcessesAssumption DEF CancelRow, TypeOK, SeenInv,
    ScheduledWasSeen, ApprovedSeen, SchedulesSeen, SchedulesApproved, ComposesEarly,
        DecidesText, EditsText, RefreshesBacklog, CancelsPresent, SchedulesAs, SeenOr,
            Swappable, Schedulable, SchedulingSteps, NoteOutdated, Outdated, NextRow, SetRow,
                Closed, Patch, Goto, Leave, Start, NoCand, Matches, CandRows, Commands, See,
                    history, cardHistory, commands
LEMMA SeenInsertRow ==
  ASSUME TypeOK, TypeOK', SeenInv, NEW p \in Taps, NEW q \in Rows, InsertRow(p, q)
  PROVE  SeenInv'
BY TrendTextsAssumption, RowsAssumption, ProcessesAssumption DEF InsertRow, TypeOK, SeenInv,
    ScheduledWasSeen, ApprovedSeen, SchedulesSeen, SchedulesApproved, ComposesEarly,
        DecidesText, EditsText, RefreshesBacklog, CancelsPresent, SchedulesAs, SeenOr,
            Swappable, Schedulable, SchedulingSteps, NoteOutdated, Outdated, NextRow, SetRow,
                Closed, Patch, Goto, Leave, Start, NoCand, Matches, CandRows, Commands, See,
                    history, cardHistory, commands
LEMMA SeenPublish ==
  ASSUME TypeOK, TypeOK', SeenInv, NEW q \in Rows, Publish(q)
  PROVE  SeenInv'
BY TrendTextsAssumption, RowsAssumption, ProcessesAssumption DEF Publish, TypeOK, SeenInv,
    ScheduledWasSeen, ApprovedSeen, SchedulesSeen, SchedulesApproved, ComposesEarly,
        DecidesText, EditsText, RefreshesBacklog, CancelsPresent, SchedulesAs, SeenOr,
            Swappable, Schedulable, SchedulingSteps, NoteOutdated, Outdated, NextRow, SetRow,
                Closed, Patch, Goto, Leave, Start, NoCand, Matches, CandRows, Commands, See,
                    history, cardHistory, commands
LEMMA SeenCrash ==
  ASSUME TypeOK, TypeOK', SeenInv, NEW p \in Commands, Crash(p)
  PROVE  SeenInv'
BY TrendTextsAssumption, RowsAssumption, ProcessesAssumption DEF Crash, TypeOK, SeenInv,
    ScheduledWasSeen, ApprovedSeen, SchedulesSeen, SchedulesApproved, ComposesEarly,
        DecidesText, EditsText, RefreshesBacklog, CancelsPresent, SchedulesAs, SeenOr,
            Swappable, Schedulable, SchedulingSteps, NoteOutdated, Outdated, NextRow, SetRow,
                Closed, Patch, Goto, Leave, Start, NoCand, Matches, CandRows, Commands, Upset,
                    See, history, cardHistory, commands
LEMMA SeenStep == TypeOK /\ TypeOK' /\ SeenInv /\ [Next]_trendVars => SeenInv'
<1> SUFFICES ASSUME TypeOK, TypeOK', SeenInv, [Next]_trendVars PROVE SeenInv'
  OBVIOUS
<1>1. CASE UNCHANGED trendVars
  BY <1>1 DEF SeenInv, ScheduledWasSeen, ApprovedSeen, SchedulesSeen, SchedulesApproved,
      ComposesEarly, DecidesText, EditsText, RefreshesBacklog, CancelsPresent, SchedulesAs,
          SeenOr, Swappable, Schedulable, SchedulingSteps, NoteOutdated, Outdated, NextRow,
              SetRow, trendVars, commands, history, cardHistory
<1>2. CASE Next
  <2>n. Next
    BY <1>2
  <2>1. ASSUME NEW c \in Cands, Insert(c) PROVE SeenInv'
    BY <2>1, SeenInsert
  <2>2. ASSUME NEW c \in Cands, InsertUnstamped(c) PROVE SeenInv'
    BY <2>2, SeenInsertUnstamped
  <2>3. ASSUME NEW c \in Cands, NEW q \in Rows, InsertLinked(c, q) PROVE SeenInv'
    BY <2>3, SeenInsertLinked
  <2>4. ASSUME NEW c \in Cands, Refuse(c) PROVE SeenInv'
    BY <2>4, SeenRefuse
  <2>5. ASSUME NEW c \in Cands, TimeOut(c) PROVE SeenInv'
    BY <2>5, SeenTimeOut
  <2>6. ASSUME NEW c \in Cands, ShowBacklog(c) PROVE SeenInv'
    BY <2>6, SeenShowBacklog
  <2>7. ASSUME NEW p \in Passes, NEW c \in Cands, BeginDraft(p, c) PROVE SeenInv'
    BY <2>7, SeenBeginDraft
  <2>8. ASSUME NEW p \in Passes, NEW c \in Cands, BeginResend(p, c) PROVE SeenInv'
    BY <2>8, SeenBeginResend
  <2>9. ASSUME NEW p \in Passes, Irrelevant(p) PROVE SeenInv'
    BY <2>9, SeenIrrelevant
  <2>10. ASSUME NEW p \in Passes, Stage(p) PROVE SeenInv'
    BY <2>10, SeenStage
  <2>11. ASSUME NEW p \in Passes, Claim(p) PROVE SeenInv'
    BY <2>11, SeenClaim
  <2>12. ASSUME NEW p \in Passes, SendCard(p) PROVE SeenInv'
    BY <2>12, SeenSendCard
  <2>13. ASSUME NEW p \in Passes, CardFails(p) PROVE SeenInv'
    BY <2>13, SeenCardFails
  <2>14. ASSUME NEW p \in Passes, Release(p) PROVE SeenInv'
    BY <2>14, SeenRelease
  <2>15. ASSUME NEW p \in Passes, Promote(p) PROVE SeenInv'
    BY <2>15, SeenPromote
  <2>16. ASSUME NEW p \in Passes, RefRead(p) PROVE SeenInv'
    BY <2>16, SeenRefRead
  <2>17. ASSUME NEW p \in Passes, RefWrite(p) PROVE SeenInv'
    BY <2>17, SeenRefWrite
  <2>18. ASSUME NEW p \in Taps, NEW c \in Cands, BeginApprove(p, c) PROVE SeenInv'
    BY <2>18, SeenBeginApprove
  <2>19. ASSUME NEW p \in Taps, NEW c \in Cands, BeginUse(p, c) PROVE SeenInv'
    BY <2>19, SeenBeginUse
  <2>20. ASSUME NEW p \in Taps, NEW c \in Cands, BeginRefresh(p, c) PROVE SeenInv'
    BY <2>20, SeenBeginRefresh
  <2>21. ASSUME NEW p \in Taps, NEW c \in Cands, BeginRaw(p, c) PROVE SeenInv'
    BY <2>21, SeenBeginRaw
  <2>22. ASSUME NEW p \in Taps, NEW c \in Cands, BeginSchedule(p, c) PROVE SeenInv'
    BY <2>22, SeenBeginSchedule
  <2>23. ASSUME NEW p \in Taps, NEW c \in Cands, BeginCancel(p, c) PROVE SeenInv'
    BY <2>23, SeenBeginCancel
  <2>24. ASSUME NEW p \in Taps, NEW c \in Cands, NEW t \in Texts, BeginEdit(p, c,
      t) PROVE SeenInv'
    BY <2>24, SeenBeginEdit
  <2>25. ASSUME NEW p \in Taps, SaveDecision(p) PROVE SeenInv'
    BY <2>25, SeenSaveDecision
  <2>26. ASSUME NEW p \in Taps, SaveDraft(p) PROVE SeenInv'
    BY <2>26, SeenSaveDraft
  <2>27. ASSUME NEW p \in Taps, RawWrite(p) PROVE SeenInv'
    BY <2>27, SeenRawWrite
  <2>28. ASSUME NEW p \in Taps, PromoteRow(p) PROVE SeenInv'
    BY <2>28, SeenPromoteRow
  <2>29. ASSUME NEW p \in Taps, FetchRow(p) PROVE SeenInv'
    BY <2>29, SeenFetchRow
  <2>30. ASSUME NEW p \in Taps, Finalize(p) PROVE SeenInv'
    BY <2>30, SeenFinalize
  <2>31. ASSUME NEW p \in Taps, CancelRow(p) PROVE SeenInv'
    BY <2>31, SeenCancelRow
  <2>32. ASSUME NEW p \in Taps, NEW q \in Rows, InsertRow(p, q) PROVE SeenInv'
    BY <2>32, SeenInsertRow
  <2>33. ASSUME NEW q \in Rows, Publish(q) PROVE SeenInv'
    BY <2>33, SeenPublish
  <2>34. ASSUME NEW p \in Commands, Crash(p) PROVE SeenInv'
    BY <2>34, SeenCrash
  <2> QED
    BY <2>n, <2>1, <2>2, <2>3, <2>4, <2>5, <2>6, <2>7, <2>8, <2>9, <2>10, <2>11, <2>12, <2>13,
        <2>14, <2>15, <2>16, <2>17, <2>18, <2>19, <2>20, <2>21, <2>22, <2>23, <2>24, <2>25,
            <2>26, <2>27, <2>28, <2>29, <2>30, <2>31, <2>32, <2>33, <2>34 DEF Next, PassStep,
                TapStep, BeginTap
<1> QED
  BY <1>1, <1>2
LEMMA SeenInit == Init => SeenInv
BY RowsAssumption DEF Init, SeenInv, ScheduledWasSeen, ApprovedSeen, SchedulesSeen,
    SchedulesApproved, ComposesEarly, DecidesText, EditsText, RefreshesBacklog, CancelsPresent,
        SchedulesAs, SeenOr, Swappable, Schedulable, SchedulingSteps, NoteOutdated, Outdated,
            NextRow, SetRow, NoCand, NoRow, Commands, Closed
LEMMA SeenAlways == Spec => []SeenInv
<1>1. TypeOK /\ SeenInv /\ [Next]_trendVars => SeenInv'
  BY TypeStep, SeenStep
<1> QED
  BY SeenInit, <1>1, TypeCorrect, PTL DEF Spec

\* Only texts a person has seen reach the publish queue, unless a command wrote
\* over a row that had changed since it read it.
THEOREM ScheduledTextWasSeen == Spec => []ScheduledWasSeen
<1>1. SeenInv => ScheduledWasSeen
  BY DEF SeenInv
<1> QED
  BY <1>1, SeenAlways, PTL

LEMMA LifecycleStep ==
  ASSUME TypeOK, SeenInv, [Next]_trendVars
  PROVE  [\A c \in Cands :
            cand'[c].status # cand[c].status =>
              <<cand[c].status, cand'[c].status>> \in Edges \/ c \in outdated']_cand
<1> DEFINE Kept == \A c \in Cands :
            cand'[c].status # cand[c].status =>
              <<cand[c].status, cand'[c].status>> \in Edges \/ c \in outdated'
<1>1. CASE UNCHANGED trendVars
  BY <1>1 DEF trendVars
<1>2. CASE Next
  <2>n. Next
    BY <1>2
  <2>1. ASSUME NEW c \in Cands, Insert(c) PROVE Kept \/ UNCHANGED cand
    BY <2>1 DEF Insert, Patch, Matches, NoCand, Edges, TypeOK, CandRows, Commands, SeenInv,
        SchedulesApproved, SchedulesAs, SchedulingSteps, NoteOutdated, Outdated
  <2>2. ASSUME NEW c \in Cands, InsertUnstamped(c) PROVE Kept \/ UNCHANGED cand
    BY <2>2 DEF InsertUnstamped, Patch, Matches, NoCand, Edges, TypeOK, CandRows, Commands,
        SeenInv, SchedulesApproved, SchedulesAs, SchedulingSteps, NoteOutdated, Outdated
  <2>3. ASSUME NEW c \in Cands, NEW q \in Rows, InsertLinked(c, q) PROVE Kept \/ UNCHANGED cand
    BY <2>3 DEF InsertLinked, Patch, Matches, NoCand, Edges, TypeOK, CandRows, Commands,
        SeenInv, SchedulesApproved, SchedulesAs, SchedulingSteps, NoteOutdated, Outdated
  <2>4. ASSUME NEW c \in Cands, Refuse(c) PROVE Kept \/ UNCHANGED cand
    BY <2>4, RefuseEffectHolds DEF RefuseEffect
  <2>5. ASSUME NEW c \in Cands, TimeOut(c) PROVE Kept \/ UNCHANGED cand
    BY <2>5 DEF TimeOut, Stale, MoveToBacklog, Patch, Matches, NoCand, Edges, TypeOK, CandRows,
        Commands, SeenInv, SchedulesApproved, SchedulesAs, SchedulingSteps, NoteOutdated,
            Outdated
  <2>6. ASSUME NEW c \in Cands, ShowBacklog(c) PROVE Kept \/ UNCHANGED cand
    BY <2>6 DEF ShowBacklog, Listed, Patch, Matches, NoCand, Edges, TypeOK, CandRows, Commands,
        SeenInv, SchedulesApproved, SchedulesAs, SchedulingSteps, NoteOutdated, Outdated
  <2>7. ASSUME NEW p \in Passes, NEW c \in Cands, BeginDraft(p, c) PROVE Kept \/ UNCHANGED cand
    BY <2>7 DEF BeginDraft, Patch, Matches, NoCand, Edges, TypeOK, CandRows, Commands, SeenInv,
        SchedulesApproved, SchedulesAs, SchedulingSteps, NoteOutdated, Outdated
  <2>8. ASSUME NEW p \in Passes, NEW c \in Cands, BeginResend(p, c) PROVE Kept \/ UNCHANGED cand
    BY <2>8 DEF BeginResend, Patch, Matches, NoCand, Edges, TypeOK, CandRows, Commands,
        SeenInv, SchedulesApproved, SchedulesAs, SchedulingSteps, NoteOutdated, Outdated
  <2>9. ASSUME NEW p \in Passes, Irrelevant(p) PROVE Kept \/ UNCHANGED cand
    BY <2>9, IrrelevantEffect DEF IrrelevantEffect1, IrrelevantEffect2, Edges, Matches,
        Swappable, TypeOK, Commands, SeenInv, SchedulesApproved, SchedulesAs, SchedulingSteps
  <2>10. ASSUME NEW p \in Passes, Stage(p) PROVE Kept \/ UNCHANGED cand
    BY <2>10, StageEffect DEF StageEffect1, StageEffect2, StageEffect3, Edges, Matches,
        Swappable, TypeOK, Commands, SeenInv, SchedulesApproved, SchedulesAs, SchedulingSteps
  <2>11. ASSUME NEW p \in Passes, Claim(p) PROVE Kept \/ UNCHANGED cand
    BY <2>11, ClaimEffect DEF ClaimEffect1, ClaimEffect2, Edges, Matches, Swappable, TypeOK,
        Commands, SeenInv, SchedulesApproved, SchedulesAs, SchedulingSteps
  <2>12. ASSUME NEW p \in Passes, SendCard(p) PROVE Kept \/ UNCHANGED cand
    BY <2>12 DEF SendCard, CardText, Patch, Matches, NoCand, Edges, TypeOK, CandRows, Commands,
        SeenInv, SchedulesApproved, SchedulesAs, SchedulingSteps, NoteOutdated, Outdated
  <2>13. ASSUME NEW p \in Passes, CardFails(p) PROVE Kept \/ UNCHANGED cand
    BY <2>13, CardFailsEffect DEF CardFailsEffect1, CardFailsEffect2, Edges, Matches,
        Swappable, TypeOK, Commands, SeenInv, SchedulesApproved, SchedulesAs, SchedulingSteps
  <2>14. ASSUME NEW p \in Passes, Release(p) PROVE Kept \/ UNCHANGED cand
    BY <2>14 DEF Release, Patch, Matches, NoCand, Edges, TypeOK, CandRows, Commands, SeenInv,
        SchedulesApproved, SchedulesAs, SchedulingSteps, NoteOutdated, Outdated
  <2>15. ASSUME NEW p \in Passes, Promote(p) PROVE Kept \/ UNCHANGED cand
    BY <2>15, PromoteEffect DEF PromoteEffect1, PromoteEffect2, Edges, Matches, Swappable,
        TypeOK, Commands, SeenInv, SchedulesApproved, SchedulesAs, SchedulingSteps
  <2>16. ASSUME NEW p \in Passes, RefRead(p) PROVE Kept \/ UNCHANGED cand
    BY <2>16, RefReadEffect DEF RefReadEffect1, RefReadEffect2, Edges, Matches, Swappable,
        TypeOK, Commands, SeenInv, SchedulesApproved, SchedulesAs, SchedulingSteps
  <2>17. ASSUME NEW p \in Passes, RefWrite(p) PROVE Kept \/ UNCHANGED cand
    BY <2>17, RefWriteEffect DEF RefWriteEffect1, RefWriteEffect2, Edges, Matches, Swappable,
        TypeOK, Commands, SeenInv, SchedulesApproved, SchedulesAs, SchedulingSteps
  <2>18. ASSUME NEW p \in Taps, NEW c \in Cands, BeginApprove(p, c) PROVE Kept \/ UNCHANGED cand
    BY <2>18 DEF BeginApprove, Patch, Matches, NoCand, Edges, TypeOK, CandRows, Commands,
        SeenInv, SchedulesApproved, SchedulesAs, SchedulingSteps, NoteOutdated, Outdated
  <2>19. ASSUME NEW p \in Taps, NEW c \in Cands, BeginUse(p, c) PROVE Kept \/ UNCHANGED cand
    BY <2>19 DEF BeginUse, Patch, Matches, NoCand, Edges, TypeOK, CandRows, Commands, SeenInv,
        SchedulesApproved, SchedulesAs, SchedulingSteps, NoteOutdated, Outdated
  <2>20. ASSUME NEW p \in Taps, NEW c \in Cands, BeginRefresh(p, c) PROVE Kept \/ UNCHANGED cand
    BY <2>20 DEF BeginRefresh, ModelTexts, Patch, Matches, NoCand, Edges, TypeOK, CandRows,
        Commands, SeenInv, SchedulesApproved, SchedulesAs, SchedulingSteps, NoteOutdated,
            Outdated
  <2>21. ASSUME NEW p \in Taps, NEW c \in Cands, BeginRaw(p, c) PROVE Kept \/ UNCHANGED cand
    BY <2>21 DEF BeginRaw, Patch, Matches, NoCand, Edges, TypeOK, CandRows, Commands, SeenInv,
        SchedulesApproved, SchedulesAs, SchedulingSteps, NoteOutdated, Outdated
  <2>22. ASSUME NEW p \in Taps, NEW c \in Cands, BeginSchedule(p,
      c) PROVE Kept \/ UNCHANGED cand
    BY <2>22 DEF BeginSchedule, Patch, Matches, NoCand, Edges, TypeOK, CandRows, Commands,
        SeenInv, SchedulesApproved, SchedulesAs, SchedulingSteps, NoteOutdated, Outdated
  <2>23. ASSUME NEW p \in Taps, NEW c \in Cands, BeginCancel(p, c) PROVE Kept \/ UNCHANGED cand
    BY <2>23 DEF BeginCancel, Patch, Matches, NoCand, Edges, TypeOK, CandRows, Commands,
        SeenInv, SchedulesApproved, SchedulesAs, SchedulingSteps, NoteOutdated, Outdated
  <2>24. ASSUME NEW p \in Taps, NEW c \in Cands, NEW t \in Texts, BeginEdit(p, c,
      t) PROVE Kept \/ UNCHANGED cand
    BY <2>24 DEF BeginEdit, Patch, Matches, NoCand, Edges, TypeOK, CandRows, Commands, SeenInv,
        SchedulesApproved, SchedulesAs, SchedulingSteps, NoteOutdated, Outdated
  <2>25. ASSUME NEW p \in Taps, SaveDecision(p) PROVE Kept \/ UNCHANGED cand
    BY <2>25, SaveDecisionEffect DEF SaveDecisionEffect1, SaveDecisionEffect2, Edges, Matches,
        Swappable, TypeOK, Commands, SeenInv, SchedulesApproved, SchedulesAs, SchedulingSteps
  <2>26. ASSUME NEW p \in Taps, SaveDraft(p) PROVE Kept \/ UNCHANGED cand
    BY <2>26, SaveDraftEffect DEF SaveDraftEffect1, SaveDraftEffect2, Edges, Matches,
        Swappable, TypeOK, Commands, SeenInv, SchedulesApproved, SchedulesAs, SchedulingSteps
  <2>27. ASSUME NEW p \in Taps, RawWrite(p) PROVE Kept \/ UNCHANGED cand
    BY <2>27 DEF RawWrite, Patch, Matches, NoCand, Edges, TypeOK, CandRows, Commands, SeenInv,
        SchedulesApproved, SchedulesAs, SchedulingSteps, NoteOutdated, Outdated
  <2>28. ASSUME NEW p \in Taps, PromoteRow(p) PROVE Kept \/ UNCHANGED cand
    BY <2>28, PromoteRowEffect DEF PromoteRowEffect1, PromoteRowEffect2, Edges, Matches,
        Swappable, TypeOK, Commands, SeenInv, SchedulesApproved, SchedulesAs, SchedulingSteps
  <2>29. ASSUME NEW p \in Taps, FetchRow(p) PROVE Kept \/ UNCHANGED cand
    BY <2>29 DEF FetchRow, Patch, Matches, NoCand, Edges, TypeOK, CandRows, Commands, SeenInv,
        SchedulesApproved, SchedulesAs, SchedulingSteps, NoteOutdated, Outdated
  <2>30. ASSUME NEW p \in Taps, Finalize(p) PROVE Kept \/ UNCHANGED cand
    BY <2>30, FinalizeEffect DEF FinalizeEffect1, Edges, Matches, Swappable, TypeOK, Commands,
        SeenInv, SchedulesApproved, SchedulesAs, SchedulingSteps
  <2>31. ASSUME NEW p \in Taps, CancelRow(p) PROVE Kept \/ UNCHANGED cand
    BY <2>31 DEF CancelRow, Patch, Matches, NoCand, Edges, TypeOK, CandRows, Commands, SeenInv,
        SchedulesApproved, SchedulesAs, SchedulingSteps, NoteOutdated, Outdated
  <2>32. ASSUME NEW p \in Taps, NEW q \in Rows, InsertRow(p, q) PROVE Kept \/ UNCHANGED cand
    BY <2>32 DEF InsertRow, Patch, Matches, NoCand, Edges, TypeOK, CandRows, Commands, SeenInv,
        SchedulesApproved, SchedulesAs, SchedulingSteps, NoteOutdated, Outdated
  <2>33. ASSUME NEW q \in Rows, Publish(q) PROVE Kept \/ UNCHANGED cand
    BY <2>33 DEF Publish, Patch, Matches, NoCand, Edges, TypeOK, CandRows, Commands, SeenInv,
        SchedulesApproved, SchedulesAs, SchedulingSteps, NoteOutdated, Outdated
  <2>34. ASSUME NEW p \in Commands, Crash(p) PROVE Kept \/ UNCHANGED cand
    BY <2>34 DEF Crash, Patch, Matches, NoCand, Edges, TypeOK, CandRows, Commands, SeenInv,
        SchedulesApproved, SchedulesAs, SchedulingSteps, NoteOutdated, Outdated
  <2> QED
    BY <2>n, <2>1, <2>2, <2>3, <2>4, <2>5, <2>6, <2>7, <2>8, <2>9, <2>10, <2>11, <2>12, <2>13,
        <2>14, <2>15, <2>16, <2>17, <2>18, <2>19, <2>20, <2>21, <2>22, <2>23, <2>24, <2>25,
            <2>26, <2>27, <2>28, <2>29, <2>30, <2>31, <2>32, <2>33, <2>34 DEF Next, PassStep,
                TapStep, BeginTap
<1> QED
  BY <1>1, <1>2

\* A candidate moves along the documented edges only, unless a command wrote a
\* status over a row that had changed since it read it.
THEOREM LifecycleIsKept == Spec => LifecycleKept
<1>1. TypeOK /\ SeenInv /\ [Next]_trendVars =>
        [\A c \in Cands :
           cand'[c].status # cand[c].status =>
             <<cand[c].status, cand'[c].status>> \in Edges \/ c \in outdated']_cand
  BY LifecycleStep
<1> QED
  BY <1>1, TypeCorrect, SeenAlways, PTL DEF Spec, LifecycleKept

-----------------------------------------------------------------------------
(***************************************************************************)
(* One row per candidate.  A queue row that a candidate or a command holds *)
(* is a row of that candidate; scheduling commands of an unharmed          *)
(* candidate (no twin) do not overlap; and a live row of one is either in  *)
(* the hands of the only command, about to finalize it, or linked from a   *)
(* candidate that can never be scheduled again.                            *)
(***************************************************************************)

Over == {"queued"} \cup Closed
Live(q) == queue[q].status \in {"approved", "posted"}
RowOf(c, q) == q \in Rows /\ queue[q].cand = c /\ queue[q].status # "absent"

\* A candidate links to a row of its own, and so does the copy a scheduling command holds.
LinksOwn == \A c \in Cands : cand[c].link # 0 => RowOf(c, cand[c].link)
HandsOwn ==
  \A p \in Commands :
    pc[p] \in SchedulingSteps \ {"insertRow"} => RowOf(at[p], saw[p].link)
\* Unless they are twins, one scheduling command at a time works on a candidate.
ScheduledAlone ==
  \A p, r \in Commands :
    /\ pc[p] \in SchedulingSteps /\ pc[r] \in SchedulingSteps
    /\ at[p] = at[r] /\ at[p] \notin twins
    => p = r
\* While a row is live, a scheduling command of its candidate is the one that inserted it,
\* and about to link it.
LiveInHand ==
  \A q \in Rows : Live(q) /\ queue[q].cand \notin twins =>
    \A p \in Commands :
      at[p] = queue[q].cand /\ pc[p] \in SchedulingSteps =>
        pc[p] = "finalize" /\ saw[p].link = q
\* A live row is in a command's hand, or linked to a candidate that is past scheduling.
LiveSettled ==
  \A q \in Rows : Live(q) /\ queue[q].cand \notin twins =>
    \/ BeingScheduled(queue[q].cand)
    \/ cand[queue[q].cand].status \in Over /\ cand[queue[q].cand].link = q
RowInv == LinksOwn /\ HandsOwn /\ ScheduledAlone /\ LiveInHand /\ LiveSettled

\* What most steps do: no row of the queue changes, no command begins, leaves or
\* takes a scheduling step, and no candidate that is over starts again.
Aside ==
  /\ queue' = queue /\ twins' = twins
  /\ \A c \in Cands :
       /\ cand[c].status \in Over => cand'[c].status \in Over /\ cand'[c].link = cand[c].link
       /\ cand'[c].link \in {0, cand[c].link}
  /\ \A p \in Commands :
       \/ pc'[p] \notin SchedulingSteps /\ pc[p] \notin SchedulingSteps
       \/ pc'[p] = pc[p] /\ at'[p] = at[p] /\ saw'[p] = saw[p]

LEMMA AsideKeeps ==
  ASSUME TypeOK, RowInv, Aside
  PROVE  RowInv'
<1>0. /\ \A q : Live(q)' <=> Live(q)
      /\ \A q \in Rows : queue[q].cand \in Cands
  BY DEF Live, Aside, TypeOK
<1>1. LinksOwn'
  BY DEF RowInv, LinksOwn, RowOf, Aside
<1>2. HandsOwn'
  BY DEF RowInv, HandsOwn, RowOf, Aside, SchedulingSteps
<1>3. ScheduledAlone'
  BY DEF RowInv, ScheduledAlone, Aside
<1>4. LiveInHand'
  BY <1>0 DEF RowInv, LiveInHand, Aside
<1>5. LiveSettled'
  BY <1>0 DEF RowInv, LiveSettled, BeingScheduled, Aside
<1> QED
  BY <1>1, <1>2, <1>3, <1>4, <1>5 DEF RowInv
LEMMA AsideInsert ==
  ASSUME TypeOK, NEW c \in Cands, Insert(c)
  PROVE  Aside
<1>1. /\ \A d \in Cands : d # c => cand'[d] = cand[d]
      /\ cand[c].status \in Over => cand'[c].status \in Over /\ cand'[c].link = cand[c].link
      /\ cand'[c].link \in {0, cand[c].link}
  BY DEF Insert, Patch, Matches, NoCand, TypeOK, CandRows, Over, Closed
<1> QED
  BY <1>1 DEF Insert, Aside, commands, history, cardHistory
LEMMA AsideInsertUnstamped ==
  ASSUME TypeOK, NEW c \in Cands, InsertUnstamped(c)
  PROVE  Aside
<1>1. /\ \A d \in Cands : d # c => cand'[d] = cand[d]
      /\ cand[c].status \in Over => cand'[c].status \in Over /\ cand'[c].link = cand[c].link
      /\ cand'[c].link \in {0, cand[c].link}
  BY DEF InsertUnstamped, Patch, Matches, NoCand, TypeOK, CandRows, Over, Closed
<1> QED
  BY <1>1 DEF InsertUnstamped, Aside, commands, history, cardHistory
LEMMA AsideTimeOut ==
  ASSUME TypeOK, NEW c \in Cands, TimeOut(c)
  PROVE  Aside
<1>1. /\ \A d \in Cands : d # c => cand'[d] = cand[d]
      /\ cand[c].status \in Over => cand'[c].status \in Over /\ cand'[c].link = cand[c].link
      /\ cand'[c].link \in {0, cand[c].link}
  BY DEF TimeOut, Stale, MoveToBacklog, Patch, Matches, NoCand, TypeOK, CandRows, Over, Closed
<1> QED
  BY <1>1 DEF TimeOut, Stale, MoveToBacklog, Aside, commands, history, cardHistory
LEMMA AsideShowBacklog ==
  ASSUME TypeOK, NEW c \in Cands, ShowBacklog(c)
  PROVE  Aside
<1>1. /\ \A d \in Cands : d # c => cand'[d] = cand[d]
      /\ cand[c].status \in Over => cand'[c].status \in Over /\ cand'[c].link = cand[c].link
      /\ cand'[c].link \in {0, cand[c].link}
  BY DEF ShowBacklog, Patch, Matches, NoCand, TypeOK, CandRows, Over, Closed
<1> QED
  BY <1>1 DEF ShowBacklog, Aside, commands, history, cardHistory
LEMMA AsideRefuse ==
  ASSUME TypeOK, NEW c \in Cands, Refuse(c)
  PROVE  Aside
BY RefuseEffectHolds DEF RefuseEffect, Aside, Over, Closed
LEMMA AsideBeginDraft ==
  ASSUME TypeOK, NEW p \in Passes, NEW c \in Cands, BeginDraft(p, c)
  PROVE  Aside
BY DEF BeginDraft, Start, Aside, TypeOK, Commands, history, cardHistory, SchedulingSteps
LEMMA AsideBeginResend ==
  ASSUME TypeOK, NEW p \in Passes, NEW c \in Cands, BeginResend(p, c)
  PROVE  Aside
BY DEF BeginResend, Start, Aside, TypeOK, Commands, history, cardHistory, SchedulingSteps
LEMMA AsideBeginApprove ==
  ASSUME TypeOK, NEW p \in Taps, NEW c \in Cands, BeginApprove(p, c)
  PROVE  Aside
BY DEF BeginApprove, Start, Aside, TypeOK, Commands, history, cardHistory, SchedulingSteps
LEMMA AsideBeginUse ==
  ASSUME TypeOK, NEW p \in Taps, NEW c \in Cands, BeginUse(p, c)
  PROVE  Aside
BY DEF BeginUse, Start, Aside, TypeOK, Commands, history, cardHistory, SchedulingSteps
LEMMA AsideBeginRefresh ==
  ASSUME TypeOK, NEW p \in Taps, NEW c \in Cands, BeginRefresh(p, c)
  PROVE  Aside
BY DEF BeginRefresh, ModelTexts, Start, Aside, TypeOK, Commands, history, cardHistory,
    SchedulingSteps
LEMMA AsideBeginRaw ==
  ASSUME TypeOK, NEW p \in Taps, NEW c \in Cands, BeginRaw(p, c)
  PROVE  Aside
BY DEF BeginRaw, Start, Aside, TypeOK, Commands, history, cardHistory, SchedulingSteps
LEMMA AsideBeginEdit ==
  ASSUME TypeOK, NEW p \in Taps, NEW c \in Cands, NEW t \in Texts, BeginEdit(p, c, t)
  PROVE  Aside
BY DEF BeginEdit, Start, Aside, TypeOK, Commands, history, cardHistory, SchedulingSteps
LEMMA AsideIrrelevant ==
  ASSUME TypeOK, NEW p \in Passes, Irrelevant(p)
  PROVE  Aside
<1>0. p \in Commands
  BY DEF Commands
<1>1. CASE IrrelevantEffect1(p)
  BY <1>0, <1>1 DEF IrrelevantEffect1, Aside, Over, Closed, Matches, Swappable, SchedulingSteps
<1>2. CASE IrrelevantEffect2(p)
  BY <1>0, <1>2 DEF IrrelevantEffect2, Aside, Over, Closed, Matches, Swappable, SchedulingSteps
<1> QED
  BY <1>1, <1>2, IrrelevantEffect
LEMMA AsideStage ==
  ASSUME TypeOK, NEW p \in Passes, Stage(p)
  PROVE  Aside
<1>0. p \in Commands
  BY DEF Commands
<1>1. CASE StageEffect1(p)
  BY <1>0, <1>1 DEF StageEffect1, Aside, Over, Closed, Matches, Swappable, SchedulingSteps
<1>2. CASE StageEffect2(p)
  BY <1>0, <1>2 DEF StageEffect2, Aside, Over, Closed, Matches, Swappable, SchedulingSteps
<1>3. CASE StageEffect3(p)
  BY <1>0, <1>3 DEF StageEffect3, Aside, Over, Closed, Matches, Swappable, SchedulingSteps
<1> QED
  BY <1>1, <1>2, <1>3, StageEffect
LEMMA AsideClaim ==
  ASSUME TypeOK, NEW p \in Passes, Claim(p)
  PROVE  Aside
<1>0. p \in Commands
  BY DEF Commands
<1>1. CASE ClaimEffect1(p)
  BY <1>0, <1>1 DEF ClaimEffect1, Aside, Over, Closed, Matches, Swappable, SchedulingSteps
<1>2. CASE ClaimEffect2(p)
  BY <1>0, <1>2 DEF ClaimEffect2, Aside, Over, Closed, Matches, Swappable, SchedulingSteps
<1> QED
  BY <1>1, <1>2, ClaimEffect
LEMMA AsideCardFails ==
  ASSUME TypeOK, NEW p \in Passes, CardFails(p)
  PROVE  Aside
<1>0. p \in Commands
  BY DEF Commands
<1>1. CASE CardFailsEffect1(p)
  BY <1>0, <1>1 DEF CardFailsEffect1, Aside, Over, Closed, Matches, Swappable, SchedulingSteps
<1>2. CASE CardFailsEffect2(p)
  BY <1>0, <1>2 DEF CardFailsEffect2, Aside, Over, Closed, Matches, Swappable, SchedulingSteps
<1> QED
  BY <1>1, <1>2, CardFailsEffect
LEMMA AsidePromote ==
  ASSUME TypeOK, NEW p \in Passes, Promote(p)
  PROVE  Aside
<1>0. p \in Commands
  BY DEF Commands
<1>1. CASE PromoteEffect1(p)
  BY <1>0, <1>1 DEF PromoteEffect1, Aside, Over, Closed, Matches, Swappable, SchedulingSteps
<1>2. CASE PromoteEffect2(p)
  BY <1>0, <1>2 DEF PromoteEffect2, Aside, Over, Closed, Matches, Swappable, SchedulingSteps
<1> QED
  BY <1>1, <1>2, PromoteEffect
LEMMA AsideRefRead ==
  ASSUME TypeOK, NEW p \in Passes, RefRead(p)
  PROVE  Aside
<1>0. p \in Commands
  BY DEF Commands
<1>1. CASE RefReadEffect1(p)
  BY <1>0, <1>1 DEF RefReadEffect1, Aside, Over, Closed, Matches, Swappable, SchedulingSteps
<1>2. CASE RefReadEffect2(p)
  BY <1>0, <1>2 DEF RefReadEffect2, Aside, Over, Closed, Matches, Swappable, SchedulingSteps
<1> QED
  BY <1>1, <1>2, RefReadEffect
LEMMA AsideRefWrite ==
  ASSUME TypeOK, NEW p \in Passes, RefWrite(p)
  PROVE  Aside
<1>0. p \in Commands
  BY DEF Commands
<1>1. CASE RefWriteEffect1(p)
  BY <1>0, <1>1 DEF RefWriteEffect1, Aside, Over, Closed, Matches, Swappable, SchedulingSteps
<1>2. CASE RefWriteEffect2(p)
  BY <1>0, <1>2 DEF RefWriteEffect2, Aside, Over, Closed, Matches, Swappable, SchedulingSteps
<1> QED
  BY <1>1, <1>2, RefWriteEffect
LEMMA AsideSaveDecision ==
  ASSUME TypeOK, NEW p \in Taps, SaveDecision(p)
  PROVE  Aside
<1>0. p \in Commands
  BY DEF Commands
<1>1. CASE SaveDecisionEffect1(p)
  BY <1>0, <1>1 DEF SaveDecisionEffect1, Aside, Over, Closed, Matches, Swappable, SchedulingSteps
<1>2. CASE SaveDecisionEffect2(p)
  BY <1>0, <1>2 DEF SaveDecisionEffect2, Aside, Over, Closed, Matches, Swappable, SchedulingSteps
<1> QED
  BY <1>1, <1>2, SaveDecisionEffect
LEMMA AsideSaveDraft ==
  ASSUME TypeOK, NEW p \in Taps, SaveDraft(p)
  PROVE  Aside
<1>0. p \in Commands
  BY DEF Commands
<1>1. CASE SaveDraftEffect1(p)
  BY <1>0, <1>1 DEF SaveDraftEffect1, Aside, Over, Closed, Matches, Swappable, SchedulingSteps
<1>2. CASE SaveDraftEffect2(p)
  BY <1>0, <1>2 DEF SaveDraftEffect2, Aside, Over, Closed, Matches, Swappable, SchedulingSteps
<1> QED
  BY <1>1, <1>2, SaveDraftEffect
LEMMA AsideSendCard ==
  ASSUME TypeOK, NEW p \in Passes, SendCard(p)
  PROVE  Aside
BY DEF SendCard, Goto, Aside, TypeOK, Commands, SchedulingSteps
LEMMA AsideRelease ==
  ASSUME TypeOK, NEW p \in Passes, Release(p)
  PROVE  Aside
<1>1. /\ p \in Commands
      /\ \A d \in Cands : cand'[d].status = cand[d].status /\ cand'[d].link = cand[d].link
  BY DEF Release, Patch, TypeOK, CandRows, Commands
<1> QED
  BY <1>1 DEF Release, Leave, Aside, TypeOK, history, cardHistory, SchedulingSteps
LEMMA AsideRawWrite ==
  ASSUME TypeOK, NEW p \in Taps, RawWrite(p)
  PROVE  Aside
<1>1. /\ p \in Commands
      /\ \A d \in Cands : cand'[d].status = cand[d].status /\ cand'[d].link = cand[d].link
  BY DEF RawWrite, Patch, TypeOK, CandRows, Commands
<1> QED
  BY <1>1 DEF RawWrite, Leave, Aside, TypeOK, history, cardHistory, SchedulingSteps

\* A row that is written for a candidate: nothing else of the queue changes.
LEMMA RowInsertLinked ==
  ASSUME TypeOK, RowInv, NEW c \in Cands, NEW q \in Rows, InsertLinked(c, q)
  PROVE  RowInv'
<1>1. /\ cand[c].status = "absent" /\ queue[q].status = "absent"
      /\ UNCHANGED <<pc, at, saw, twins>>
      /\ \A d \in Cands : d # c => cand'[d] = cand[d]
      /\ cand'[c].status = "approved" /\ cand'[c].link = q
      /\ \A r \in Rows : r # q => queue'[r] = queue[r]
      /\ queue'[q].cand = c /\ queue'[q].status = "draft"
  BY DEF InsertLinked, NextRow, Patch, NoCand, TypeOK, CandRows, commands
<1>2. \A r \in Rows : Live(r)' => r # q /\ Live(r) /\ queue'[r] = queue[r]
  BY <1>1 DEF Live
<1>3. \A d \in Cands : \A r : RowOf(d, r) => RowOf(d, r)'
  BY <1>1 DEF RowOf
<1>4. LinksOwn'
  BY <1>1, <1>3 DEF RowInv, LinksOwn, RowOf
<1>5. HandsOwn' /\ ScheduledAlone' /\ LiveInHand'
  BY <1>1, <1>2, <1>3 DEF RowInv, HandsOwn, ScheduledAlone, LiveInHand, TypeOK
<1>6. LiveSettled'
  <2> SUFFICES ASSUME NEW r \in Rows, Live(r)', queue'[r].cand \notin twins'
               PROVE  (LiveSettled!(r)!2)'
    BY DEF LiveSettled
  <2> QED
    BY <1>1, <1>2 DEF RowInv, LiveSettled, BeingScheduled, TypeOK, Over, Closed
<1> QED
  BY <1>4, <1>5, <1>6 DEF RowInv

\* A scheduling command begins: it is alone, or its candidate becomes a twin.
LEMMA BeginsAlone ==
  ASSUME TypeOK, RowInv, NEW p \in Commands, NEW c \in Cands, NEW s \in SchedulingSteps,
         s # "finalize", Start(p, c, s, NoText), NoteTwin(c), UNCHANGED <<cand, queue>>,
         \A q \in Rows : Live(q) /\ queue[q].cand = c /\ c \notin twins => BeingScheduled(c),
         s # "insertRow" => cand[c].link # 0
  PROVE  RowInv'
<1>1. /\ pc[p] = "idle" /\ pc'[p] = s /\ at'[p] = c /\ saw'[p] = cand[c]
      /\ \A r \in Commands : r # p => pc'[r] = pc[r] /\ at'[r] = at[r] /\ saw'[r] = saw[r]
      /\ "idle" \notin SchedulingSteps
  BY DEF Start, TypeOK, SchedulingSteps
<1>2. /\ twins \subseteq twins'
      /\ BeingScheduled(c) => c \in twins'
  BY DEF NoteTwin
<1>3. \A r \in Rows : Live(r)' <=> Live(r)
  BY DEF Live
<1>4. LinksOwn'
  BY DEF RowInv, LinksOwn, RowOf
<1>5. HandsOwn'
  BY <1>1 DEF RowInv, HandsOwn, LinksOwn, RowOf
<1>6. ScheduledAlone'
  BY <1>1, <1>2 DEF RowInv, ScheduledAlone, BeingScheduled
<1>7. LiveInHand'
  BY <1>1, <1>2, <1>3 DEF RowInv, LiveInHand
<1>8. LiveSettled'
  <2> SUFFICES ASSUME NEW r \in Rows, Live(r), queue[r].cand \notin twins'
               PROVE  \/ BeingScheduled(queue[r].cand)'
                      \/ cand[queue[r].cand].status \in Over /\ cand[queue[r].cand].link = r
    BY <1>3 DEF LiveSettled
  <2>1. CASE queue[r].cand = c
    BY <2>1, <1>1 DEF BeingScheduled
  <2>2. CASE queue[r].cand # c
    BY <2>2, <1>1, <1>2 DEF RowInv, LiveSettled, BeingScheduled
  <2> QED
    BY <2>1, <2>2
<1> QED
  BY <1>4, <1>5, <1>6, <1>7, <1>8 DEF RowInv
LEMMA RowBeginSchedule ==
  ASSUME TypeOK, RowInv, NEW p \in Taps, NEW c \in Cands, BeginSchedule(p, c)
  PROVE  RowInv'
<1>1. \A q \in Rows : Live(q) /\ queue[q].cand = c /\ c \notin twins => BeingScheduled(c)
  BY DEF RowInv, LiveSettled, BeginSchedule, Schedulable, Matches, Over, Closed
<1>2. CASE cand[c].link # 0
  BY <1>1, <1>2, BeginsAlone DEF BeginSchedule, Commands, SchedulingSteps
<1>3. CASE cand[c].link = 0
  BY <1>1, <1>3, BeginsAlone DEF BeginSchedule, Commands, SchedulingSteps
<1> QED
  BY <1>2, <1>3
LEMMA RowBeginCancel ==
  ASSUME TypeOK, RowInv, NEW p \in Taps, NEW c \in Cands, BeginCancel(p, c)
  PROVE  RowInv'
<1>1. \A q \in Rows : Live(q) /\ queue[q].cand = c /\ c \notin twins => BeingScheduled(c)
  BY DEF RowInv, LiveSettled, BeginCancel, Live
<1>2. /\ cand[c].link # 0 /\ "cancelRow" \in SchedulingSteps /\ p \in Commands
      /\ Start(p, c, "cancelRow", NoText) /\ NoteTwin(c) /\ UNCHANGED <<cand, queue>>
  BY DEF BeginCancel, Commands, SchedulingSteps
<1> QED
  BY <1>1, <1>2, BeginsAlone

\* A scheduling command goes from one of its steps to the next.
LEMMA RowPromoteRow ==
  ASSUME TypeOK, RowInv, NEW p \in Taps, PromoteRow(p)
  PROVE  RowInv'
<1> DEFINE l == saw[p].link
<1>1. /\ p \in Commands /\ pc[p] = "promoteRow" /\ RowOf(at[p], l)
      /\ UNCHANGED <<cand, at, saw, twins>>
      /\ \A r \in Commands : r # p => pc'[r] = pc[r]
      /\ pc'[p] \in {"finalize", "fetchRow"} /\ at[p] \in Cands
  BY DEF PromoteRow, Goto, RowInv, HandsOwn, SchedulingSteps, TypeOK, Commands, history
<1>2. /\ \A r \in Rows : queue'[r].cand = queue[r].cand
      /\ \A r \in Rows : r # l => queue'[r] = queue[r]
      /\ queue'[l].status # "absent"
      /\ Live(l)' => Live(l) \/ pc'[p] = "finalize"
  BY <1>1 DEF PromoteRow, SetRow, Live, TypeOK, Goto, RowOf
<1>3. \A d, r : RowOf(d, r) => RowOf(d, r)'
  BY <1>1, <1>2 DEF RowOf
<1>4. \A r \in Rows : Live(r)' => Live(r) \/ (r = l /\ pc'[p] = "finalize")
  BY <1>1, <1>2 DEF Live
<1>5. LinksOwn'
  BY <1>1, <1>3 DEF RowInv, LinksOwn
<1>6. HandsOwn'
  BY <1>1, <1>3 DEF RowInv, HandsOwn, SchedulingSteps
<1>7. ScheduledAlone'
  BY <1>1 DEF RowInv, ScheduledAlone, SchedulingSteps
<1>8. LiveInHand'
  <2> SUFFICES ASSUME NEW r \in Rows, Live(r)', queue[r].cand \notin twins,
                      NEW x \in Commands, at[x] = queue[r].cand, pc'[x] \in SchedulingSteps
               PROVE  pc'[x] = "finalize" /\ saw[x].link = r
    BY <1>1, <1>2 DEF LiveInHand
  <2>1. CASE Live(r)
    BY <2>1, <1>1 DEF RowInv, LiveInHand, SchedulingSteps
  <2>2. CASE r = l /\ pc'[p] = "finalize"
    BY <2>2, <1>1 DEF RowInv, ScheduledAlone, RowOf, SchedulingSteps
  <2> QED
    BY <2>1, <2>2, <1>4
<1>9. LiveSettled'
  <2> SUFFICES ASSUME NEW r \in Rows, Live(r)', queue[r].cand \notin twins
               PROVE  \/ BeingScheduled(queue[r].cand)'
                      \/ cand[queue[r].cand].status \in Over /\ cand[queue[r].cand].link = r
    BY <1>1, <1>2 DEF LiveSettled
  <2>1. BeingScheduled(queue[r].cand) => BeingScheduled(queue[r].cand)'
    BY <1>1, <1>2 DEF BeingScheduled, SchedulingSteps
  <2>2. r = l => BeingScheduled(queue[r].cand)'
    BY <1>1, <1>2 DEF BeingScheduled, SchedulingSteps, RowOf
  <2> QED
    BY <2>1, <2>2, <1>4 DEF RowInv, LiveSettled
<1> QED
  BY <1>5, <1>6, <1>7, <1>8, <1>9 DEF RowInv
LEMMA RowFetchRow ==
  ASSUME TypeOK, RowInv, NEW p \in Taps, FetchRow(p)
  PROVE  RowInv'
<1>1. /\ p \in Commands /\ pc[p] = "fetchRow" /\ RowOf(at[p], saw[p].link)
      /\ UNCHANGED <<cand, queue, at, saw, twins>>
      /\ \A r \in Commands : r # p => pc'[r] = pc[r]
      /\ pc'[p] \in {"finalize", "insertRow"}
      /\ \A r \in Rows : Live(r)' <=> Live(r)
  BY DEF FetchRow, Goto, RowInv, HandsOwn, SchedulingSteps, TypeOK, Commands, history, Live
<1>2. LinksOwn'
  BY <1>1 DEF RowInv, LinksOwn, RowOf
<1>3. HandsOwn'
  BY <1>1 DEF RowInv, HandsOwn, SchedulingSteps, RowOf
<1>4. ScheduledAlone'
  BY <1>1 DEF RowInv, ScheduledAlone, SchedulingSteps
<1>5. LiveInHand'
  BY <1>1 DEF RowInv, LiveInHand, SchedulingSteps
<1>6. \A c : BeingScheduled(c) => BeingScheduled(c)'
  BY <1>1 DEF BeingScheduled, SchedulingSteps
<1>7. LiveSettled'
  BY <1>1, <1>6 DEF RowInv, LiveSettled
<1> QED
  BY <1>2, <1>3, <1>4, <1>5, <1>7 DEF RowInv
LEMMA RowInsertRow ==
  ASSUME TypeOK, RowInv, NEW p \in Taps, NEW q \in Rows, InsertRow(p, q)
  PROVE  RowInv'
<1>1. /\ p \in Commands /\ pc[p] = "insertRow" /\ at[p] \in Cands
      /\ UNCHANGED <<cand, at, twins>>
      /\ \A r \in Commands : r # p => pc'[r] = pc[r] /\ saw'[r] = saw[r]
      /\ pc'[p] = "finalize" /\ saw'[p].link = q
      /\ queue[q].status = "absent"
      /\ queue'[q].cand = at[p] /\ queue'[q].status = "approved"
      /\ \A r \in Rows : r # q => queue'[r] = queue[r]
  BY DEF InsertRow, NextRow, TypeOK, CandRows, Commands, history
<1>2. \A d, r : RowOf(d, r) => RowOf(d, r)'
  BY <1>1 DEF RowOf
<1>3. \A r \in Rows : Live(r)' => r = q \/ (Live(r) /\ queue'[r] = queue[r])
  BY <1>1 DEF Live
<1>4. LinksOwn'
  BY <1>1, <1>2 DEF RowInv, LinksOwn
<1>5. HandsOwn'
  BY <1>1, <1>2 DEF RowInv, HandsOwn, RowOf
<1>6. ScheduledAlone'
  BY <1>1 DEF RowInv, ScheduledAlone, SchedulingSteps
<1>7. LiveInHand'
  <2> SUFFICES ASSUME NEW r \in Rows, Live(r)', queue'[r].cand \notin twins,
                      NEW x \in Commands, at[x] = queue'[r].cand, pc'[x] \in SchedulingSteps
               PROVE  pc'[x] = "finalize" /\ saw'[x].link = r
    BY <1>1 DEF LiveInHand
  <2>1. CASE r # q
    BY <2>1, <1>1, <1>3 DEF RowInv, LiveInHand, SchedulingSteps
  <2>2. CASE r = q
    BY <2>2, <1>1 DEF RowInv, ScheduledAlone, SchedulingSteps
  <2> QED
    BY <2>1, <2>2
<1>8. \A c : BeingScheduled(c) => BeingScheduled(c)'
  BY <1>1 DEF BeingScheduled, SchedulingSteps
<1>9. BeingScheduled(at[p])'
  BY <1>1 DEF BeingScheduled, SchedulingSteps
<1>10. LiveSettled'
  BY <1>1, <1>3, <1>8, <1>9 DEF RowInv, LiveSettled
<1> QED
  BY <1>4, <1>5, <1>6, <1>7, <1>10 DEF RowInv
LEMMA RowFinalize ==
  ASSUME TypeOK, RowInv, NEW p \in Taps, Finalize(p)
  PROVE  RowInv'
<1>1. /\ p \in Commands /\ pc[p] = "finalize" /\ at[p] \in Cands /\ RowOf(at[p], saw[p].link)
      /\ UNCHANGED <<queue, at, twins>>
      /\ \A r \in Commands : r # p => pc'[r] = pc[r] /\ saw'[r] = saw[r]
      /\ pc'[p] = "idle"
      /\ \A d \in Cands : d # at[p] =>
           cand'[d].status = cand[d].status /\ cand'[d].link = cand[d].link
      /\ cand'[at[p]].status = "queued" /\ cand'[at[p]].link = saw[p].link
      /\ \A r \in Rows : Live(r)' <=> Live(r)
      /\ \A r \in Rows : queue[r].cand \in Cands
  BY FinalizeEffect DEF FinalizeEffect1, RowInv, HandsOwn, SchedulingSteps, TypeOK, Commands,
      Live
<1>2. LinksOwn'
  BY <1>1 DEF RowInv, LinksOwn, RowOf
<1>3. HandsOwn'
  BY <1>1 DEF RowInv, HandsOwn, SchedulingSteps, RowOf
<1>4. ScheduledAlone'
  BY <1>1 DEF RowInv, ScheduledAlone, SchedulingSteps
<1>5. LiveInHand'
  BY <1>1 DEF RowInv, LiveInHand, SchedulingSteps
<1>6. LiveSettled'
  <2> SUFFICES ASSUME NEW r \in Rows, Live(r), queue[r].cand \notin twins
               PROVE  \/ BeingScheduled(queue[r].cand)'
                      \/ cand'[queue[r].cand].status \in Over /\ cand'[queue[r].cand].link = r
    BY <1>1 DEF LiveSettled
  <2>1. CASE queue[r].cand = at[p]
    BY <2>1, <1>1 DEF RowInv, LiveInHand, SchedulingSteps, Over
  <2>2. CASE queue[r].cand # at[p]
    BY <2>2, <1>1 DEF RowInv, LiveSettled, BeingScheduled
  <2> QED
    BY <2>1, <2>2
<1> QED
  BY <1>2, <1>3, <1>4, <1>5, <1>6 DEF RowInv

\* A row fails or is published, or a command is killed.
LEMMA RowCancelRow ==
  ASSUME TypeOK, RowInv, NEW p \in Taps, CancelRow(p)
  PROVE  RowInv'
<1> DEFINE l == saw[p].link
<1>1. /\ p \in Commands /\ pc[p] = "cancelRow" /\ at[p] \in Cands /\ RowOf(at[p], l)
      /\ UNCHANGED <<cand, at, twins>>
      /\ \A r \in Commands : r # p => pc'[r] = pc[r] /\ saw'[r] = saw[r]
      /\ pc'[p] = "idle"
  BY DEF CancelRow, Leave, RowInv, HandsOwn, SchedulingSteps, TypeOK, Commands, history
<1>2. /\ \A r \in Rows : queue'[r].cand = queue[r].cand
      /\ \A r \in Rows : r # l => queue'[r] = queue[r]
      /\ queue'[l].status = "failed"
  BY <1>1 DEF CancelRow, SetRow, TypeOK, RowOf
<1>3. \A d, r : RowOf(d, r) => RowOf(d, r)'
  BY <1>1, <1>2 DEF RowOf
<1>4. \A r \in Rows : Live(r)' => Live(r)
  BY <1>2 DEF Live
<1>5. LinksOwn'
  BY <1>1, <1>3 DEF RowInv, LinksOwn
<1>6. HandsOwn'
  BY <1>1, <1>3 DEF RowInv, HandsOwn, SchedulingSteps
<1>7. ScheduledAlone'
  BY <1>1 DEF RowInv, ScheduledAlone, SchedulingSteps
<1>8. LiveInHand'
  BY <1>1, <1>2, <1>4 DEF RowInv, LiveInHand, SchedulingSteps
<1>9. LiveSettled'
  <2> SUFFICES ASSUME NEW r \in Rows, Live(r), queue[r].cand \notin twins
               PROVE  \/ BeingScheduled(queue[r].cand)'
                      \/ cand[queue[r].cand].status \in Over /\ cand[queue[r].cand].link = r
    BY <1>1, <1>2, <1>4 DEF LiveSettled
  <2>1. queue[r].cand # at[p]
    BY <1>1 DEF RowInv, LiveInHand, SchedulingSteps
  <2> QED
    BY <2>1, <1>1, <1>2 DEF RowInv, LiveSettled, BeingScheduled
<1> QED
  BY <1>5, <1>6, <1>7, <1>8, <1>9 DEF RowInv
LEMMA RowPublish ==
  ASSUME TypeOK, RowInv, NEW q \in Rows, Publish(q)
  PROVE  RowInv'
<1>1. /\ UNCHANGED <<cand, pc, at, saw, twins>>
      /\ \A r \in Rows : queue'[r].cand = queue[r].cand
      /\ \A r \in Rows : r # q => queue'[r] = queue[r]
      /\ Live(q) /\ queue'[q].status # "absent"
  BY DEF Publish, SetRow, TypeOK, commands, history, Live
<1>2. \A d, r : RowOf(d, r) => RowOf(d, r)'
  BY <1>1 DEF RowOf
<1>3. \A r \in Rows : Live(r)' => Live(r)
  BY <1>1 DEF Live
<1>4. LinksOwn' /\ HandsOwn' /\ ScheduledAlone'
  BY <1>1, <1>2 DEF RowInv, LinksOwn, HandsOwn, ScheduledAlone
<1>5. LiveInHand' /\ LiveSettled'
  BY <1>1, <1>3 DEF RowInv, LiveInHand, LiveSettled, BeingScheduled
<1> QED
  BY <1>4, <1>5 DEF RowInv
LEMMA RowCrash ==
  ASSUME TypeOK, RowInv, NEW p \in Commands, Crash(p)
  PROVE  RowInv'
<1>1. /\ UNCHANGED <<cand, queue, at>>
      /\ \A r \in Commands : r # p => pc'[r] = pc[r] /\ saw'[r] = saw[r]
      /\ pc'[p] = "idle"
      /\ twins \subseteq twins'
      /\ pc[p] \in SchedulingSteps => at[p] \in twins'
      /\ \A r \in Rows : Live(r)' <=> Live(r)
  BY DEF Crash, Leave, TypeOK, Live
<1>2. LinksOwn'
  BY <1>1 DEF RowInv, LinksOwn, RowOf
<1>3. HandsOwn'
  BY <1>1 DEF RowInv, HandsOwn, SchedulingSteps, RowOf
<1>4. ScheduledAlone'
  BY <1>1 DEF RowInv, ScheduledAlone, SchedulingSteps
<1>5. LiveInHand'
  BY <1>1 DEF RowInv, LiveInHand, SchedulingSteps
<1>6. LiveSettled'
  BY <1>1 DEF RowInv, LiveSettled, BeingScheduled
<1> QED
  BY <1>2, <1>3, <1>4, <1>5, <1>6 DEF RowInv

LEMMA RowStep == TypeOK /\ RowInv /\ [Next]_trendVars => RowInv'
<1> SUFFICES ASSUME TypeOK, RowInv, [Next]_trendVars PROVE RowInv'
  OBVIOUS
<1>1. CASE UNCHANGED trendVars
  BY <1>1 DEF RowInv, LinksOwn, HandsOwn, ScheduledAlone, LiveInHand, LiveSettled, RowOf, Live,
      BeingScheduled, trendVars, commands, history
<1>2. CASE Next
  <2>n. Next
    BY <1>2
  <2>1. ASSUME NEW c \in Cands, Insert(c) PROVE RowInv'
    BY <2>1, AsideInsert, AsideKeeps
  <2>2. ASSUME NEW c \in Cands, InsertUnstamped(c) PROVE RowInv'
    BY <2>2, AsideInsertUnstamped, AsideKeeps
  <2>3. ASSUME NEW c \in Cands, NEW q \in Rows, InsertLinked(c, q) PROVE RowInv'
    BY <2>3, RowInsertLinked
  <2>4. ASSUME NEW c \in Cands, Refuse(c) PROVE RowInv'
    BY <2>4, AsideRefuse, AsideKeeps
  <2>5. ASSUME NEW c \in Cands, TimeOut(c) PROVE RowInv'
    BY <2>5, AsideTimeOut, AsideKeeps
  <2>6. ASSUME NEW c \in Cands, ShowBacklog(c) PROVE RowInv'
    BY <2>6, AsideShowBacklog, AsideKeeps
  <2>7. ASSUME NEW p \in Passes, NEW c \in Cands, BeginDraft(p, c) PROVE RowInv'
    BY <2>7, AsideBeginDraft, AsideKeeps
  <2>8. ASSUME NEW p \in Passes, NEW c \in Cands, BeginResend(p, c) PROVE RowInv'
    BY <2>8, AsideBeginResend, AsideKeeps
  <2>9. ASSUME NEW p \in Passes, Irrelevant(p) PROVE RowInv'
    BY <2>9, AsideIrrelevant, AsideKeeps
  <2>10. ASSUME NEW p \in Passes, Stage(p) PROVE RowInv'
    BY <2>10, AsideStage, AsideKeeps
  <2>11. ASSUME NEW p \in Passes, Claim(p) PROVE RowInv'
    BY <2>11, AsideClaim, AsideKeeps
  <2>12. ASSUME NEW p \in Passes, SendCard(p) PROVE RowInv'
    BY <2>12, AsideSendCard, AsideKeeps
  <2>13. ASSUME NEW p \in Passes, CardFails(p) PROVE RowInv'
    BY <2>13, AsideCardFails, AsideKeeps
  <2>14. ASSUME NEW p \in Passes, Release(p) PROVE RowInv'
    BY <2>14, AsideRelease, AsideKeeps
  <2>15. ASSUME NEW p \in Passes, Promote(p) PROVE RowInv'
    BY <2>15, AsidePromote, AsideKeeps
  <2>16. ASSUME NEW p \in Passes, RefRead(p) PROVE RowInv'
    BY <2>16, AsideRefRead, AsideKeeps
  <2>17. ASSUME NEW p \in Passes, RefWrite(p) PROVE RowInv'
    BY <2>17, AsideRefWrite, AsideKeeps
  <2>18. ASSUME NEW p \in Taps, NEW c \in Cands, BeginApprove(p, c) PROVE RowInv'
    BY <2>18, AsideBeginApprove, AsideKeeps
  <2>19. ASSUME NEW p \in Taps, NEW c \in Cands, BeginUse(p, c) PROVE RowInv'
    BY <2>19, AsideBeginUse, AsideKeeps
  <2>20. ASSUME NEW p \in Taps, NEW c \in Cands, BeginRefresh(p, c) PROVE RowInv'
    BY <2>20, AsideBeginRefresh, AsideKeeps
  <2>21. ASSUME NEW p \in Taps, NEW c \in Cands, BeginRaw(p, c) PROVE RowInv'
    BY <2>21, AsideBeginRaw, AsideKeeps
  <2>22. ASSUME NEW p \in Taps, NEW c \in Cands, BeginSchedule(p, c) PROVE RowInv'
    BY <2>22, RowBeginSchedule
  <2>23. ASSUME NEW p \in Taps, NEW c \in Cands, BeginCancel(p, c) PROVE RowInv'
    BY <2>23, RowBeginCancel
  <2>24. ASSUME NEW p \in Taps, NEW c \in Cands, NEW t \in Texts, BeginEdit(p, c,
      t) PROVE RowInv'
    BY <2>24, AsideBeginEdit, AsideKeeps
  <2>25. ASSUME NEW p \in Taps, SaveDecision(p) PROVE RowInv'
    BY <2>25, AsideSaveDecision, AsideKeeps
  <2>26. ASSUME NEW p \in Taps, SaveDraft(p) PROVE RowInv'
    BY <2>26, AsideSaveDraft, AsideKeeps
  <2>27. ASSUME NEW p \in Taps, RawWrite(p) PROVE RowInv'
    BY <2>27, AsideRawWrite, AsideKeeps
  <2>28. ASSUME NEW p \in Taps, PromoteRow(p) PROVE RowInv'
    BY <2>28, RowPromoteRow
  <2>29. ASSUME NEW p \in Taps, FetchRow(p) PROVE RowInv'
    BY <2>29, RowFetchRow
  <2>30. ASSUME NEW p \in Taps, Finalize(p) PROVE RowInv'
    BY <2>30, RowFinalize
  <2>31. ASSUME NEW p \in Taps, CancelRow(p) PROVE RowInv'
    BY <2>31, RowCancelRow
  <2>32. ASSUME NEW p \in Taps, NEW q \in Rows, InsertRow(p, q) PROVE RowInv'
    BY <2>32, RowInsertRow
  <2>33. ASSUME NEW q \in Rows, Publish(q) PROVE RowInv'
    BY <2>33, RowPublish
  <2>34. ASSUME NEW p \in Commands, Crash(p) PROVE RowInv'
    BY <2>34, RowCrash
  <2> QED
    BY <2>n, <2>1, <2>2, <2>3, <2>4, <2>5, <2>6, <2>7, <2>8, <2>9, <2>10, <2>11, <2>12, <2>13,
        <2>14, <2>15, <2>16, <2>17, <2>18, <2>19, <2>20, <2>21, <2>22, <2>23, <2>24, <2>25,
            <2>26, <2>27, <2>28, <2>29, <2>30, <2>31, <2>32, <2>33, <2>34 DEF Next, PassStep,
                TapStep, BeginTap
<1> QED
  BY <1>1, <1>2
LEMMA RowInit == Init => RowInv
<1> SUFFICES ASSUME Init PROVE RowInv
  OBVIOUS
<1>1. /\ \A c \in Cands : cand[c].link = 0
      /\ \A p \in Commands : pc[p] \notin SchedulingSteps
      /\ \A q \in Rows : queue[q].status = "absent"
  BY DEF Init, NoCand, NoRow, SchedulingSteps
<1> QED
  BY <1>1 DEF RowInv, LinksOwn, HandsOwn, ScheduledAlone, LiveInHand, LiveSettled, Live
LEMMA RowAlways == Spec => []RowInv
<1>1. TypeOK /\ RowInv /\ [Next]_trendVars => RowInv'
  BY RowStep
<1> QED
  BY RowInit, <1>1, TypeCorrect, PTL DEF Spec

LEMMA RowInvGivesOne ==
  ASSUME TypeOK, RowInv
  PROVE  OneRowUnlessTwins
<1> SUFFICES ASSUME NEW c \in Cands, c \notin twins
             PROVE  ~(Cardinality(LiveRows(c)) > 1)
  BY DEF OneRowUnlessTwins
<1>1. \A q, r \in LiveRows(c) : q = r
  BY DEF LiveRows, RowInv, LiveInHand, LiveSettled, Live, BeingScheduled
<1>2. CASE LiveRows(c) = {}
  <2>1. Cardinality(LiveRows(c)) = 0
    BY <1>2, FS_EmptySet, Zenon
  <2> QED
    BY <2>1
<1>3. CASE LiveRows(c) # {}
  <2>1. PICK q : LiveRows(c) = {q}
    BY <1>1, <1>3
  <2>2. Cardinality(LiveRows(c)) = 1
    BY <2>1, FS_Singleton, Zenon
  <2> QED
    BY <2>2
<1> QED
  BY <1>2, <1>3

\* One live publish-queue row per candidate, however the scheduling buttons, the
\* cancellation of an older draft row, the publisher and the drafting passes
\* interleave, unless two scheduling commands of it overlapped or one was killed.
THEOREM OneRowEach == Spec => []OneRowUnlessTwins
<1>1. TypeOK /\ RowInv => OneRowUnlessTwins
  BY RowInvGivesOne
<1> QED
  BY <1>1, TypeCorrect, RowAlways, PTL
=============================================================================
