--------------------------- MODULE OwnReply_proofs ---------------------------
(***************************************************************************)
(* Theorems about OwnReply, for every set of replies, texts, scans and     *)
(* publishers, every retry limit and every bound on failures.              *)
(***************************************************************************)
EXTENDS OwnReply, TLAPS

-----------------------------------------------------------------------------
(***************************************************************************)
(* The inductive invariant, in the parts the theorems need.                *)
(***************************************************************************)

\* A publisher that is past its claim owns the row, and nobody else does.
OneHolder ==
  \A p, q \in Publishers :
    pc[p] \in HeldSteps /\ pc[q] \in HeldSteps /\ at[p] = at[q] => p = q

\* The row it owns is in posting; only a posted write whose answer was lost puts it
\* further.
HolderStatus ==
  \A p \in Publishers :
    pc[p] \in HeldSteps =>
      /\ status[at[p]] = "posting" \/ (pc[p] = "giveUp" /\ status[at[p]] = "posted")
      /\ at[p] \notin orphans

OrphansStatus == \A r \in orphans : status[r] \in {"posting", "posted"}

\* Scans do not publish, publishers do not draft.
Roles ==
  /\ \A p \in Scans : pc[p] \notin HeldSteps \cup {"claim"}
  /\ \A p \in Publishers : pc[p] \in HeldSteps \cup {"claim", "idle"}

Holding == Roles /\ OneHolder /\ HolderStatus /\ OrphansStatus /\ PostingHeld

\* An answer above the unsure ones stands where nobody can claim the row.
Accounted ==
  \A r \in Replies :
    \/ sent[r] <= unsure[r]
    \/ /\ sent[r] = unsure[r] + 1
       /\ \/ status[r] = "posted"
          \/ /\ status[r] = "posting"
             /\ r \in orphans \/ \E p \in Publishers : at[p] = r /\ pc[p] = "record"

BeforeDecision == {"absent", "discovered", "pending_approval"}

\* The count on the row bounds the calls, and an approved row has one left.
Counted ==
  \A r \in Replies :
    /\ status[r] \in BeforeDecision => attempts[r] = 0 /\ tries[r] = 0
    /\ r \notin stale =>
         /\ tries[r] <= attempts[r] /\ attempts[r] <= MaxAttempts
         /\ status[r] = "approved" => attempts[r] < MaxAttempts

HolderCount ==
  \A p \in Publishers :
    pc[p] \in HeldSteps =>
      /\ count[p] = attempts[at[p]]
      /\ pc[p] = "publish" /\ at[p] \notin stale => tries[at[p]] < attempts[at[p]]

\* A card is on its way from one scan only, for a row that has had none.
CardOnItsWay ==
  /\ \A r \in Replies :
       status[r] \in {"absent", "discovered"} => cards[r] = 0 /\ r \notin cardless
  /\ \A p \in Scans :
       pc[p] = "card" =>
         /\ status[at[p]] \notin {"absent", "discovered"}
         /\ cards[at[p]] = 0 /\ at[p] \notin cardless
  /\ \A p, q \in Scans : pc[p] = "card" /\ pc[q] = "card" /\ at[p] = at[q] => p = q


-----------------------------------------------------------------------------
(***************************************************************************)
(* Type correctness.                                                       *)
(***************************************************************************)

RowsTyped ==
  /\ status \in [Replies -> ReplyStatuses]
  /\ proposed \in [Replies -> Answers \cup {NoAnswer}]
  /\ attempts \in [Replies -> Nat]
  /\ intent \in [Replies -> {"none", "lead", "other"}]
  /\ linked \subseteq Replies /\ opps \subseteq Replies
WorkTyped ==
  /\ pc \in [Workers -> Steps] /\ at \in [Workers -> Replies]
  /\ count \in [Workers -> Nat] /\ again \in [Workers -> BOOLEAN]
PastTyped ==
  /\ nameless \subseteq Replies
  /\ gone \subseteq Replies /\ faults \in Nat
  /\ cards \in [Replies -> Nat] /\ sent \in [Replies -> Nat]
  /\ tries \in [Replies -> Nat] /\ unsure \in [Replies -> Nat]
MarksTyped ==
  /\ lastDraft \in [Replies -> Answers \cup {NoAnswer}]
  /\ orphans \subseteq Replies /\ cardless \subseteq Replies /\ stale \subseteq Replies

LEMMA Typed == TypeOK <=> RowsTyped /\ WorkTyped /\ PastTyped /\ MarksTyped
BY DEF TypeOK, RowsTyped, WorkTyped, PastTyped, MarksTyped

LEMMA GotoType ==
  ASSUME WorkTyped, NEW p \in Workers, NEW s \in Steps, Goto(p, s)
  PROVE  WorkTyped'
<1>1. pc' \in [Workers -> Steps] /\ at' \in [Workers -> Replies]
  BY DEF WorkTyped, Goto
<1>2. CASE s = "idle"
  <2>1. count' \in [Workers -> Nat]
    BY <1>2 DEF WorkTyped, Goto
  <2>2. again' \in [Workers -> BOOLEAN]
    BY <1>2 DEF WorkTyped, Goto
  <2> QED
    BY <1>1, <2>1, <2>2 DEF WorkTyped
<1>3. CASE s # "idle"
  <2>1. count' \in [Workers -> Nat] /\ again' \in [Workers -> BOOLEAN]
    BY <1>3 DEF WorkTyped, Goto
  <2> QED
    BY <1>1, <2>1 DEF WorkTyped
<1> QED
  BY <1>2, <1>3


LEMMA TypeDiscover ==
  ASSUME TypeOK, NEW r \in Replies, Discover(r)
  PROVE  TypeOK'
<1>1. RowsTyped'
  BY Typed DEF Discover, In, Move, Sound, workVars, ghosts, RowsTyped, ReplyStatuses, WorkTyped
<1>2. WorkTyped'
  BY Typed DEF Discover, In, Move, Sound, workVars, ghosts, WorkTyped, RowsTyped, Steps, HeldSteps
<1>3. PastTyped'
  BY Typed DEF Discover, In, Move, Sound, workVars, ghosts, PastTyped
<1>4. MarksTyped'
  BY Typed DEF Discover, In, Move, Sound, workVars, ghosts, MarksTyped, RowsTyped
<1> QED
  BY <1>1, <1>2, <1>3, <1>4 DEF TypeOK, RowsTyped, WorkTyped, PastTyped, MarksTyped

LEMMA TypeUnlist ==
  ASSUME TypeOK, NEW r \in Replies, Unlist(r)
  PROVE  TypeOK'
<1>1. RowsTyped'
  BY Typed DEF Unlist, In, rowVars, workVars, ghosts, RowsTyped, ReplyStatuses, WorkTyped
<1>2. WorkTyped'
  BY Typed DEF Unlist, In, rowVars, workVars, ghosts, WorkTyped, RowsTyped, Steps, HeldSteps
<1>3. PastTyped'
  BY Typed DEF Unlist, In, rowVars, workVars, ghosts, PastTyped
<1>4. MarksTyped'
  BY Typed DEF Unlist, In, rowVars, workVars, ghosts, MarksTyped, RowsTyped
<1> QED
  BY <1>1, <1>2, <1>3, <1>4 DEF TypeOK, RowsTyped, WorkTyped, PastTyped, MarksTyped

LEMMA TypeDecide ==
  ASSUME TypeOK, NEW r \in Replies, Decide(r)
  PROVE  TypeOK'
<1>1. RowsTyped'
  BY Typed DEF Decide, In, Move, Sound, workVars, Open, RowsTyped, ReplyStatuses, WorkTyped
<1>2. WorkTyped'
  BY Typed DEF Decide, In, Move, Sound, workVars, Open, WorkTyped, RowsTyped, Steps, HeldSteps
<1>3. PastTyped'
  BY Typed DEF Decide, In, Move, Sound, workVars, Open, PastTyped
<1>4. MarksTyped'
  BY Typed DEF Decide, In, Move, Sound, workVars, Open, MarksTyped, RowsTyped
<1> QED
  BY <1>1, <1>2, <1>3, <1>4 DEF TypeOK, RowsTyped, WorkTyped, PastTyped, MarksTyped

LEMMA TypeEdit ==
  ASSUME TypeOK, NEW r \in Replies, NEW t \in Answers, Edit(r, t)
  PROVE  TypeOK'
<1>1. RowsTyped'
  BY Typed DEF Edit, In, Sound, workVars, ghosts, Editable, RowsTyped, ReplyStatuses, WorkTyped
<1>2. WorkTyped'
  BY Typed DEF Edit, In, Sound, workVars, ghosts, Editable, WorkTyped, RowsTyped, Steps, HeldSteps
<1>3. PastTyped'
  BY Typed DEF Edit, In, Sound, workVars, ghosts, Editable, PastTyped
<1>4. MarksTyped'
  BY Typed DEF Edit, In, Sound, workVars, ghosts, Editable, MarksTyped, RowsTyped
<1> QED
  BY <1>1, <1>2, <1>3, <1>4 DEF TypeOK, RowsTyped, WorkTyped, PastTyped, MarksTyped

LEMMA TypeBeginScan ==
  ASSUME TypeOK, NEW p \in Scans, NEW r \in Replies, BeginScan(p, r)
  PROVE  TypeOK'
<1>0. p \in Workers /\ at[p] \in Replies
  BY DEF TypeOK, Workers
<1>1. RowsTyped'
  BY <1>0, Typed DEF BeginScan, In, Sound, rowVars, ghosts, RowsTyped, ReplyStatuses, WorkTyped
<1>2. WorkTyped'
  BY <1>0, Typed DEF BeginScan, In, Sound, rowVars, ghosts, WorkTyped, RowsTyped, Steps, HeldSteps
<1>3. PastTyped'
  BY <1>0, Typed DEF BeginScan, In, Sound, rowVars, ghosts, PastTyped
<1>4. MarksTyped'
  BY <1>0, Typed DEF BeginScan, In, Sound, rowVars, ghosts, MarksTyped, RowsTyped
<1> QED
  BY <1>1, <1>2, <1>3, <1>4 DEF TypeOK, RowsTyped, WorkTyped, PastTyped, MarksTyped

LEMMA TypeBeginBackfill ==
  ASSUME TypeOK, NEW p \in Scans, NEW r \in Replies, BeginBackfill(p, r)
  PROVE  TypeOK'
<1>0. p \in Workers /\ at[p] \in Replies
  BY DEF TypeOK, Workers
<1>1. RowsTyped'
  BY <1>0, Typed DEF BeginBackfill, In, Sound, rowVars, ghosts, Leads, Unclassified, RowsTyped,
      ReplyStatuses, WorkTyped
<1>2. WorkTyped'
  BY <1>0, Typed DEF BeginBackfill, In, Sound, rowVars, ghosts, Leads, Unclassified, WorkTyped,
      RowsTyped, Steps, HeldSteps
<1>3. PastTyped'
  BY <1>0, Typed DEF BeginBackfill, In, Sound, rowVars, ghosts, Leads, Unclassified, PastTyped
<1>4. MarksTyped'
  BY <1>0, Typed DEF BeginBackfill, In, Sound, rowVars, ghosts, Leads, Unclassified, MarksTyped,
      RowsTyped
<1> QED
  BY <1>1, <1>2, <1>3, <1>4 DEF TypeOK, RowsTyped, WorkTyped, PastTyped, MarksTyped

LEMMA TypeClassify ==
  ASSUME TypeOK, NEW p \in Scans, Classify(p)
  PROVE  TypeOK'
<1>0. p \in Workers /\ at[p] \in Replies
  BY DEF TypeOK, Workers
<1>1. RowsTyped'
  BY <1>0, Typed DEF Classify, Goto, Sound, ghosts, AfterClassify, Leads, RowsTyped,
      ReplyStatuses, WorkTyped
<1>2. WorkTyped'
  BY <1>0, GotoType, Typed DEF Classify, Sound, ghosts, AfterClassify, Leads, Steps, HeldSteps,
      Workers
<1>3. PastTyped'
  BY <1>0, Typed DEF Classify, Goto, Sound, ghosts, AfterClassify, Leads, PastTyped
<1>4. MarksTyped'
  BY <1>0, Typed DEF Classify, Goto, Sound, ghosts, AfterClassify, Leads, MarksTyped, RowsTyped
<1> QED
  BY <1>1, <1>2, <1>3, <1>4 DEF TypeOK, RowsTyped, WorkTyped, PastTyped, MarksTyped

LEMMA TypeCreate ==
  ASSUME TypeOK, NEW p \in Scans, Create(p)
  PROVE  TypeOK'
<1>0. p \in Workers /\ at[p] \in Replies
  BY DEF TypeOK, Workers
<1>1. RowsTyped'
  BY <1>0, Typed DEF Create, Goto, AfterClassify, Sound, ghosts, RowsTyped, ReplyStatuses, WorkTyped
<1>2. WorkTyped'
  BY <1>0, GotoType, Typed DEF Create, AfterClassify, Sound, ghosts, Steps, HeldSteps, Workers
<1>3. PastTyped'
  BY <1>0, Typed DEF Create, Goto, AfterClassify, Sound, ghosts, PastTyped
<1>4. MarksTyped'
  BY <1>0, Typed DEF Create, Goto, AfterClassify, Sound, ghosts, MarksTyped, RowsTyped
<1> QED
  BY <1>1, <1>2, <1>3, <1>4 DEF TypeOK, RowsTyped, WorkTyped, PastTyped, MarksTyped

\* What a step of create_dm_opportunity leaves to the other properties: its scan
\* moves on among steps that neither publish nor send a card.
LEMMA CreateStep ==
  ASSUME TypeOK, NEW p \in Scans, Create(p)
  PROVE  /\ p \in Workers
         /\ pc[p] \in {"create", "recreate"} /\ pc'[p] \in {"link", "relink", "draft", "idle"}
         /\ \A x \in Workers : x # p => pc'[x] = pc[x] /\ count'[x] = count[x]
         /\ at' = at /\ pc' \in [Workers -> Steps] /\ count' \in [Workers -> Nat]
         /\ UNCHANGED <<status, attempts, cards, sent, tries, unsure, orphans, cardless, stale>>
<1>0. p \in Workers /\ pc \in [Workers -> Steps] /\ count \in [Workers -> Nat]
  BY DEF TypeOK, Workers
<1>1. PICK s \in {"link", "relink", "draft", "idle"} : Goto(p, s)
  BY <1>0 DEF Create, AfterClassify
<1>2. pc' = [pc EXCEPT ![p] = s] /\ at' = at
  BY <1>1 DEF Goto
<1>3. count' = count \/ count' = [count EXCEPT ![p] = 0]
  BY <1>1 DEF Goto
<1>4. pc[p] \in {"create", "recreate"}
  BY DEF Create
<1>5. UNCHANGED <<status, attempts, cards, sent, tries, unsure, orphans, cardless, stale>>
  BY DEF Create, ghosts
<1>6. TypeOK'
  BY TypeCreate
<1> QED
  BY <1>0, <1>2, <1>3, <1>4, <1>5, <1>6 DEF TypeOK

LEMMA TypeLink ==
  ASSUME TypeOK, NEW p \in Scans, Link(p)
  PROVE  TypeOK'
<1>0. p \in Workers /\ at[p] \in Replies
  BY DEF TypeOK, Workers
<1>1. RowsTyped'
  BY <1>0, Typed DEF Link, Goto, Sound, ghosts, AfterClassify, RowsTyped, ReplyStatuses, WorkTyped
<1>2. WorkTyped'
  BY <1>0, GotoType, Typed DEF Link, Sound, ghosts, AfterClassify, Steps, HeldSteps, Workers
<1>3. PastTyped'
  BY <1>0, Typed DEF Link, Goto, Sound, ghosts, AfterClassify, PastTyped
<1>4. MarksTyped'
  BY <1>0, Typed DEF Link, Goto, Sound, ghosts, AfterClassify, MarksTyped, RowsTyped
<1> QED
  BY <1>1, <1>2, <1>3, <1>4 DEF TypeOK, RowsTyped, WorkTyped, PastTyped, MarksTyped

LEMMA TypeClassifyFails ==
  ASSUME TypeOK, NEW p \in Scans, ClassifyFails(p)
  PROVE  TypeOK'
<1>0. p \in Workers /\ at[p] \in Replies
  BY DEF TypeOK, Workers
<1>1. RowsTyped'
  BY <1>0, Typed DEF ClassifyFails, Goto, Fault, ghosts, AfterClassify, RowsTyped, ReplyStatuses,
      WorkTyped
<1>2. WorkTyped'
  BY <1>0, GotoType, Typed DEF ClassifyFails, Fault, ghosts, AfterClassify, Steps, HeldSteps,
      Workers
<1>3. PastTyped'
  BY <1>0, Typed DEF ClassifyFails, Goto, Fault, ghosts, AfterClassify, PastTyped
<1>4. MarksTyped'
  BY <1>0, Typed DEF ClassifyFails, Goto, Fault, ghosts, AfterClassify, MarksTyped, RowsTyped
<1> QED
  BY <1>1, <1>2, <1>3, <1>4 DEF TypeOK, RowsTyped, WorkTyped, PastTyped, MarksTyped

LEMMA TypePropose ==
  ASSUME TypeOK, NEW p \in Scans, Propose(p)
  PROVE  TypeOK'
<1>0. p \in Workers /\ at[p] \in Replies
  BY DEF TypeOK, Workers
<1>1. RowsTyped'
  BY <1>0, Typed DEF Propose, In, Move, Goto, Sound, ghosts, Proposable, RowsTyped, ReplyStatuses,
      WorkTyped
<1>2. WorkTyped'
  BY <1>0, GotoType, Typed DEF Propose, In, Move, Sound, ghosts, Proposable, Steps, HeldSteps,
      Workers
<1>3. PastTyped'
  BY <1>0, Typed DEF Propose, In, Move, Goto, Sound, ghosts, Proposable, PastTyped
<1>4. MarksTyped'
  BY <1>0, Typed DEF Propose, In, Move, Goto, Sound, ghosts, Proposable, MarksTyped, RowsTyped
<1> QED
  BY <1>1, <1>2, <1>3, <1>4 DEF TypeOK, RowsTyped, WorkTyped, PastTyped, MarksTyped

LEMMA TypeProposeFails ==
  ASSUME TypeOK, NEW p \in Scans, ProposeFails(p)
  PROVE  TypeOK'
<1>0. p \in Workers /\ at[p] \in Replies
  BY DEF TypeOK, Workers
<1>1. RowsTyped'
  BY <1>0, Typed DEF ProposeFails, In, Move, Goto, Fault, Proposable, RowsTyped, ReplyStatuses,
      WorkTyped
<1>2. WorkTyped'
  BY <1>0, GotoType, Typed DEF ProposeFails, In, Move, Fault, Proposable, Steps, HeldSteps,
      Workers
<1>3. PastTyped'
  BY <1>0, Typed DEF ProposeFails, In, Move, Goto, Fault, Proposable, PastTyped
<1>4. MarksTyped'
  BY <1>0, Typed DEF ProposeFails, In, Move, Goto, Fault, Proposable, MarksTyped, RowsTyped
<1> QED
  BY <1>1, <1>2, <1>3, <1>4 DEF TypeOK, RowsTyped, WorkTyped, PastTyped, MarksTyped

LEMMA TypeSendCard ==
  ASSUME TypeOK, NEW p \in Scans, SendCard(p)
  PROVE  TypeOK'
<1>0. p \in Workers /\ at[p] \in Replies
  BY DEF TypeOK, Workers
<1>1. RowsTyped'
  BY <1>0, Typed DEF SendCard, Goto, Sound, Fault, rowVars, RowsTyped, ReplyStatuses, WorkTyped
<1>2. WorkTyped'
  BY <1>0, GotoType, Typed DEF SendCard, Sound, Fault, rowVars, Steps, HeldSteps, Workers
<1>3. PastTyped'
  BY <1>0, Typed DEF SendCard, Goto, Sound, Fault, rowVars, PastTyped
<1>4. MarksTyped'
  BY <1>0, Typed DEF SendCard, Goto, Sound, Fault, rowVars, MarksTyped, RowsTyped
<1> QED
  BY <1>1, <1>2, <1>3, <1>4 DEF TypeOK, RowsTyped, WorkTyped, PastTyped, MarksTyped

LEMMA TypeBeginPublish ==
  ASSUME TypeOK, NEW p \in Publishers, NEW r \in Replies, BeginPublish(p, r)
  PROVE  TypeOK'
<1>0. p \in Workers /\ at[p] \in Replies
  BY DEF TypeOK, Workers
<1>1. RowsTyped'
  BY <1>0, Typed DEF BeginPublish, In, Sound, rowVars, ghosts, RowsTyped, ReplyStatuses, WorkTyped
<1>2. WorkTyped'
  BY <1>0, Typed DEF BeginPublish, In, Sound, rowVars, ghosts, WorkTyped, RowsTyped, Steps,
      HeldSteps
<1>3. PastTyped'
  BY <1>0, Typed DEF BeginPublish, In, Sound, rowVars, ghosts, PastTyped
<1>4. MarksTyped'
  BY <1>0, Typed DEF BeginPublish, In, Sound, rowVars, ghosts, MarksTyped, RowsTyped
<1> QED
  BY <1>1, <1>2, <1>3, <1>4 DEF TypeOK, RowsTyped, WorkTyped, PastTyped, MarksTyped

LEMMA TypeClaim ==
  ASSUME TypeOK, NEW p \in Publishers, Claim(p)
  PROVE  TypeOK'
<1>0. p \in Workers /\ at[p] \in Replies
  BY DEF TypeOK, Workers
<1>1. RowsTyped'
  BY <1>0, Typed DEF Claim, In, Move, Goto, Sound, Claimable, RowsTyped, ReplyStatuses, WorkTyped
<1>2. WorkTyped'
  <2>1. CASE Claimable(at[p])
    <3>1. pc' \in [Workers -> Steps] /\ at' \in [Workers -> Replies]
      BY <1>0, <2>1, Typed DEF Claim, WorkTyped, Steps, HeldSteps
    <3>2. count' \in [Workers -> Nat]
      BY <1>0, <2>1, Typed DEF Claim, WorkTyped
    <3>3. again' \in [Workers -> BOOLEAN]
      BY <1>0, <2>1, Typed DEF Claim, WorkTyped
    <3> QED
      BY <3>1, <3>2, <3>3 DEF WorkTyped
  <2>2. CASE ~Claimable(at[p])
    <3>1. Goto(p, "idle")
      BY <2>2 DEF Claim
    <3> QED
      BY <1>0, <3>1, GotoType, Typed DEF Steps
  <2> QED
    BY <2>1, <2>2
<1>3. PastTyped'
  BY <1>0, Typed DEF Claim, In, Move, Goto, Sound, Claimable, PastTyped
<1>4. MarksTyped'
  BY <1>0, Typed DEF Claim, In, Move, Goto, Sound, Claimable, MarksTyped, RowsTyped
<1> QED
  BY <1>1, <1>2, <1>3, <1>4 DEF TypeOK, RowsTyped, WorkTyped, PastTyped, MarksTyped

LEMMA TypeClaimLost ==
  ASSUME TypeOK, NEW p \in Publishers, ClaimLost(p)
  PROVE  TypeOK'
<1>0. p \in Workers /\ at[p] \in Replies
  BY DEF TypeOK, Workers
<1>1. RowsTyped'
  BY <1>0, Typed DEF ClaimLost, In, Move, Goto, Fault, Claimable, RowsTyped, ReplyStatuses,
      WorkTyped
<1>2. WorkTyped'
  BY <1>0, GotoType, Typed DEF ClaimLost, In, Move, Fault, Claimable, Steps, HeldSteps, Workers
<1>3. PastTyped'
  BY <1>0, Typed DEF ClaimLost, In, Move, Goto, Fault, Claimable, PastTyped
<1>4. MarksTyped'
  BY <1>0, Typed DEF ClaimLost, In, Move, Goto, Fault, Claimable, MarksTyped, RowsTyped
<1> QED
  BY <1>1, <1>2, <1>3, <1>4 DEF TypeOK, RowsTyped, WorkTyped, PastTyped, MarksTyped

LEMMA TypePublish ==
  ASSUME TypeOK, NEW p \in Publishers, Publish(p)
  PROVE  TypeOK'
<1>0. p \in Workers /\ at[p] \in Replies
  BY DEF TypeOK, Workers
<1>1. RowsTyped'
  BY <1>0, Typed DEF Publish, Goto, Sound, rowVars, RowsTyped, ReplyStatuses, WorkTyped
<1>2. WorkTyped'
  BY <1>0, GotoType, Typed DEF Publish, Sound, rowVars, Steps, HeldSteps, Workers
<1>3. PastTyped'
  BY <1>0, Typed DEF Publish, Goto, Sound, rowVars, PastTyped
<1>4. MarksTyped'
  BY <1>0, Typed DEF Publish, Goto, Sound, rowVars, MarksTyped, RowsTyped
<1> QED
  BY <1>1, <1>2, <1>3, <1>4 DEF TypeOK, RowsTyped, WorkTyped, PastTyped, MarksTyped

LEMMA TypePublishFails ==
  ASSUME TypeOK, NEW p \in Publishers, PublishFails(p)
  PROVE  TypeOK'
<1>0. p \in Workers /\ at[p] \in Replies
  BY DEF TypeOK, Workers
<1>1. RowsTyped'
  BY <1>0, Typed DEF PublishFails, Fault, rowVars, RowsTyped, ReplyStatuses, WorkTyped
<1>2. WorkTyped'
  BY <1>0, Typed DEF PublishFails, Fault, rowVars, WorkTyped, RowsTyped, Steps, HeldSteps
<1>3. PastTyped'
  BY <1>0, Typed DEF PublishFails, Fault, rowVars, PastTyped
<1>4. MarksTyped'
  BY <1>0, Typed DEF PublishFails, Fault, rowVars, MarksTyped, RowsTyped
<1> QED
  BY <1>1, <1>2, <1>3, <1>4 DEF TypeOK, RowsTyped, WorkTyped, PastTyped, MarksTyped

LEMMA TypeRecord ==
  ASSUME TypeOK, NEW p \in Publishers, Record(p)
  PROVE  TypeOK'
<1>0. p \in Workers /\ at[p] \in Replies
  BY DEF TypeOK, Workers
<1>1. RowsTyped'
  BY <1>0, Typed DEF Record, In, Move, Goto, Sound, ghosts, RowsTyped, ReplyStatuses, WorkTyped
<1>2. WorkTyped'
  BY <1>0, GotoType, Typed DEF Record, In, Move, Sound, ghosts, Steps, HeldSteps, Workers
<1>3. PastTyped'
  BY <1>0, Typed DEF Record, In, Move, Goto, Sound, ghosts, PastTyped
<1>4. MarksTyped'
  BY <1>0, Typed DEF Record, In, Move, Goto, Sound, ghosts, MarksTyped, RowsTyped
<1> QED
  BY <1>1, <1>2, <1>3, <1>4 DEF TypeOK, RowsTyped, WorkTyped, PastTyped, MarksTyped

LEMMA TypeRecordFails ==
  ASSUME TypeOK, NEW p \in Publishers, RecordFails(p)
  PROVE  TypeOK'
<1>0. p \in Workers /\ at[p] \in Replies
  BY DEF TypeOK, Workers
<1>1. RowsTyped'
  BY <1>0, Typed DEF RecordFails, In, Move, Fault, RowsTyped, ReplyStatuses, WorkTyped
<1>2. WorkTyped'
  BY <1>0, Typed DEF RecordFails, In, Move, Fault, WorkTyped, RowsTyped, Steps, HeldSteps
<1>3. PastTyped'
  BY <1>0, Typed DEF RecordFails, In, Move, Fault, PastTyped
<1>4. MarksTyped'
  BY <1>0, Typed DEF RecordFails, In, Move, Fault, MarksTyped, RowsTyped
<1> QED
  BY <1>1, <1>2, <1>3, <1>4 DEF TypeOK, RowsTyped, WorkTyped, PastTyped, MarksTyped

LEMMA TypeGiveUp ==
  ASSUME TypeOK, NEW p \in Publishers, GiveUp(p)
  PROVE  TypeOK'
<1>0. p \in Workers /\ at[p] \in Replies
  BY DEF TypeOK, Workers
<1>1. RowsTyped'
  BY <1>0, Typed DEF GiveUp, In, Move, Goto, Sound, ghosts, GiveBackable, Retries, RowsTyped,
      ReplyStatuses, WorkTyped
<1>2. WorkTyped'
  BY <1>0, GotoType, Typed DEF GiveUp, In, Move, Sound, ghosts, GiveBackable, Retries, Steps,
      HeldSteps, Workers
<1>3. PastTyped'
  BY <1>0, Typed DEF GiveUp, In, Move, Goto, Sound, ghosts, GiveBackable, Retries, PastTyped
<1>4. MarksTyped'
  BY <1>0, Typed DEF GiveUp, In, Move, Goto, Sound, ghosts, GiveBackable, Retries, MarksTyped,
      RowsTyped
<1> QED
  BY <1>1, <1>2, <1>3, <1>4 DEF TypeOK, RowsTyped, WorkTyped, PastTyped, MarksTyped

LEMMA TypeCrash ==
  ASSUME TypeOK, NEW p \in Workers, Crash(p)
  PROVE  TypeOK'
<1>0. p \in Workers /\ at[p] \in Replies
  BY DEF TypeOK, Workers
<1>1. RowsTyped'
  BY <1>0, Typed DEF Crash, Goto, Fault, rowVars, HeldSteps, RowsTyped, ReplyStatuses, WorkTyped
<1>2. WorkTyped'
  BY <1>0, GotoType, Typed DEF Crash, Fault, rowVars, HeldSteps, Steps, Workers
<1>3. PastTyped'
  BY <1>0, Typed DEF Crash, Goto, Fault, rowVars, HeldSteps, PastTyped
<1>4. MarksTyped'
  BY <1>0, Typed DEF Crash, Goto, Fault, rowVars, HeldSteps, MarksTyped, RowsTyped
<1> QED
  BY <1>1, <1>2, <1>3, <1>4 DEF TypeOK, RowsTyped, WorkTyped, PastTyped, MarksTyped

LEMMA HoldingDiscover ==
  ASSUME TypeOK, Holding, NEW r \in Replies, Discover(r)
  PROVE  Holding'
BY WorkersAssumption DEF Discover, In, Move, Sound, workVars, ghosts, TypeOK, Holding, Roles,
    OneHolder, HolderStatus, OrphansStatus, PostingHeld, HeldSteps

LEMMA HoldingUnlist ==
  ASSUME TypeOK, Holding, NEW r \in Replies, Unlist(r)
  PROVE  Holding'
BY WorkersAssumption DEF Unlist, In, rowVars, workVars, ghosts, TypeOK, Holding, Roles,
    OneHolder, HolderStatus, OrphansStatus, PostingHeld, HeldSteps

LEMMA HoldingDecide ==
  ASSUME TypeOK, Holding, NEW r \in Replies, Decide(r)
  PROVE  Holding'
BY WorkersAssumption DEF Decide, In, Move, Sound, workVars, Open, TypeOK, Holding, Roles,
    OneHolder, HolderStatus, OrphansStatus, PostingHeld, HeldSteps

LEMMA HoldingEdit ==
  ASSUME TypeOK, Holding, NEW r \in Replies, NEW t \in Answers, Edit(r, t)
  PROVE  Holding'
BY WorkersAssumption DEF Edit, In, Sound, workVars, ghosts, Editable, TypeOK, Holding, Roles,
    OneHolder, HolderStatus, OrphansStatus, PostingHeld, HeldSteps

LEMMA HoldingBeginScan ==
  ASSUME TypeOK, Holding, NEW p \in Scans, NEW r \in Replies, BeginScan(p, r)
  PROVE  Holding'
BY WorkersAssumption DEF BeginScan, In, Sound, rowVars, ghosts, TypeOK, Holding, Roles,
    OneHolder, HolderStatus, OrphansStatus, PostingHeld, HeldSteps

LEMMA HoldingBeginBackfill ==
  ASSUME TypeOK, Holding, NEW p \in Scans, NEW r \in Replies, BeginBackfill(p, r)
  PROVE  Holding'
BY WorkersAssumption DEF BeginBackfill, In, Sound, rowVars, ghosts, Leads, Unclassified, TypeOK,
    Holding, Roles, OneHolder, HolderStatus, OrphansStatus, PostingHeld, HeldSteps

LEMMA HoldingClassify ==
  ASSUME TypeOK, Holding, NEW p \in Scans, Classify(p)
  PROVE  Holding'
BY WorkersAssumption DEF Classify, Goto, Sound, ghosts, AfterClassify, Leads, TypeOK, Holding,
    Roles, OneHolder, HolderStatus, OrphansStatus, PostingHeld, HeldSteps

LEMMA HoldingCreate ==
  ASSUME TypeOK, Holding, NEW p \in Scans, Create(p)
  PROVE  Holding'
BY CreateStep, WorkersAssumption DEF TypeOK, Workers, Holding, Roles, OneHolder,
    HolderStatus, OrphansStatus, PostingHeld, HeldSteps

LEMMA HoldingLink ==
  ASSUME TypeOK, Holding, NEW p \in Scans, Link(p)
  PROVE  Holding'
BY WorkersAssumption DEF Link, Goto, Sound, ghosts, AfterClassify, TypeOK, Holding, Roles,
    OneHolder, HolderStatus, OrphansStatus, PostingHeld, HeldSteps

LEMMA HoldingClassifyFails ==
  ASSUME TypeOK, Holding, NEW p \in Scans, ClassifyFails(p)
  PROVE  Holding'
BY WorkersAssumption DEF ClassifyFails, Goto, Fault, ghosts, AfterClassify, TypeOK, Holding,
    Roles, OneHolder, HolderStatus, OrphansStatus, PostingHeld, HeldSteps

LEMMA HoldingPropose ==
  ASSUME TypeOK, Holding, NEW p \in Scans, Propose(p)
  PROVE  Holding'
<1>0. p \in Workers /\ at \in [Workers -> Replies]
  BY DEF TypeOK, Workers
<1>a. PICK r \in Replies : r = at[p]
  BY <1>0
<1>t. orphans \subseteq Replies
  BY DEF TypeOK
<1>e. \/ /\ pc[p] = "draft"
         /\ status[r] = "discovered"
         /\ status'[r] = "pending_approval"
         /\ \A x \in Replies : x # r => status'[x] = status[x]
         /\ pc'[p] = "card"
         /\ \A x \in Workers : x # p => pc'[x] = pc[x]
         /\ at' = at
         /\ orphans' = orphans
      \/ /\ pc[p] = "draft"
         /\ status' = status
         /\ pc'[p] = "idle"
         /\ \A x \in Workers : x # p => pc'[x] = pc[x]
         /\ at' = at
         /\ orphans' = orphans
  BY <1>0, <1>a DEF Propose, In, Move, Goto, Sound, ghosts, Proposable, TypeOK, HeldSteps
<1>1. CASE /\ pc[p] = "draft"
           /\ status[r] = "discovered"
           /\ status'[r] = "pending_approval"
           /\ \A x \in Replies : x # r => status'[x] = status[x]
           /\ pc'[p] = "card"
           /\ \A x \in Workers : x # p => pc'[x] = pc[x]
           /\ at' = at
           /\ orphans' = orphans
  <2>1. Roles'
    BY <1>0, <1>a, <1>t, <1>1, WorkersAssumption DEF Roles, Holding, HeldSteps, Workers
  <2>2. OneHolder'
    BY <1>0, <1>a, <1>t, <1>1, WorkersAssumption DEF Roles, OneHolder, HolderStatus, Holding,
        HeldSteps, Workers
  <2>3. HolderStatus'
    BY <1>0, <1>a, <1>t, <1>1, WorkersAssumption DEF Roles, OneHolder, HolderStatus, OrphansStatus,
        Holding, HeldSteps, Workers
  <2>4. OrphansStatus'
    BY <1>0, <1>a, <1>t, <1>1, WorkersAssumption DEF Roles, HolderStatus, OrphansStatus, Holding,
        HeldSteps, Workers
  <2>5. PostingHeld'
    BY <1>0, <1>a, <1>t, <1>1, WorkersAssumption DEF Roles, PostingHeld, HolderStatus, OneHolder,
        Holding, HeldSteps, Workers
  <2> QED
    BY <2>1, <2>2, <2>3, <2>4, <2>5 DEF Holding
<1>2. CASE /\ pc[p] = "draft"
           /\ status' = status
           /\ pc'[p] = "idle"
           /\ \A x \in Workers : x # p => pc'[x] = pc[x]
           /\ at' = at
           /\ orphans' = orphans
  <2>1. Roles'
    BY <1>0, <1>a, <1>t, <1>2, WorkersAssumption DEF Roles, Holding, HeldSteps, Workers
  <2>2. OneHolder'
    BY <1>0, <1>a, <1>t, <1>2, WorkersAssumption DEF Roles, OneHolder, HolderStatus, Holding,
        HeldSteps, Workers
  <2>3. HolderStatus'
    BY <1>0, <1>a, <1>t, <1>2, WorkersAssumption DEF Roles, OneHolder, HolderStatus, OrphansStatus,
        Holding, HeldSteps, Workers
  <2>4. OrphansStatus'
    BY <1>0, <1>a, <1>t, <1>2, WorkersAssumption DEF Roles, HolderStatus, OrphansStatus, Holding,
        HeldSteps, Workers
  <2>5. PostingHeld'
    BY <1>0, <1>a, <1>t, <1>2, WorkersAssumption DEF Roles, PostingHeld, HolderStatus, OneHolder,
        Holding, HeldSteps, Workers
  <2> QED
    BY <2>1, <2>2, <2>3, <2>4, <2>5 DEF Holding
<1> QED
  BY <1>e, <1>1, <1>2

LEMMA HoldingProposeFails ==
  ASSUME TypeOK, Holding, NEW p \in Scans, ProposeFails(p)
  PROVE  Holding'
<1>0. p \in Workers /\ at \in [Workers -> Replies]
  BY DEF TypeOK, Workers
<1>a. PICK r \in Replies : r = at[p]
  BY <1>0
<1>t. orphans \subseteq Replies
  BY DEF TypeOK
<1>e. \/ /\ pc[p] = "draft"
         /\ status[r] = "discovered"
         /\ status'[r] = "pending_approval"
         /\ \A x \in Replies : x # r => status'[x] = status[x]
         /\ pc'[p] = "idle"
         /\ \A x \in Workers : x # p => pc'[x] = pc[x]
         /\ at' = at
         /\ orphans' = orphans
      \/ /\ pc[p] = "draft"
         /\ status' = status
         /\ pc'[p] = "idle"
         /\ \A x \in Workers : x # p => pc'[x] = pc[x]
         /\ at' = at
         /\ orphans' = orphans
  BY <1>0, <1>a DEF ProposeFails, In, Move, Goto, Fault, Proposable, TypeOK, HeldSteps
<1>1. CASE /\ pc[p] = "draft"
           /\ status[r] = "discovered"
           /\ status'[r] = "pending_approval"
           /\ \A x \in Replies : x # r => status'[x] = status[x]
           /\ pc'[p] = "idle"
           /\ \A x \in Workers : x # p => pc'[x] = pc[x]
           /\ at' = at
           /\ orphans' = orphans
  <2>1. Roles'
    BY <1>0, <1>a, <1>t, <1>1, WorkersAssumption DEF Roles, Holding, HeldSteps, Workers
  <2>2. OneHolder'
    BY <1>0, <1>a, <1>t, <1>1, WorkersAssumption DEF Roles, OneHolder, HolderStatus, Holding,
        HeldSteps, Workers
  <2>3. HolderStatus'
    BY <1>0, <1>a, <1>t, <1>1, WorkersAssumption DEF Roles, OneHolder, HolderStatus, OrphansStatus,
        Holding, HeldSteps, Workers
  <2>4. OrphansStatus'
    BY <1>0, <1>a, <1>t, <1>1, WorkersAssumption DEF Roles, HolderStatus, OrphansStatus, Holding,
        HeldSteps, Workers
  <2>5. PostingHeld'
    BY <1>0, <1>a, <1>t, <1>1, WorkersAssumption DEF Roles, PostingHeld, HolderStatus, OneHolder,
        Holding, HeldSteps, Workers
  <2> QED
    BY <2>1, <2>2, <2>3, <2>4, <2>5 DEF Holding
<1>2. CASE /\ pc[p] = "draft"
           /\ status' = status
           /\ pc'[p] = "idle"
           /\ \A x \in Workers : x # p => pc'[x] = pc[x]
           /\ at' = at
           /\ orphans' = orphans
  <2>1. Roles'
    BY <1>0, <1>a, <1>t, <1>2, WorkersAssumption DEF Roles, Holding, HeldSteps, Workers
  <2>2. OneHolder'
    BY <1>0, <1>a, <1>t, <1>2, WorkersAssumption DEF Roles, OneHolder, HolderStatus, Holding,
        HeldSteps, Workers
  <2>3. HolderStatus'
    BY <1>0, <1>a, <1>t, <1>2, WorkersAssumption DEF Roles, OneHolder, HolderStatus, OrphansStatus,
        Holding, HeldSteps, Workers
  <2>4. OrphansStatus'
    BY <1>0, <1>a, <1>t, <1>2, WorkersAssumption DEF Roles, HolderStatus, OrphansStatus, Holding,
        HeldSteps, Workers
  <2>5. PostingHeld'
    BY <1>0, <1>a, <1>t, <1>2, WorkersAssumption DEF Roles, PostingHeld, HolderStatus, OneHolder,
        Holding, HeldSteps, Workers
  <2> QED
    BY <2>1, <2>2, <2>3, <2>4, <2>5 DEF Holding
<1> QED
  BY <1>e, <1>1, <1>2

LEMMA HoldingSendCard ==
  ASSUME TypeOK, Holding, NEW p \in Scans, SendCard(p)
  PROVE  Holding'
BY WorkersAssumption DEF SendCard, Goto, Sound, Fault, rowVars, TypeOK, Holding, Roles,
    OneHolder, HolderStatus, OrphansStatus, PostingHeld, HeldSteps

LEMMA HoldingBeginPublish ==
  ASSUME TypeOK, Holding, NEW p \in Publishers, NEW r \in Replies, BeginPublish(p, r)
  PROVE  Holding'
BY WorkersAssumption DEF BeginPublish, In, Sound, rowVars, ghosts, TypeOK, Holding, Roles,
    OneHolder, HolderStatus, OrphansStatus, PostingHeld, HeldSteps

LEMMA HoldingClaim ==
  ASSUME TypeOK, Holding, NEW p \in Publishers, Claim(p)
  PROVE  Holding'
<1>0. p \in Workers /\ at \in [Workers -> Replies]
  BY DEF TypeOK, Workers
<1>a. PICK r \in Replies : r = at[p]
  BY <1>0
<1>t. orphans \subseteq Replies
  BY DEF TypeOK
<1>e. \/ /\ pc[p] = "claim"
         /\ status[r] = "approved"
         /\ status'[r] = "posting"
         /\ \A x \in Replies : x # r => status'[x] = status[x]
         /\ pc'[p] = "publish"
         /\ \A x \in Workers : x # p => pc'[x] = pc[x]
         /\ at' = at
         /\ orphans' = orphans
      \/ /\ pc[p] = "claim"
         /\ status' = status
         /\ pc'[p] = "idle"
         /\ \A x \in Workers : x # p => pc'[x] = pc[x]
         /\ at' = at
         /\ orphans' = orphans
  BY <1>0, <1>a DEF Claim, In, Move, Goto, Sound, Claimable, TypeOK, HeldSteps
<1>1. CASE /\ pc[p] = "claim"
           /\ status[r] = "approved"
           /\ status'[r] = "posting"
           /\ \A x \in Replies : x # r => status'[x] = status[x]
           /\ pc'[p] = "publish"
           /\ \A x \in Workers : x # p => pc'[x] = pc[x]
           /\ at' = at
           /\ orphans' = orphans
  <2>1. Roles'
    BY <1>0, <1>a, <1>t, <1>1, WorkersAssumption DEF Roles, Holding, HeldSteps, Workers
  <2>2. OneHolder'
    BY <1>0, <1>a, <1>t, <1>1, WorkersAssumption DEF Roles, OneHolder, HolderStatus, Holding,
        HeldSteps, Workers
  <2>3. HolderStatus'
    BY <1>0, <1>a, <1>t, <1>1, WorkersAssumption DEF Roles, OneHolder, HolderStatus, OrphansStatus,
        Holding, HeldSteps, Workers
  <2>4. OrphansStatus'
    BY <1>0, <1>a, <1>t, <1>1, WorkersAssumption DEF Roles, HolderStatus, OrphansStatus, Holding,
        HeldSteps, Workers
  <2>5. PostingHeld'
    BY <1>0, <1>a, <1>t, <1>1, WorkersAssumption DEF Roles, PostingHeld, HolderStatus, OneHolder,
        Holding, HeldSteps, Workers
  <2> QED
    BY <2>1, <2>2, <2>3, <2>4, <2>5 DEF Holding
<1>2. CASE /\ pc[p] = "claim"
           /\ status' = status
           /\ pc'[p] = "idle"
           /\ \A x \in Workers : x # p => pc'[x] = pc[x]
           /\ at' = at
           /\ orphans' = orphans
  <2>1. Roles'
    BY <1>0, <1>a, <1>t, <1>2, WorkersAssumption DEF Roles, Holding, HeldSteps, Workers
  <2>2. OneHolder'
    BY <1>0, <1>a, <1>t, <1>2, WorkersAssumption DEF Roles, OneHolder, HolderStatus, Holding,
        HeldSteps, Workers
  <2>3. HolderStatus'
    BY <1>0, <1>a, <1>t, <1>2, WorkersAssumption DEF Roles, OneHolder, HolderStatus, OrphansStatus,
        Holding, HeldSteps, Workers
  <2>4. OrphansStatus'
    BY <1>0, <1>a, <1>t, <1>2, WorkersAssumption DEF Roles, HolderStatus, OrphansStatus, Holding,
        HeldSteps, Workers
  <2>5. PostingHeld'
    BY <1>0, <1>a, <1>t, <1>2, WorkersAssumption DEF Roles, PostingHeld, HolderStatus, OneHolder,
        Holding, HeldSteps, Workers
  <2> QED
    BY <2>1, <2>2, <2>3, <2>4, <2>5 DEF Holding
<1> QED
  BY <1>e, <1>1, <1>2

LEMMA HoldingClaimLost ==
  ASSUME TypeOK, Holding, NEW p \in Publishers, ClaimLost(p)
  PROVE  Holding'
<1>0. p \in Workers /\ at \in [Workers -> Replies]
  BY DEF TypeOK, Workers
<1>a. PICK r \in Replies : r = at[p]
  BY <1>0
<1>t. orphans \subseteq Replies
  BY DEF TypeOK
<1>e. /\ pc[p] = "claim"
      /\ status[r] = "approved"
      /\ status'[r] = "posting"
      /\ \A x \in Replies : x # r => status'[x] = status[x]
      /\ pc'[p] = "idle"
      /\ \A x \in Workers : x # p => pc'[x] = pc[x]
      /\ at' = at
      /\ orphans' = orphans \cup {r}
  BY <1>0, <1>a DEF ClaimLost, In, Move, Goto, Fault, Claimable, TypeOK, HeldSteps
<1>1. Roles'
  BY <1>0, <1>a, <1>t, <1>e, WorkersAssumption DEF Roles, Holding, HeldSteps, Workers
<1>2. OneHolder'
  BY <1>0, <1>a, <1>t, <1>e, WorkersAssumption DEF Roles, OneHolder, HolderStatus, Holding,
      HeldSteps, Workers
<1>3. HolderStatus'
  BY <1>0, <1>a, <1>t, <1>e, WorkersAssumption DEF Roles, OneHolder, HolderStatus, OrphansStatus,
      Holding, HeldSteps, Workers
<1>4. OrphansStatus'
  BY <1>0, <1>a, <1>t, <1>e, WorkersAssumption DEF Roles, HolderStatus, OrphansStatus, Holding,
      HeldSteps, Workers
<1>5. PostingHeld'
  BY <1>0, <1>a, <1>t, <1>e, WorkersAssumption DEF Roles, PostingHeld, HolderStatus, OneHolder,
      Holding, HeldSteps, Workers
<1> QED
  BY <1>1, <1>2, <1>3, <1>4, <1>5 DEF Holding

LEMMA HoldingPublish ==
  ASSUME TypeOK, Holding, NEW p \in Publishers, Publish(p)
  PROVE  Holding'
BY WorkersAssumption DEF Publish, Goto, Sound, rowVars, TypeOK, Holding, Roles, OneHolder,
    HolderStatus, OrphansStatus, PostingHeld, HeldSteps

LEMMA HoldingPublishFails ==
  ASSUME TypeOK, Holding, NEW p \in Publishers, PublishFails(p)
  PROVE  Holding'
BY WorkersAssumption DEF PublishFails, Fault, rowVars, TypeOK, Holding, Roles, OneHolder,
    HolderStatus, OrphansStatus, PostingHeld, HeldSteps

LEMMA HoldingRecord ==
  ASSUME TypeOK, Holding, NEW p \in Publishers, Record(p)
  PROVE  Holding'
<1>0. p \in Workers /\ at \in [Workers -> Replies]
  BY DEF TypeOK, Workers
<1>a. PICK r \in Replies : r = at[p]
  BY <1>0
<1>t. orphans \subseteq Replies
  BY DEF TypeOK
<1>e. \/ /\ pc[p] = "record"
         /\ status[r] = "posting"
         /\ status'[r] = "posted"
         /\ \A x \in Replies : x # r => status'[x] = status[x]
         /\ pc'[p] = "idle"
         /\ \A x \in Workers : x # p => pc'[x] = pc[x]
         /\ at' = at
         /\ orphans' = orphans
      \/ /\ pc[p] = "record"
         /\ status[r] # "posting"
         /\ status' = status
         /\ pc'[p] = "idle"
         /\ \A x \in Workers : x # p => pc'[x] = pc[x]
         /\ at' = at
         /\ orphans' = orphans
  BY <1>0, <1>a DEF Record, In, Move, Goto, Sound, ghosts, TypeOK, HeldSteps
<1>1. CASE /\ pc[p] = "record"
           /\ status[r] = "posting"
           /\ status'[r] = "posted"
           /\ \A x \in Replies : x # r => status'[x] = status[x]
           /\ pc'[p] = "idle"
           /\ \A x \in Workers : x # p => pc'[x] = pc[x]
           /\ at' = at
           /\ orphans' = orphans
  <2>1. Roles'
    BY <1>0, <1>a, <1>t, <1>1, WorkersAssumption DEF Roles, Holding, HeldSteps, Workers
  <2>2. OneHolder'
    BY <1>0, <1>a, <1>t, <1>1, WorkersAssumption DEF Roles, OneHolder, HolderStatus, Holding,
        HeldSteps, Workers
  <2>3. HolderStatus'
    BY <1>0, <1>a, <1>t, <1>1, WorkersAssumption DEF Roles, OneHolder, HolderStatus, OrphansStatus,
        Holding, HeldSteps, Workers
  <2>4. OrphansStatus'
    BY <1>0, <1>a, <1>t, <1>1, WorkersAssumption DEF Roles, HolderStatus, OrphansStatus, Holding,
        HeldSteps, Workers
  <2>5. PostingHeld'
    BY <1>0, <1>a, <1>t, <1>1, WorkersAssumption DEF Roles, PostingHeld, HolderStatus, OneHolder,
        Holding, HeldSteps, Workers
  <2> QED
    BY <2>1, <2>2, <2>3, <2>4, <2>5 DEF Holding
<1>2. CASE /\ pc[p] = "record"
           /\ status[r] # "posting"
           /\ status' = status
           /\ pc'[p] = "idle"
           /\ \A x \in Workers : x # p => pc'[x] = pc[x]
           /\ at' = at
           /\ orphans' = orphans
  <2>1. Roles'
    BY <1>0, <1>a, <1>t, <1>2, WorkersAssumption DEF Roles, Holding, HeldSteps, Workers
  <2>2. OneHolder'
    BY <1>0, <1>a, <1>t, <1>2, WorkersAssumption DEF Roles, OneHolder, HolderStatus, Holding,
        HeldSteps, Workers
  <2>3. HolderStatus'
    BY <1>0, <1>a, <1>t, <1>2, WorkersAssumption DEF Roles, OneHolder, HolderStatus, OrphansStatus,
        Holding, HeldSteps, Workers
  <2>4. OrphansStatus'
    BY <1>0, <1>a, <1>t, <1>2, WorkersAssumption DEF Roles, HolderStatus, OrphansStatus, Holding,
        HeldSteps, Workers
  <2>5. PostingHeld'
    BY <1>0, <1>a, <1>t, <1>2, WorkersAssumption DEF Roles, PostingHeld, HolderStatus, OneHolder,
        Holding, HeldSteps, Workers
  <2> QED
    BY <2>1, <2>2, <2>3, <2>4, <2>5 DEF Holding
<1> QED
  BY <1>e, <1>1, <1>2

LEMMA HoldingRecordFails ==
  ASSUME TypeOK, Holding, NEW p \in Publishers, RecordFails(p)
  PROVE  Holding'
<1>0. p \in Workers /\ at \in [Workers -> Replies]
  BY DEF TypeOK, Workers
<1>a. PICK r \in Replies : r = at[p]
  BY <1>0
<1>t. orphans \subseteq Replies
  BY DEF TypeOK
<1>e. \/ /\ pc[p] = "record"
         /\ status[r] = "posting"
         /\ status'[r] = "posted"
         /\ \A x \in Replies : x # r => status'[x] = status[x]
         /\ pc'[p] = "giveUp"
         /\ \A x \in Workers : x # p => pc'[x] = pc[x]
         /\ at' = at
         /\ orphans' = orphans
      \/ /\ pc[p] = "record"
         /\ status' = status
         /\ pc'[p] = "giveUp"
         /\ \A x \in Workers : x # p => pc'[x] = pc[x]
         /\ at' = at
         /\ orphans' = orphans
  BY <1>0, <1>a DEF RecordFails, In, Move, Fault, TypeOK, HeldSteps
<1>1. CASE /\ pc[p] = "record"
           /\ status[r] = "posting"
           /\ status'[r] = "posted"
           /\ \A x \in Replies : x # r => status'[x] = status[x]
           /\ pc'[p] = "giveUp"
           /\ \A x \in Workers : x # p => pc'[x] = pc[x]
           /\ at' = at
           /\ orphans' = orphans
  <2>1. Roles'
    BY <1>0, <1>a, <1>t, <1>1, WorkersAssumption DEF Roles, Holding, HeldSteps, Workers
  <2>2. OneHolder'
    BY <1>0, <1>a, <1>t, <1>1, WorkersAssumption DEF Roles, OneHolder, HolderStatus, Holding,
        HeldSteps, Workers
  <2>3. HolderStatus'
    BY <1>0, <1>a, <1>t, <1>1, WorkersAssumption DEF Roles, OneHolder, HolderStatus, OrphansStatus,
        Holding, HeldSteps, Workers
  <2>4. OrphansStatus'
    BY <1>0, <1>a, <1>t, <1>1, WorkersAssumption DEF Roles, HolderStatus, OrphansStatus, Holding,
        HeldSteps, Workers
  <2>5. PostingHeld'
    BY <1>0, <1>a, <1>t, <1>1, WorkersAssumption DEF Roles, PostingHeld, HolderStatus, OneHolder,
        Holding, HeldSteps, Workers
  <2> QED
    BY <2>1, <2>2, <2>3, <2>4, <2>5 DEF Holding
<1>2. CASE /\ pc[p] = "record"
           /\ status' = status
           /\ pc'[p] = "giveUp"
           /\ \A x \in Workers : x # p => pc'[x] = pc[x]
           /\ at' = at
           /\ orphans' = orphans
  <2>1. Roles'
    BY <1>0, <1>a, <1>t, <1>2, WorkersAssumption DEF Roles, Holding, HeldSteps, Workers
  <2>2. OneHolder'
    BY <1>0, <1>a, <1>t, <1>2, WorkersAssumption DEF Roles, OneHolder, HolderStatus, Holding,
        HeldSteps, Workers
  <2>3. HolderStatus'
    BY <1>0, <1>a, <1>t, <1>2, WorkersAssumption DEF Roles, OneHolder, HolderStatus, OrphansStatus,
        Holding, HeldSteps, Workers
  <2>4. OrphansStatus'
    BY <1>0, <1>a, <1>t, <1>2, WorkersAssumption DEF Roles, HolderStatus, OrphansStatus, Holding,
        HeldSteps, Workers
  <2>5. PostingHeld'
    BY <1>0, <1>a, <1>t, <1>2, WorkersAssumption DEF Roles, PostingHeld, HolderStatus, OneHolder,
        Holding, HeldSteps, Workers
  <2> QED
    BY <2>1, <2>2, <2>3, <2>4, <2>5 DEF Holding
<1> QED
  BY <1>e, <1>1, <1>2

LEMMA HoldingGiveUp ==
  ASSUME TypeOK, Holding, NEW p \in Publishers, GiveUp(p)
  PROVE  Holding'
<1>0. p \in Workers /\ at \in [Workers -> Replies]
  BY DEF TypeOK, Workers
<1>a. PICK r \in Replies : r = at[p]
  BY <1>0
<1>t. orphans \subseteq Replies
  BY DEF TypeOK
<1>e. \/ /\ pc[p] = "giveUp"
         /\ status[r] = "posting"
         /\ status'[r] = "approved"
         /\ \A x \in Replies : x # r => status'[x] = status[x]
         /\ pc'[p] = "idle"
         /\ \A x \in Workers : x # p => pc'[x] = pc[x]
         /\ at' = at
         /\ orphans' = orphans
      \/ /\ pc[p] = "giveUp"
         /\ status[r] = "posting"
         /\ status'[r] = "failed"
         /\ \A x \in Replies : x # r => status'[x] = status[x]
         /\ pc'[p] = "idle"
         /\ \A x \in Workers : x # p => pc'[x] = pc[x]
         /\ at' = at
         /\ orphans' = orphans
      \/ /\ pc[p] = "giveUp"
         /\ status[r] # "posting"
         /\ status' = status
         /\ pc'[p] = "idle"
         /\ \A x \in Workers : x # p => pc'[x] = pc[x]
         /\ at' = at
         /\ orphans' = orphans
  BY <1>0, <1>a DEF GiveUp, In, Move, Goto, Sound, ghosts, GiveBackable, Retries, TypeOK,
      HeldSteps
<1>1. CASE /\ pc[p] = "giveUp"
           /\ status[r] = "posting"
           /\ status'[r] = "approved"
           /\ \A x \in Replies : x # r => status'[x] = status[x]
           /\ pc'[p] = "idle"
           /\ \A x \in Workers : x # p => pc'[x] = pc[x]
           /\ at' = at
           /\ orphans' = orphans
  <2>1. Roles'
    BY <1>0, <1>a, <1>t, <1>1, WorkersAssumption DEF Roles, Holding, HeldSteps, Workers
  <2>2. OneHolder'
    BY <1>0, <1>a, <1>t, <1>1, WorkersAssumption DEF Roles, OneHolder, HolderStatus, Holding,
        HeldSteps, Workers
  <2>3. HolderStatus'
    BY <1>0, <1>a, <1>t, <1>1, WorkersAssumption DEF Roles, OneHolder, HolderStatus, OrphansStatus,
        Holding, HeldSteps, Workers
  <2>4. OrphansStatus'
    BY <1>0, <1>a, <1>t, <1>1, WorkersAssumption DEF Roles, HolderStatus, OrphansStatus, Holding,
        HeldSteps, Workers
  <2>5. PostingHeld'
    BY <1>0, <1>a, <1>t, <1>1, WorkersAssumption DEF Roles, PostingHeld, HolderStatus, OneHolder,
        Holding, HeldSteps, Workers
  <2> QED
    BY <2>1, <2>2, <2>3, <2>4, <2>5 DEF Holding
<1>2. CASE /\ pc[p] = "giveUp"
           /\ status[r] = "posting"
           /\ status'[r] = "failed"
           /\ \A x \in Replies : x # r => status'[x] = status[x]
           /\ pc'[p] = "idle"
           /\ \A x \in Workers : x # p => pc'[x] = pc[x]
           /\ at' = at
           /\ orphans' = orphans
  <2>1. Roles'
    BY <1>0, <1>a, <1>t, <1>2, WorkersAssumption DEF Roles, Holding, HeldSteps, Workers
  <2>2. OneHolder'
    BY <1>0, <1>a, <1>t, <1>2, WorkersAssumption DEF Roles, OneHolder, HolderStatus, Holding,
        HeldSteps, Workers
  <2>3. HolderStatus'
    BY <1>0, <1>a, <1>t, <1>2, WorkersAssumption DEF Roles, OneHolder, HolderStatus, OrphansStatus,
        Holding, HeldSteps, Workers
  <2>4. OrphansStatus'
    BY <1>0, <1>a, <1>t, <1>2, WorkersAssumption DEF Roles, HolderStatus, OrphansStatus, Holding,
        HeldSteps, Workers
  <2>5. PostingHeld'
    BY <1>0, <1>a, <1>t, <1>2, WorkersAssumption DEF Roles, PostingHeld, HolderStatus, OneHolder,
        Holding, HeldSteps, Workers
  <2> QED
    BY <2>1, <2>2, <2>3, <2>4, <2>5 DEF Holding
<1>3. CASE /\ pc[p] = "giveUp"
           /\ status[r] # "posting"
           /\ status' = status
           /\ pc'[p] = "idle"
           /\ \A x \in Workers : x # p => pc'[x] = pc[x]
           /\ at' = at
           /\ orphans' = orphans
  <2>1. Roles'
    BY <1>0, <1>a, <1>t, <1>3, WorkersAssumption DEF Roles, Holding, HeldSteps, Workers
  <2>2. OneHolder'
    BY <1>0, <1>a, <1>t, <1>3, WorkersAssumption DEF Roles, OneHolder, HolderStatus, Holding,
        HeldSteps, Workers
  <2>3. HolderStatus'
    BY <1>0, <1>a, <1>t, <1>3, WorkersAssumption DEF Roles, OneHolder, HolderStatus, OrphansStatus,
        Holding, HeldSteps, Workers
  <2>4. OrphansStatus'
    BY <1>0, <1>a, <1>t, <1>3, WorkersAssumption DEF Roles, HolderStatus, OrphansStatus, Holding,
        HeldSteps, Workers
  <2>5. PostingHeld'
    BY <1>0, <1>a, <1>t, <1>3, WorkersAssumption DEF Roles, PostingHeld, HolderStatus, OneHolder,
        Holding, HeldSteps, Workers
  <2> QED
    BY <2>1, <2>2, <2>3, <2>4, <2>5 DEF Holding
<1> QED
  BY <1>e, <1>1, <1>2, <1>3

LEMMA HoldingCrash ==
  ASSUME TypeOK, Holding, NEW p \in Workers, Crash(p)
  PROVE  Holding'
<1>0. p \in Workers /\ at \in [Workers -> Replies]
  BY DEF TypeOK, Workers
<1>a. PICK r \in Replies : r = at[p]
  BY <1>0
<1>t. orphans \subseteq Replies
  BY DEF TypeOK
<1>e. \/ /\ pc[p] \in HeldSteps
         /\ status' = status
         /\ pc'[p] = "idle"
         /\ \A x \in Workers : x # p => pc'[x] = pc[x]
         /\ at' = at
         /\ orphans' = orphans \cup {r}
      \/ /\ pc[p] = "card"
         /\ status' = status
         /\ pc'[p] = "idle"
         /\ \A x \in Workers : x # p => pc'[x] = pc[x]
         /\ at' = at
         /\ orphans' = orphans
      \/ /\ pc[p] \notin HeldSteps
         /\ pc[p] # "card"
         /\ status' = status
         /\ pc'[p] = "idle"
         /\ \A x \in Workers : x # p => pc'[x] = pc[x]
         /\ at' = at
         /\ orphans' = orphans
  BY <1>0, <1>a DEF Crash, Goto, Fault, rowVars, HeldSteps, TypeOK
<1>1. CASE /\ pc[p] \in HeldSteps
           /\ status' = status
           /\ pc'[p] = "idle"
           /\ \A x \in Workers : x # p => pc'[x] = pc[x]
           /\ at' = at
           /\ orphans' = orphans \cup {r}
  <2>1. Roles'
    BY <1>0, <1>a, <1>t, <1>1, WorkersAssumption DEF Roles, Holding, HeldSteps, Workers
  <2>2. OneHolder'
    BY <1>0, <1>a, <1>t, <1>1, WorkersAssumption DEF Roles, OneHolder, HolderStatus, Holding,
        HeldSteps, Workers
  <2>3. HolderStatus'
    BY <1>0, <1>a, <1>t, <1>1, WorkersAssumption DEF Roles, OneHolder, HolderStatus, OrphansStatus,
        Holding, HeldSteps, Workers
  <2>4. OrphansStatus'
    BY <1>0, <1>a, <1>t, <1>1, WorkersAssumption DEF Roles, HolderStatus, OrphansStatus, Holding,
        HeldSteps, Workers
  <2>5. PostingHeld'
    BY <1>0, <1>a, <1>t, <1>1, WorkersAssumption DEF Roles, PostingHeld, HolderStatus, OneHolder,
        Holding, HeldSteps, Workers
  <2> QED
    BY <2>1, <2>2, <2>3, <2>4, <2>5 DEF Holding
<1>2. CASE /\ pc[p] = "card"
           /\ status' = status
           /\ pc'[p] = "idle"
           /\ \A x \in Workers : x # p => pc'[x] = pc[x]
           /\ at' = at
           /\ orphans' = orphans
  <2>1. Roles'
    BY <1>0, <1>a, <1>t, <1>2, WorkersAssumption DEF Roles, Holding, HeldSteps, Workers
  <2>2. OneHolder'
    BY <1>0, <1>a, <1>t, <1>2, WorkersAssumption DEF Roles, OneHolder, HolderStatus, Holding,
        HeldSteps, Workers
  <2>3. HolderStatus'
    BY <1>0, <1>a, <1>t, <1>2, WorkersAssumption DEF Roles, OneHolder, HolderStatus, OrphansStatus,
        Holding, HeldSteps, Workers
  <2>4. OrphansStatus'
    BY <1>0, <1>a, <1>t, <1>2, WorkersAssumption DEF Roles, HolderStatus, OrphansStatus, Holding,
        HeldSteps, Workers
  <2>5. PostingHeld'
    BY <1>0, <1>a, <1>t, <1>2, WorkersAssumption DEF Roles, PostingHeld, HolderStatus, OneHolder,
        Holding, HeldSteps, Workers
  <2> QED
    BY <2>1, <2>2, <2>3, <2>4, <2>5 DEF Holding
<1>3. CASE /\ pc[p] \notin HeldSteps
           /\ pc[p] # "card"
           /\ status' = status
           /\ pc'[p] = "idle"
           /\ \A x \in Workers : x # p => pc'[x] = pc[x]
           /\ at' = at
           /\ orphans' = orphans
  <2>1. Roles'
    BY <1>0, <1>a, <1>t, <1>3, WorkersAssumption DEF Roles, Holding, HeldSteps, Workers
  <2>2. OneHolder'
    BY <1>0, <1>a, <1>t, <1>3, WorkersAssumption DEF Roles, OneHolder, HolderStatus, Holding,
        HeldSteps, Workers
  <2>3. HolderStatus'
    BY <1>0, <1>a, <1>t, <1>3, WorkersAssumption DEF Roles, OneHolder, HolderStatus, OrphansStatus,
        Holding, HeldSteps, Workers
  <2>4. OrphansStatus'
    BY <1>0, <1>a, <1>t, <1>3, WorkersAssumption DEF Roles, HolderStatus, OrphansStatus, Holding,
        HeldSteps, Workers
  <2>5. PostingHeld'
    BY <1>0, <1>a, <1>t, <1>3, WorkersAssumption DEF Roles, PostingHeld, HolderStatus, OneHolder,
        Holding, HeldSteps, Workers
  <2> QED
    BY <2>1, <2>2, <2>3, <2>4, <2>5 DEF Holding
<1> QED
  BY <1>e, <1>1, <1>2, <1>3

LEMMA AccountedDiscover ==
  ASSUME TypeOK, Holding, Accounted, NEW r \in Replies, Discover(r)
  PROVE  Accounted'
BY WorkersAssumption DEF Discover, In, Move, Sound, workVars, ghosts, TypeOK, Holding, Roles,
    OneHolder, HolderStatus, OrphansStatus, Accounted, HeldSteps

LEMMA AccountedUnlist ==
  ASSUME TypeOK, Holding, Accounted, NEW r \in Replies, Unlist(r)
  PROVE  Accounted'
BY WorkersAssumption DEF Unlist, In, rowVars, workVars, ghosts, TypeOK, Holding, Roles,
    OneHolder, HolderStatus, OrphansStatus, Accounted, HeldSteps

LEMMA AccountedDecide ==
  ASSUME TypeOK, Holding, Accounted, NEW r \in Replies, Decide(r)
  PROVE  Accounted'
BY WorkersAssumption DEF Decide, In, Move, Sound, workVars, Open, TypeOK, Holding, Roles,
    OneHolder, HolderStatus, OrphansStatus, Accounted, HeldSteps

LEMMA AccountedEdit ==
  ASSUME TypeOK, Holding, Accounted, NEW r \in Replies, NEW t \in Answers, Edit(r, t)
  PROVE  Accounted'
BY WorkersAssumption DEF Edit, In, Sound, workVars, ghosts, Editable, TypeOK, Holding, Roles,
    OneHolder, HolderStatus, OrphansStatus, Accounted, HeldSteps

LEMMA AccountedBeginScan ==
  ASSUME TypeOK, Holding, Accounted, NEW p \in Scans, NEW r \in Replies, BeginScan(p, r)
  PROVE  Accounted'
BY WorkersAssumption DEF BeginScan, In, Sound, rowVars, ghosts, TypeOK, Holding, Roles,
    OneHolder, HolderStatus, OrphansStatus, Accounted, HeldSteps

LEMMA AccountedBeginBackfill ==
  ASSUME TypeOK, Holding, Accounted, NEW p \in Scans, NEW r \in Replies, BeginBackfill(p, r)
  PROVE  Accounted'
BY WorkersAssumption DEF BeginBackfill, In, Sound, rowVars, ghosts, Leads, Unclassified, TypeOK,
    Holding, Roles, OneHolder, HolderStatus, OrphansStatus, Accounted, HeldSteps

LEMMA AccountedClassify ==
  ASSUME TypeOK, Holding, Accounted, NEW p \in Scans, Classify(p)
  PROVE  Accounted'
BY WorkersAssumption DEF Classify, Goto, Sound, ghosts, AfterClassify, Leads, TypeOK, Holding,
    Roles, OneHolder, HolderStatus, OrphansStatus, Accounted, HeldSteps

LEMMA AccountedCreate ==
  ASSUME TypeOK, Holding, Accounted, NEW p \in Scans, Create(p)
  PROVE  Accounted'
BY CreateStep, WorkersAssumption DEF TypeOK, Workers, Holding, Roles, OneHolder,
    HolderStatus, OrphansStatus, Accounted, HeldSteps

LEMMA AccountedLink ==
  ASSUME TypeOK, Holding, Accounted, NEW p \in Scans, Link(p)
  PROVE  Accounted'
BY WorkersAssumption DEF Link, Goto, Sound, ghosts, AfterClassify, TypeOK, Holding, Roles,
    OneHolder, HolderStatus, OrphansStatus, Accounted, HeldSteps

LEMMA AccountedClassifyFails ==
  ASSUME TypeOK, Holding, Accounted, NEW p \in Scans, ClassifyFails(p)
  PROVE  Accounted'
BY WorkersAssumption DEF ClassifyFails, Goto, Fault, ghosts, AfterClassify, TypeOK, Holding,
    Roles, OneHolder, HolderStatus, OrphansStatus, Accounted, HeldSteps

LEMMA AccountedPropose ==
  ASSUME TypeOK, Holding, Accounted, NEW p \in Scans, Propose(p)
  PROVE  Accounted'
<1>0. p \in Workers /\ at \in [Workers -> Replies]
  BY DEF TypeOK, Workers
<1>a. PICK r \in Replies : r = at[p]
  BY <1>0
<1>t. sent \in [Replies -> Nat] /\ unsure \in [Replies -> Nat]
  BY DEF TypeOK
<1>e. \/ /\ pc[p] = "draft"
         /\ status[r] = "discovered"
         /\ status'[r] = "pending_approval"
         /\ \A x \in Replies : x # r => status'[x] = status[x]
         /\ pc'[p] = "card"
         /\ \A x \in Workers : x # p => pc'[x] = pc[x]
         /\ at' = at
         /\ orphans' = orphans
         /\ sent' = sent
         /\ unsure' = unsure
      \/ /\ pc[p] = "draft"
         /\ status' = status
         /\ pc'[p] = "idle"
         /\ \A x \in Workers : x # p => pc'[x] = pc[x]
         /\ at' = at
         /\ orphans' = orphans
         /\ sent' = sent
         /\ unsure' = unsure
  BY <1>0, <1>a DEF Propose, In, Move, Goto, Sound, ghosts, Proposable, TypeOK, HeldSteps
<1>1. CASE /\ pc[p] = "draft"
           /\ status[r] = "discovered"
           /\ status'[r] = "pending_approval"
           /\ \A x \in Replies : x # r => status'[x] = status[x]
           /\ pc'[p] = "card"
           /\ \A x \in Workers : x # p => pc'[x] = pc[x]
           /\ at' = at
           /\ orphans' = orphans
           /\ sent' = sent
           /\ unsure' = unsure
  <2>1. Accounted'
    BY <1>0, <1>a, <1>t, <1>1, WorkersAssumption DEF Roles, OneHolder, HolderStatus, Accounted,
        Holding, HeldSteps, Workers
  <2> QED
    BY <2>1
<1>2. CASE /\ pc[p] = "draft"
           /\ status' = status
           /\ pc'[p] = "idle"
           /\ \A x \in Workers : x # p => pc'[x] = pc[x]
           /\ at' = at
           /\ orphans' = orphans
           /\ sent' = sent
           /\ unsure' = unsure
  <2>1. Accounted'
    BY <1>0, <1>a, <1>t, <1>2, WorkersAssumption DEF Roles, OneHolder, HolderStatus, Accounted,
        Holding, HeldSteps, Workers
  <2> QED
    BY <2>1
<1> QED
  BY <1>e, <1>1, <1>2

LEMMA AccountedProposeFails ==
  ASSUME TypeOK, Holding, Accounted, NEW p \in Scans, ProposeFails(p)
  PROVE  Accounted'
BY WorkersAssumption DEF ProposeFails, In, Move, Goto, Fault, Proposable, TypeOK, Holding,
    Roles, OneHolder, HolderStatus, OrphansStatus, Accounted, HeldSteps

LEMMA AccountedSendCard ==
  ASSUME TypeOK, Holding, Accounted, NEW p \in Scans, SendCard(p)
  PROVE  Accounted'
BY WorkersAssumption DEF SendCard, Goto, Sound, Fault, rowVars, TypeOK, Holding, Roles,
    OneHolder, HolderStatus, OrphansStatus, Accounted, HeldSteps

LEMMA AccountedBeginPublish ==
  ASSUME TypeOK, Holding, Accounted, NEW p \in Publishers, NEW r \in Replies, BeginPublish(p, r)
  PROVE  Accounted'
BY WorkersAssumption DEF BeginPublish, In, Sound, rowVars, ghosts, TypeOK, Holding, Roles,
    OneHolder, HolderStatus, OrphansStatus, Accounted, HeldSteps

LEMMA AccountedClaim ==
  ASSUME TypeOK, Holding, Accounted, NEW p \in Publishers, Claim(p)
  PROVE  Accounted'
<1>0. p \in Workers /\ at \in [Workers -> Replies]
  BY DEF TypeOK, Workers
<1>a. PICK r \in Replies : r = at[p]
  BY <1>0
<1>t. sent \in [Replies -> Nat] /\ unsure \in [Replies -> Nat]
  BY DEF TypeOK
<1>e. \/ /\ pc[p] = "claim"
         /\ status[r] = "approved"
         /\ status'[r] = "posting"
         /\ \A x \in Replies : x # r => status'[x] = status[x]
         /\ pc'[p] = "publish"
         /\ \A x \in Workers : x # p => pc'[x] = pc[x]
         /\ at' = at
         /\ orphans' = orphans
         /\ sent' = sent
         /\ unsure' = unsure
      \/ /\ pc[p] = "claim"
         /\ status' = status
         /\ pc'[p] = "idle"
         /\ \A x \in Workers : x # p => pc'[x] = pc[x]
         /\ at' = at
         /\ orphans' = orphans
         /\ sent' = sent
         /\ unsure' = unsure
  BY <1>0, <1>a DEF Claim, In, Move, Goto, Sound, Claimable, TypeOK, HeldSteps
<1>1. CASE /\ pc[p] = "claim"
           /\ status[r] = "approved"
           /\ status'[r] = "posting"
           /\ \A x \in Replies : x # r => status'[x] = status[x]
           /\ pc'[p] = "publish"
           /\ \A x \in Workers : x # p => pc'[x] = pc[x]
           /\ at' = at
           /\ orphans' = orphans
           /\ sent' = sent
           /\ unsure' = unsure
  <2>1. Accounted'
    BY <1>0, <1>a, <1>t, <1>1, WorkersAssumption DEF Roles, OneHolder, HolderStatus, Accounted,
        Holding, HeldSteps, Workers
  <2> QED
    BY <2>1
<1>2. CASE /\ pc[p] = "claim"
           /\ status' = status
           /\ pc'[p] = "idle"
           /\ \A x \in Workers : x # p => pc'[x] = pc[x]
           /\ at' = at
           /\ orphans' = orphans
           /\ sent' = sent
           /\ unsure' = unsure
  <2>1. Accounted'
    BY <1>0, <1>a, <1>t, <1>2, WorkersAssumption DEF Roles, OneHolder, HolderStatus, Accounted,
        Holding, HeldSteps, Workers
  <2> QED
    BY <2>1
<1> QED
  BY <1>e, <1>1, <1>2

LEMMA AccountedClaimLost ==
  ASSUME TypeOK, Holding, Accounted, NEW p \in Publishers, ClaimLost(p)
  PROVE  Accounted'
BY WorkersAssumption DEF ClaimLost, In, Move, Goto, Fault, Claimable, TypeOK, Holding, Roles,
    OneHolder, HolderStatus, OrphansStatus, Accounted, HeldSteps

LEMMA AccountedPublish ==
  ASSUME TypeOK, Holding, Accounted, NEW p \in Publishers, Publish(p)
  PROVE  Accounted'
<1>0. p \in Workers /\ at \in [Workers -> Replies]
  BY DEF TypeOK, Workers
<1>a. PICK r \in Replies : r = at[p]
  BY <1>0
<1>t. sent \in [Replies -> Nat] /\ unsure \in [Replies -> Nat]
  BY DEF TypeOK
<1>e. /\ pc[p] = "publish"
      /\ status' = status
      /\ pc'[p] = "record"
      /\ \A x \in Workers : x # p => pc'[x] = pc[x]
      /\ at' = at
      /\ orphans' = orphans
      /\ sent'[r] = sent[r] + 1
      /\ \A x \in Replies : x # r => sent'[x] = sent[x]
      /\ unsure' = unsure
  BY <1>0, <1>a DEF Publish, Goto, Sound, rowVars, TypeOK, HeldSteps
<1>1. Accounted'
  BY <1>0, <1>a, <1>t, <1>e, WorkersAssumption DEF Roles, OneHolder, HolderStatus, Accounted,
      Holding, HeldSteps, Workers
<1> QED
  BY <1>1

LEMMA AccountedPublishFails ==
  ASSUME TypeOK, Holding, Accounted, NEW p \in Publishers, PublishFails(p)
  PROVE  Accounted'
BY WorkersAssumption DEF PublishFails, Fault, rowVars, TypeOK, Holding, Roles, OneHolder,
    HolderStatus, OrphansStatus, Accounted, HeldSteps

LEMMA AccountedRecord ==
  ASSUME TypeOK, Holding, Accounted, NEW p \in Publishers, Record(p)
  PROVE  Accounted'
BY WorkersAssumption DEF Record, In, Move, Goto, Sound, ghosts, TypeOK, Holding, Roles,
    OneHolder, HolderStatus, OrphansStatus, Accounted, HeldSteps

LEMMA AccountedRecordFails ==
  ASSUME TypeOK, Holding, Accounted, NEW p \in Publishers, RecordFails(p)
  PROVE  Accounted'
BY WorkersAssumption DEF RecordFails, In, Move, Fault, TypeOK, Holding, Roles, OneHolder,
    HolderStatus, OrphansStatus, Accounted, HeldSteps

LEMMA AccountedGiveUp ==
  ASSUME TypeOK, Holding, Accounted, NEW p \in Publishers, GiveUp(p)
  PROVE  Accounted'
BY WorkersAssumption DEF GiveUp, In, Move, Goto, Sound, ghosts, GiveBackable, Retries, TypeOK,
    Holding, Roles, OneHolder, HolderStatus, OrphansStatus, Accounted, HeldSteps

LEMMA AccountedCrash ==
  ASSUME TypeOK, Holding, Accounted, NEW p \in Workers, Crash(p)
  PROVE  Accounted'
BY WorkersAssumption DEF Crash, Goto, Fault, rowVars, HeldSteps, TypeOK, Holding, Roles,
    OneHolder, HolderStatus, OrphansStatus, Accounted

LEMMA TextDiscover ==
  ASSUME TypeOK, ApprovedTextKept, NEW r \in Replies, Discover(r)
  PROVE  ApprovedTextKept'
BY DEF Discover, In, Move, Sound, workVars, ghosts, TypeOK, ApprovedTextKept, HeldSteps

LEMMA TextUnlist ==
  ASSUME TypeOK, ApprovedTextKept, NEW r \in Replies, Unlist(r)
  PROVE  ApprovedTextKept'
BY DEF Unlist, In, rowVars, workVars, ghosts, TypeOK, ApprovedTextKept, HeldSteps

LEMMA TextDecide ==
  ASSUME TypeOK, ApprovedTextKept, NEW r \in Replies, Decide(r)
  PROVE  ApprovedTextKept'
BY DEF Decide, In, Move, Sound, workVars, Open, TypeOK, ApprovedTextKept, HeldSteps

LEMMA TextEdit ==
  ASSUME TypeOK, ApprovedTextKept, NEW r \in Replies, NEW t \in Answers, Edit(r, t)
  PROVE  ApprovedTextKept'
BY DEF Edit, In, Sound, workVars, ghosts, Editable, TypeOK, ApprovedTextKept, HeldSteps

LEMMA TextBeginScan ==
  ASSUME TypeOK, ApprovedTextKept, NEW p \in Scans, NEW r \in Replies, BeginScan(p, r)
  PROVE  ApprovedTextKept'
BY DEF BeginScan, In, Sound, rowVars, ghosts, TypeOK, ApprovedTextKept, HeldSteps

LEMMA TextBeginBackfill ==
  ASSUME TypeOK, ApprovedTextKept, NEW p \in Scans, NEW r \in Replies, BeginBackfill(p, r)
  PROVE  ApprovedTextKept'
BY DEF BeginBackfill, In, Sound, rowVars, ghosts, Leads, Unclassified, TypeOK, ApprovedTextKept,
    HeldSteps

LEMMA TextClassify ==
  ASSUME TypeOK, ApprovedTextKept, NEW p \in Scans, Classify(p)
  PROVE  ApprovedTextKept'
BY DEF Classify, Goto, Sound, ghosts, AfterClassify, Leads, TypeOK, ApprovedTextKept, HeldSteps

LEMMA TextCreate ==
  ASSUME TypeOK, ApprovedTextKept, NEW p \in Scans, Create(p)
  PROVE  ApprovedTextKept'
BY DEF Create, Goto, AfterClassify, Sound, ghosts, TypeOK, ApprovedTextKept, HeldSteps

LEMMA TextLink ==
  ASSUME TypeOK, ApprovedTextKept, NEW p \in Scans, Link(p)
  PROVE  ApprovedTextKept'
BY DEF Link, Goto, Sound, ghosts, AfterClassify, TypeOK, ApprovedTextKept, HeldSteps

LEMMA TextClassifyFails ==
  ASSUME TypeOK, ApprovedTextKept, NEW p \in Scans, ClassifyFails(p)
  PROVE  ApprovedTextKept'
BY DEF ClassifyFails, Goto, Fault, ghosts, AfterClassify, TypeOK, ApprovedTextKept, HeldSteps

LEMMA TextPropose ==
  ASSUME TypeOK, ApprovedTextKept, NEW p \in Scans, Propose(p)
  PROVE  ApprovedTextKept'
BY DEF Propose, In, Move, Goto, Sound, ghosts, Proposable, TypeOK, ApprovedTextKept, HeldSteps

LEMMA TextProposeFails ==
  ASSUME TypeOK, ApprovedTextKept, NEW p \in Scans, ProposeFails(p)
  PROVE  ApprovedTextKept'
BY DEF ProposeFails, In, Move, Goto, Fault, Proposable, TypeOK, ApprovedTextKept, HeldSteps

LEMMA TextSendCard ==
  ASSUME TypeOK, ApprovedTextKept, NEW p \in Scans, SendCard(p)
  PROVE  ApprovedTextKept'
BY DEF SendCard, Goto, Sound, Fault, rowVars, TypeOK, ApprovedTextKept, HeldSteps

LEMMA TextBeginPublish ==
  ASSUME TypeOK, ApprovedTextKept, NEW p \in Publishers, NEW r \in Replies, BeginPublish(p, r)
  PROVE  ApprovedTextKept'
BY DEF BeginPublish, In, Sound, rowVars, ghosts, TypeOK, ApprovedTextKept, HeldSteps

LEMMA TextClaim ==
  ASSUME TypeOK, ApprovedTextKept, NEW p \in Publishers, Claim(p)
  PROVE  ApprovedTextKept'
BY DEF Claim, In, Move, Goto, Sound, Claimable, TypeOK, ApprovedTextKept, HeldSteps

LEMMA TextClaimLost ==
  ASSUME TypeOK, ApprovedTextKept, NEW p \in Publishers, ClaimLost(p)
  PROVE  ApprovedTextKept'
BY DEF ClaimLost, In, Move, Goto, Fault, Claimable, TypeOK, ApprovedTextKept, HeldSteps

LEMMA TextPublish ==
  ASSUME TypeOK, ApprovedTextKept, NEW p \in Publishers, Publish(p)
  PROVE  ApprovedTextKept'
BY DEF Publish, Goto, Sound, rowVars, TypeOK, ApprovedTextKept, HeldSteps

LEMMA TextPublishFails ==
  ASSUME TypeOK, ApprovedTextKept, NEW p \in Publishers, PublishFails(p)
  PROVE  ApprovedTextKept'
BY DEF PublishFails, Fault, rowVars, TypeOK, ApprovedTextKept, HeldSteps

LEMMA TextRecord ==
  ASSUME TypeOK, ApprovedTextKept, NEW p \in Publishers, Record(p)
  PROVE  ApprovedTextKept'
BY DEF Record, In, Move, Goto, Sound, ghosts, TypeOK, ApprovedTextKept, HeldSteps

LEMMA TextRecordFails ==
  ASSUME TypeOK, ApprovedTextKept, NEW p \in Publishers, RecordFails(p)
  PROVE  ApprovedTextKept'
BY DEF RecordFails, In, Move, Fault, TypeOK, ApprovedTextKept, HeldSteps

LEMMA TextGiveUp ==
  ASSUME TypeOK, ApprovedTextKept, NEW p \in Publishers, GiveUp(p)
  PROVE  ApprovedTextKept'
BY DEF GiveUp, In, Move, Goto, Sound, ghosts, GiveBackable, Retries, TypeOK, ApprovedTextKept,
    HeldSteps

LEMMA TextCrash ==
  ASSUME TypeOK, ApprovedTextKept, NEW p \in Workers, Crash(p)
  PROVE  ApprovedTextKept'
BY DEF Crash, Goto, Fault, rowVars, HeldSteps, TypeOK, ApprovedTextKept

LEMMA CountDiscover ==
  ASSUME TypeOK, Holding, Counted, HolderCount, NEW r \in Replies, Discover(r)
  PROVE  (Counted /\ HolderCount)'
BY AttemptsAssumption, WorkersAssumption DEF Discover, In, Move, Sound, workVars, ghosts,
    TypeOK, Holding, Roles, OneHolder, HolderStatus, Counted, HolderCount, BeforeDecision,
    HeldSteps

LEMMA CountUnlist ==
  ASSUME TypeOK, Holding, Counted, HolderCount, NEW r \in Replies, Unlist(r)
  PROVE  (Counted /\ HolderCount)'
BY AttemptsAssumption, WorkersAssumption DEF Unlist, In, rowVars, workVars, ghosts, TypeOK,
    Holding, Roles, OneHolder, HolderStatus, Counted, HolderCount, BeforeDecision, HeldSteps

LEMMA CountDecide ==
  ASSUME TypeOK, Holding, Counted, HolderCount, NEW r \in Replies, Decide(r)
  PROVE  (Counted /\ HolderCount)'
BY AttemptsAssumption, WorkersAssumption DEF Decide, In, Move, Sound, workVars, Open, TypeOK,
    Holding, Roles, OneHolder, HolderStatus, Counted, HolderCount, BeforeDecision, HeldSteps

LEMMA CountEdit ==
  ASSUME TypeOK, Holding, Counted, HolderCount, NEW r \in Replies, NEW t \in Answers, Edit(r, t)
  PROVE  (Counted /\ HolderCount)'
BY AttemptsAssumption, WorkersAssumption DEF Edit, In, Sound, workVars, ghosts, Editable,
    TypeOK, Holding, Roles, OneHolder, HolderStatus, Counted, HolderCount, BeforeDecision,
    HeldSteps

LEMMA CountBeginScan ==
  ASSUME TypeOK, Holding, Counted, HolderCount, NEW p \in Scans, NEW r \in Replies, BeginScan(p, r)
  PROVE  (Counted /\ HolderCount)'
BY AttemptsAssumption, WorkersAssumption DEF BeginScan, In, Sound, rowVars, ghosts, TypeOK,
    Holding, Roles, OneHolder, HolderStatus, Counted, HolderCount, BeforeDecision, HeldSteps

LEMMA CountBeginBackfill ==
  ASSUME TypeOK, Holding, Counted, HolderCount, NEW p \in Scans, NEW r \in Replies, BeginBackfill(p, r)
  PROVE  (Counted /\ HolderCount)'
BY AttemptsAssumption, WorkersAssumption DEF BeginBackfill, In, Sound, rowVars, ghosts, Leads,
    Unclassified, TypeOK, Holding, Roles, OneHolder, HolderStatus, Counted, HolderCount,
    BeforeDecision, HeldSteps

LEMMA CountClassify ==
  ASSUME TypeOK, Holding, Counted, HolderCount, NEW p \in Scans, Classify(p)
  PROVE  (Counted /\ HolderCount)'
<1>0. p \in Workers /\ at \in [Workers -> Replies]
  BY DEF TypeOK, Workers
<1>a. PICK r \in Replies : r = at[p]
  BY <1>0
<1>t. attempts \in [Replies -> Nat] /\ tries \in [Replies -> Nat] /\ count \in [Workers -> Nat]
  BY DEF TypeOK
<1>e. /\ pc[p] \notin HeldSteps
      /\ status' = status
      /\ pc'[p] \notin HeldSteps
      /\ \A x \in Workers : x # p => pc'[x] = pc[x]
      /\ at' = at
      /\ orphans' = orphans
      /\ \A x \in Workers : x # p => count'[x] = count[x]
      /\ attempts' = attempts
      /\ tries' = tries
      /\ stale' = stale
  BY <1>0, <1>a DEF Classify, Goto, Sound, ghosts, AfterClassify, Leads, TypeOK, HeldSteps
<1>1. Counted'
  BY <1>0, <1>a, <1>t, <1>e, AttemptsAssumption, WorkersAssumption DEF Roles, OneHolder,
      HolderStatus, Counted, HolderCount, BeforeDecision, Holding, HeldSteps, Workers
<1>2. HolderCount'
  BY <1>0, <1>a, <1>t, <1>e, AttemptsAssumption, WorkersAssumption DEF Roles, OneHolder,
      HolderStatus, Counted, HolderCount, BeforeDecision, Holding, HeldSteps, Workers
<1> QED
  BY <1>1, <1>2

LEMMA CountCreate ==
  ASSUME TypeOK, Holding, Counted, HolderCount, NEW p \in Scans, Create(p)
  PROVE  (Counted /\ HolderCount)'
BY CreateStep, AttemptsAssumption, WorkersAssumption DEF TypeOK, Workers, Holding,
    Roles, OneHolder, HolderStatus, Counted, HolderCount, BeforeDecision, HeldSteps

LEMMA CountLink ==
  ASSUME TypeOK, Holding, Counted, HolderCount, NEW p \in Scans, Link(p)
  PROVE  (Counted /\ HolderCount)'
<1>0. p \in Workers /\ at \in [Workers -> Replies]
  BY DEF TypeOK, Workers
<1>a. PICK r \in Replies : r = at[p]
  BY <1>0
<1>t. attempts \in [Replies -> Nat] /\ tries \in [Replies -> Nat] /\ count \in [Workers -> Nat]
  BY DEF TypeOK
<1>e. /\ pc[p] \notin HeldSteps
      /\ status' = status
      /\ pc'[p] \notin HeldSteps
      /\ \A x \in Workers : x # p => pc'[x] = pc[x]
      /\ at' = at
      /\ orphans' = orphans
      /\ \A x \in Workers : x # p => count'[x] = count[x]
      /\ attempts' = attempts
      /\ tries' = tries
      /\ stale' = stale
  BY <1>0, <1>a DEF Link, Goto, Sound, ghosts, AfterClassify, TypeOK, HeldSteps
<1>1. Counted'
  BY <1>0, <1>a, <1>t, <1>e, AttemptsAssumption, WorkersAssumption DEF Roles, OneHolder,
      HolderStatus, Counted, HolderCount, BeforeDecision, Holding, HeldSteps, Workers
<1>2. HolderCount'
  BY <1>0, <1>a, <1>t, <1>e, AttemptsAssumption, WorkersAssumption DEF Roles, OneHolder,
      HolderStatus, Counted, HolderCount, BeforeDecision, Holding, HeldSteps, Workers
<1> QED
  BY <1>1, <1>2

LEMMA CountClassifyFails ==
  ASSUME TypeOK, Holding, Counted, HolderCount, NEW p \in Scans, ClassifyFails(p)
  PROVE  (Counted /\ HolderCount)'
<1>0. p \in Workers /\ at \in [Workers -> Replies]
  BY DEF TypeOK, Workers
<1>a. PICK r \in Replies : r = at[p]
  BY <1>0
<1>t. attempts \in [Replies -> Nat] /\ tries \in [Replies -> Nat] /\ count \in [Workers -> Nat]
  BY DEF TypeOK
<1>e. /\ pc[p] \notin HeldSteps
      /\ status' = status
      /\ pc'[p] \notin HeldSteps
      /\ \A x \in Workers : x # p => pc'[x] = pc[x]
      /\ at' = at
      /\ orphans' = orphans
      /\ \A x \in Workers : x # p => count'[x] = count[x]
      /\ attempts' = attempts
      /\ tries' = tries
      /\ stale' = stale
  BY <1>0, <1>a DEF ClassifyFails, Goto, Fault, ghosts, AfterClassify, TypeOK, HeldSteps
<1>1. Counted'
  BY <1>0, <1>a, <1>t, <1>e, AttemptsAssumption, WorkersAssumption DEF Roles, OneHolder,
      HolderStatus, Counted, HolderCount, BeforeDecision, Holding, HeldSteps, Workers
<1>2. HolderCount'
  BY <1>0, <1>a, <1>t, <1>e, AttemptsAssumption, WorkersAssumption DEF Roles, OneHolder,
      HolderStatus, Counted, HolderCount, BeforeDecision, Holding, HeldSteps, Workers
<1> QED
  BY <1>1, <1>2

LEMMA CountPropose ==
  ASSUME TypeOK, Holding, Counted, HolderCount, NEW p \in Scans, Propose(p)
  PROVE  (Counted /\ HolderCount)'
<1>0. p \in Workers /\ at \in [Workers -> Replies]
  BY DEF TypeOK, Workers
<1>a. PICK r \in Replies : r = at[p]
  BY <1>0
<1>t. attempts \in [Replies -> Nat] /\ tries \in [Replies -> Nat] /\ count \in [Workers -> Nat]
  BY DEF TypeOK
<1>e. \/ /\ pc[p] = "draft"
         /\ status[r] = "discovered"
         /\ status'[r] = "pending_approval"
         /\ \A x \in Replies : x # r => status'[x] = status[x]
         /\ pc'[p] = "card"
         /\ \A x \in Workers : x # p => pc'[x] = pc[x]
         /\ at' = at
         /\ orphans' = orphans
         /\ count' = count
         /\ attempts' = attempts
         /\ tries' = tries
         /\ stale' = stale
      \/ /\ pc[p] = "draft"
         /\ status' = status
         /\ pc'[p] = "idle"
         /\ \A x \in Workers : x # p => pc'[x] = pc[x]
         /\ at' = at
         /\ orphans' = orphans
         /\ count'[p] = 0
         /\ \A x \in Workers : x # p => count'[x] = count[x]
         /\ attempts' = attempts
         /\ tries' = tries
         /\ stale' = stale
  BY <1>0, <1>a DEF Propose, In, Move, Goto, Sound, ghosts, Proposable, TypeOK, HeldSteps
<1>1. CASE /\ pc[p] = "draft"
           /\ status[r] = "discovered"
           /\ status'[r] = "pending_approval"
           /\ \A x \in Replies : x # r => status'[x] = status[x]
           /\ pc'[p] = "card"
           /\ \A x \in Workers : x # p => pc'[x] = pc[x]
           /\ at' = at
           /\ orphans' = orphans
           /\ count' = count
           /\ attempts' = attempts
           /\ tries' = tries
           /\ stale' = stale
  <2>1. Counted'
    BY <1>0, <1>a, <1>t, <1>1, AttemptsAssumption, WorkersAssumption DEF Roles, OneHolder,
        HolderStatus, Counted, HolderCount, BeforeDecision, Holding, HeldSteps, Workers
  <2>2. HolderCount'
    BY <1>0, <1>a, <1>t, <1>1, AttemptsAssumption, WorkersAssumption DEF Roles, OneHolder,
        HolderStatus, Counted, HolderCount, BeforeDecision, Holding, HeldSteps, Workers
  <2> QED
    BY <2>1, <2>2
<1>2. CASE /\ pc[p] = "draft"
           /\ status' = status
           /\ pc'[p] = "idle"
           /\ \A x \in Workers : x # p => pc'[x] = pc[x]
           /\ at' = at
           /\ orphans' = orphans
           /\ count'[p] = 0
           /\ \A x \in Workers : x # p => count'[x] = count[x]
           /\ attempts' = attempts
           /\ tries' = tries
           /\ stale' = stale
  <2>1. Counted'
    BY <1>0, <1>a, <1>t, <1>2, AttemptsAssumption, WorkersAssumption DEF Roles, OneHolder,
        HolderStatus, Counted, HolderCount, BeforeDecision, Holding, HeldSteps, Workers
  <2>2. HolderCount'
    BY <1>0, <1>a, <1>t, <1>2, AttemptsAssumption, WorkersAssumption DEF Roles, OneHolder,
        HolderStatus, Counted, HolderCount, BeforeDecision, Holding, HeldSteps, Workers
  <2> QED
    BY <2>1, <2>2
<1> QED
  BY <1>e, <1>1, <1>2

LEMMA CountProposeFails ==
  ASSUME TypeOK, Holding, Counted, HolderCount, NEW p \in Scans, ProposeFails(p)
  PROVE  (Counted /\ HolderCount)'
<1>0. p \in Workers /\ at \in [Workers -> Replies]
  BY DEF TypeOK, Workers
<1>a. PICK r \in Replies : r = at[p]
  BY <1>0
<1>t. attempts \in [Replies -> Nat] /\ tries \in [Replies -> Nat] /\ count \in [Workers -> Nat]
  BY DEF TypeOK
<1>e. \/ /\ pc[p] = "draft"
         /\ status[r] = "discovered"
         /\ status'[r] = "pending_approval"
         /\ \A x \in Replies : x # r => status'[x] = status[x]
         /\ pc'[p] = "idle"
         /\ \A x \in Workers : x # p => pc'[x] = pc[x]
         /\ at' = at
         /\ orphans' = orphans
         /\ count'[p] = 0
         /\ \A x \in Workers : x # p => count'[x] = count[x]
         /\ attempts' = attempts
         /\ tries' = tries
         /\ stale' = stale
      \/ /\ pc[p] = "draft"
         /\ status' = status
         /\ pc'[p] = "idle"
         /\ \A x \in Workers : x # p => pc'[x] = pc[x]
         /\ at' = at
         /\ orphans' = orphans
         /\ count'[p] = 0
         /\ \A x \in Workers : x # p => count'[x] = count[x]
         /\ attempts' = attempts
         /\ tries' = tries
         /\ stale' = stale
  BY <1>0, <1>a DEF ProposeFails, In, Move, Goto, Fault, Proposable, TypeOK, HeldSteps
<1>1. CASE /\ pc[p] = "draft"
           /\ status[r] = "discovered"
           /\ status'[r] = "pending_approval"
           /\ \A x \in Replies : x # r => status'[x] = status[x]
           /\ pc'[p] = "idle"
           /\ \A x \in Workers : x # p => pc'[x] = pc[x]
           /\ at' = at
           /\ orphans' = orphans
           /\ count'[p] = 0
           /\ \A x \in Workers : x # p => count'[x] = count[x]
           /\ attempts' = attempts
           /\ tries' = tries
           /\ stale' = stale
  <2>1. Counted'
    BY <1>0, <1>a, <1>t, <1>1, AttemptsAssumption, WorkersAssumption DEF Roles, OneHolder,
        HolderStatus, Counted, HolderCount, BeforeDecision, Holding, HeldSteps, Workers
  <2>2. HolderCount'
    BY <1>0, <1>a, <1>t, <1>1, AttemptsAssumption, WorkersAssumption DEF Roles, OneHolder,
        HolderStatus, Counted, HolderCount, BeforeDecision, Holding, HeldSteps, Workers
  <2> QED
    BY <2>1, <2>2
<1>2. CASE /\ pc[p] = "draft"
           /\ status' = status
           /\ pc'[p] = "idle"
           /\ \A x \in Workers : x # p => pc'[x] = pc[x]
           /\ at' = at
           /\ orphans' = orphans
           /\ count'[p] = 0
           /\ \A x \in Workers : x # p => count'[x] = count[x]
           /\ attempts' = attempts
           /\ tries' = tries
           /\ stale' = stale
  <2>1. Counted'
    BY <1>0, <1>a, <1>t, <1>2, AttemptsAssumption, WorkersAssumption DEF Roles, OneHolder,
        HolderStatus, Counted, HolderCount, BeforeDecision, Holding, HeldSteps, Workers
  <2>2. HolderCount'
    BY <1>0, <1>a, <1>t, <1>2, AttemptsAssumption, WorkersAssumption DEF Roles, OneHolder,
        HolderStatus, Counted, HolderCount, BeforeDecision, Holding, HeldSteps, Workers
  <2> QED
    BY <2>1, <2>2
<1> QED
  BY <1>e, <1>1, <1>2

LEMMA CountSendCard ==
  ASSUME TypeOK, Holding, Counted, HolderCount, NEW p \in Scans, SendCard(p)
  PROVE  (Counted /\ HolderCount)'
<1>0. p \in Workers /\ at \in [Workers -> Replies]
  BY DEF TypeOK, Workers
<1>a. PICK r \in Replies : r = at[p]
  BY <1>0
<1>t. attempts \in [Replies -> Nat] /\ tries \in [Replies -> Nat] /\ count \in [Workers -> Nat]
  BY DEF TypeOK
<1>e. /\ pc[p] = "card"
      /\ status' = status
      /\ pc'[p] = "idle"
      /\ \A x \in Workers : x # p => pc'[x] = pc[x]
      /\ at' = at
      /\ orphans' = orphans
      /\ count'[p] = 0
      /\ \A x \in Workers : x # p => count'[x] = count[x]
      /\ attempts' = attempts
      /\ tries' = tries
      /\ stale' = stale
  BY <1>0, <1>a DEF SendCard, Goto, Sound, Fault, rowVars, TypeOK, HeldSteps
<1>1. Counted'
  BY <1>0, <1>a, <1>t, <1>e, AttemptsAssumption, WorkersAssumption DEF Roles, OneHolder,
      HolderStatus, Counted, HolderCount, BeforeDecision, Holding, HeldSteps, Workers
<1>2. HolderCount'
  BY <1>0, <1>a, <1>t, <1>e, AttemptsAssumption, WorkersAssumption DEF Roles, OneHolder,
      HolderStatus, Counted, HolderCount, BeforeDecision, Holding, HeldSteps, Workers
<1> QED
  BY <1>1, <1>2

LEMMA CountBeginPublish ==
  ASSUME TypeOK, Holding, Counted, HolderCount, NEW p \in Publishers, NEW r \in Replies, BeginPublish(p, r)
  PROVE  (Counted /\ HolderCount)'
BY AttemptsAssumption, WorkersAssumption DEF BeginPublish, In, Sound, rowVars, ghosts, TypeOK,
    Holding, Roles, OneHolder, HolderStatus, Counted, HolderCount, BeforeDecision, HeldSteps

LEMMA CountClaim ==
  ASSUME TypeOK, Holding, Counted, HolderCount, NEW p \in Publishers, Claim(p)
  PROVE  (Counted /\ HolderCount)'
<1>0. p \in Workers /\ at \in [Workers -> Replies]
  BY DEF TypeOK, Workers
<1>a. PICK r \in Replies : r = at[p]
  BY <1>0
<1>t. attempts \in [Replies -> Nat] /\ tries \in [Replies -> Nat] /\ count \in [Workers -> Nat]
  BY DEF TypeOK
<1>e. \/ /\ pc[p] = "claim"
         /\ status[r] = "approved"
         /\ status'[r] = "posting"
         /\ \A x \in Replies : x # r => status'[x] = status[x]
         /\ pc'[p] = "publish"
         /\ \A x \in Workers : x # p => pc'[x] = pc[x]
         /\ at' = at
         /\ orphans' = orphans
         /\ count'[p] = count[p] + 1
         /\ \A x \in Workers : x # p => count'[x] = count[x]
         /\ attempts'[r] = count[p] + 1
         /\ \A x \in Replies : x # r => attempts'[x] = attempts[x]
         /\ tries' = tries
         /\ stale' = IF attempts[r] # count[p] THEN stale \cup {r} ELSE stale
      \/ /\ pc[p] = "claim"
         /\ status' = status
         /\ pc'[p] = "idle"
         /\ \A x \in Workers : x # p => pc'[x] = pc[x]
         /\ at' = at
         /\ orphans' = orphans
         /\ count'[p] = 0
         /\ \A x \in Workers : x # p => count'[x] = count[x]
         /\ attempts' = attempts
         /\ tries' = tries
         /\ stale' = stale
  BY <1>0, <1>a DEF Claim, In, Move, Goto, Sound, Claimable, TypeOK, HeldSteps
<1>1. CASE /\ pc[p] = "claim"
           /\ status[r] = "approved"
           /\ status'[r] = "posting"
           /\ \A x \in Replies : x # r => status'[x] = status[x]
           /\ pc'[p] = "publish"
           /\ \A x \in Workers : x # p => pc'[x] = pc[x]
           /\ at' = at
           /\ orphans' = orphans
           /\ count'[p] = count[p] + 1
           /\ \A x \in Workers : x # p => count'[x] = count[x]
           /\ attempts'[r] = count[p] + 1
           /\ \A x \in Replies : x # r => attempts'[x] = attempts[x]
           /\ tries' = tries
           /\ stale' = IF attempts[r] # count[p] THEN stale \cup {r} ELSE stale
  <2>1. Counted'
    BY <1>0, <1>a, <1>t, <1>1, AttemptsAssumption, WorkersAssumption DEF Roles, OneHolder,
        HolderStatus, Counted, HolderCount, BeforeDecision, Holding, HeldSteps, Workers
  <2>2. HolderCount'
    BY <1>0, <1>a, <1>t, <1>1, AttemptsAssumption, WorkersAssumption DEF Roles, OneHolder,
        HolderStatus, Counted, HolderCount, BeforeDecision, Holding, HeldSteps, Workers
  <2> QED
    BY <2>1, <2>2
<1>2. CASE /\ pc[p] = "claim"
           /\ status' = status
           /\ pc'[p] = "idle"
           /\ \A x \in Workers : x # p => pc'[x] = pc[x]
           /\ at' = at
           /\ orphans' = orphans
           /\ count'[p] = 0
           /\ \A x \in Workers : x # p => count'[x] = count[x]
           /\ attempts' = attempts
           /\ tries' = tries
           /\ stale' = stale
  <2>1. Counted'
    BY <1>0, <1>a, <1>t, <1>2, AttemptsAssumption, WorkersAssumption DEF Roles, OneHolder,
        HolderStatus, Counted, HolderCount, BeforeDecision, Holding, HeldSteps, Workers
  <2>2. HolderCount'
    BY <1>0, <1>a, <1>t, <1>2, AttemptsAssumption, WorkersAssumption DEF Roles, OneHolder,
        HolderStatus, Counted, HolderCount, BeforeDecision, Holding, HeldSteps, Workers
  <2> QED
    BY <2>1, <2>2
<1> QED
  BY <1>e, <1>1, <1>2

LEMMA CountClaimLost ==
  ASSUME TypeOK, Holding, Counted, HolderCount, NEW p \in Publishers, ClaimLost(p)
  PROVE  (Counted /\ HolderCount)'
<1>0. p \in Workers /\ at \in [Workers -> Replies]
  BY DEF TypeOK, Workers
<1>a. PICK r \in Replies : r = at[p]
  BY <1>0
<1>t. attempts \in [Replies -> Nat] /\ tries \in [Replies -> Nat] /\ count \in [Workers -> Nat]
  BY DEF TypeOK
<1>e. /\ pc[p] = "claim"
      /\ status[r] = "approved"
      /\ status'[r] = "posting"
      /\ \A x \in Replies : x # r => status'[x] = status[x]
      /\ pc'[p] = "idle"
      /\ \A x \in Workers : x # p => pc'[x] = pc[x]
      /\ at' = at
      /\ orphans' = orphans \cup {r}
      /\ count'[p] = 0
      /\ \A x \in Workers : x # p => count'[x] = count[x]
      /\ attempts'[r] = count[p] + 1
      /\ \A x \in Replies : x # r => attempts'[x] = attempts[x]
      /\ tries' = tries
      /\ stale' = IF attempts[r] # count[p] THEN stale \cup {r} ELSE stale
  BY <1>0, <1>a DEF ClaimLost, In, Move, Goto, Fault, Claimable, TypeOK, HeldSteps
<1>1. Counted'
  BY <1>0, <1>a, <1>t, <1>e, AttemptsAssumption, WorkersAssumption DEF Roles, OneHolder,
      HolderStatus, Counted, HolderCount, BeforeDecision, Holding, HeldSteps, Workers
<1>2. HolderCount'
  BY <1>0, <1>a, <1>t, <1>e, AttemptsAssumption, WorkersAssumption DEF Roles, OneHolder,
      HolderStatus, Counted, HolderCount, BeforeDecision, Holding, HeldSteps, Workers
<1> QED
  BY <1>1, <1>2

LEMMA CountPublish ==
  ASSUME TypeOK, Holding, Counted, HolderCount, NEW p \in Publishers, Publish(p)
  PROVE  (Counted /\ HolderCount)'
<1>0. p \in Workers /\ at \in [Workers -> Replies]
  BY DEF TypeOK, Workers
<1>a. PICK r \in Replies : r = at[p]
  BY <1>0
<1>t. attempts \in [Replies -> Nat] /\ tries \in [Replies -> Nat] /\ count \in [Workers -> Nat]
  BY DEF TypeOK
<1>e. /\ pc[p] = "publish"
      /\ status' = status
      /\ pc'[p] = "record"
      /\ \A x \in Workers : x # p => pc'[x] = pc[x]
      /\ at' = at
      /\ orphans' = orphans
      /\ count' = count
      /\ attempts' = attempts
      /\ tries'[r] = tries[r] + 1
      /\ \A x \in Replies : x # r => tries'[x] = tries[x]
      /\ stale' = stale
  BY <1>0, <1>a DEF Publish, Goto, Sound, rowVars, TypeOK, HeldSteps
<1>1. Counted'
  BY <1>0, <1>a, <1>t, <1>e, AttemptsAssumption, WorkersAssumption DEF Roles, OneHolder,
      HolderStatus, Counted, HolderCount, BeforeDecision, Holding, HeldSteps, Workers
<1>2. HolderCount'
  BY <1>0, <1>a, <1>t, <1>e, AttemptsAssumption, WorkersAssumption DEF Roles, OneHolder,
      HolderStatus, Counted, HolderCount, BeforeDecision, Holding, HeldSteps, Workers
<1> QED
  BY <1>1, <1>2

LEMMA CountPublishFails ==
  ASSUME TypeOK, Holding, Counted, HolderCount, NEW p \in Publishers, PublishFails(p)
  PROVE  (Counted /\ HolderCount)'
<1>0. p \in Workers /\ at \in [Workers -> Replies]
  BY DEF TypeOK, Workers
<1>a. PICK r \in Replies : r = at[p]
  BY <1>0
<1>t. attempts \in [Replies -> Nat] /\ tries \in [Replies -> Nat] /\ count \in [Workers -> Nat]
  BY DEF TypeOK
<1>e. /\ pc[p] = "publish"
      /\ status' = status
      /\ pc'[p] = "giveUp"
      /\ \A x \in Workers : x # p => pc'[x] = pc[x]
      /\ at' = at
      /\ orphans' = orphans
      /\ count' = count
      /\ attempts' = attempts
      /\ tries'[r] = tries[r] + 1
      /\ \A x \in Replies : x # r => tries'[x] = tries[x]
      /\ stale' = stale
  BY <1>0, <1>a DEF PublishFails, Fault, rowVars, TypeOK, HeldSteps
<1>1. Counted'
  BY <1>0, <1>a, <1>t, <1>e, AttemptsAssumption, WorkersAssumption DEF Roles, OneHolder,
      HolderStatus, Counted, HolderCount, BeforeDecision, Holding, HeldSteps, Workers
<1>2. HolderCount'
  BY <1>0, <1>a, <1>t, <1>e, AttemptsAssumption, WorkersAssumption DEF Roles, OneHolder,
      HolderStatus, Counted, HolderCount, BeforeDecision, Holding, HeldSteps, Workers
<1> QED
  BY <1>1, <1>2

LEMMA CountRecord ==
  ASSUME TypeOK, Holding, Counted, HolderCount, NEW p \in Publishers, Record(p)
  PROVE  (Counted /\ HolderCount)'
<1>0. p \in Workers /\ at \in [Workers -> Replies]
  BY DEF TypeOK, Workers
<1>a. PICK r \in Replies : r = at[p]
  BY <1>0
<1>t. attempts \in [Replies -> Nat] /\ tries \in [Replies -> Nat] /\ count \in [Workers -> Nat]
  BY DEF TypeOK
<1>e. \/ /\ pc[p] = "record"
         /\ status[r] = "posting"
         /\ status'[r] = "posted"
         /\ \A x \in Replies : x # r => status'[x] = status[x]
         /\ pc'[p] = "idle"
         /\ \A x \in Workers : x # p => pc'[x] = pc[x]
         /\ at' = at
         /\ orphans' = orphans
         /\ count'[p] = 0
         /\ \A x \in Workers : x # p => count'[x] = count[x]
         /\ attempts' = attempts
         /\ tries' = tries
         /\ stale' = stale
      \/ /\ pc[p] = "record"
         /\ status[r] # "posting"
         /\ status' = status
         /\ pc'[p] = "idle"
         /\ \A x \in Workers : x # p => pc'[x] = pc[x]
         /\ at' = at
         /\ orphans' = orphans
         /\ count'[p] = 0
         /\ \A x \in Workers : x # p => count'[x] = count[x]
         /\ attempts' = attempts
         /\ tries' = tries
         /\ stale' = stale
  BY <1>0, <1>a DEF Record, In, Move, Goto, Sound, ghosts, TypeOK, HeldSteps
<1>1. CASE /\ pc[p] = "record"
           /\ status[r] = "posting"
           /\ status'[r] = "posted"
           /\ \A x \in Replies : x # r => status'[x] = status[x]
           /\ pc'[p] = "idle"
           /\ \A x \in Workers : x # p => pc'[x] = pc[x]
           /\ at' = at
           /\ orphans' = orphans
           /\ count'[p] = 0
           /\ \A x \in Workers : x # p => count'[x] = count[x]
           /\ attempts' = attempts
           /\ tries' = tries
           /\ stale' = stale
  <2>1. Counted'
    BY <1>0, <1>a, <1>t, <1>1, AttemptsAssumption, WorkersAssumption DEF Roles, OneHolder,
        HolderStatus, Counted, HolderCount, BeforeDecision, Holding, HeldSteps, Workers
  <2>2. HolderCount'
    BY <1>0, <1>a, <1>t, <1>1, AttemptsAssumption, WorkersAssumption DEF Roles, OneHolder,
        HolderStatus, Counted, HolderCount, BeforeDecision, Holding, HeldSteps, Workers
  <2> QED
    BY <2>1, <2>2
<1>2. CASE /\ pc[p] = "record"
           /\ status[r] # "posting"
           /\ status' = status
           /\ pc'[p] = "idle"
           /\ \A x \in Workers : x # p => pc'[x] = pc[x]
           /\ at' = at
           /\ orphans' = orphans
           /\ count'[p] = 0
           /\ \A x \in Workers : x # p => count'[x] = count[x]
           /\ attempts' = attempts
           /\ tries' = tries
           /\ stale' = stale
  <2>1. Counted'
    BY <1>0, <1>a, <1>t, <1>2, AttemptsAssumption, WorkersAssumption DEF Roles, OneHolder,
        HolderStatus, Counted, HolderCount, BeforeDecision, Holding, HeldSteps, Workers
  <2>2. HolderCount'
    BY <1>0, <1>a, <1>t, <1>2, AttemptsAssumption, WorkersAssumption DEF Roles, OneHolder,
        HolderStatus, Counted, HolderCount, BeforeDecision, Holding, HeldSteps, Workers
  <2> QED
    BY <2>1, <2>2
<1> QED
  BY <1>e, <1>1, <1>2

LEMMA CountRecordFails ==
  ASSUME TypeOK, Holding, Counted, HolderCount, NEW p \in Publishers, RecordFails(p)
  PROVE  (Counted /\ HolderCount)'
BY AttemptsAssumption, WorkersAssumption DEF RecordFails, In, Move, Fault, TypeOK, Holding,
    Roles, OneHolder, HolderStatus, Counted, HolderCount, BeforeDecision, HeldSteps

LEMMA CountGiveUp ==
  ASSUME TypeOK, Holding, Counted, HolderCount, NEW p \in Publishers, GiveUp(p)
  PROVE  (Counted /\ HolderCount)'
<1>0. p \in Workers /\ at \in [Workers -> Replies]
  BY DEF TypeOK, Workers
<1>a. PICK r \in Replies : r = at[p]
  BY <1>0
<1>t. attempts \in [Replies -> Nat] /\ tries \in [Replies -> Nat] /\ count \in [Workers -> Nat]
  BY DEF TypeOK
<1>e. \/ /\ pc[p] = "giveUp"
         /\ status[r] = "posting"
         /\ count[p] < MaxAttempts
         /\ status'[r] = "approved"
         /\ \A x \in Replies : x # r => status'[x] = status[x]
         /\ pc'[p] = "idle"
         /\ \A x \in Workers : x # p => pc'[x] = pc[x]
         /\ at' = at
         /\ orphans' = orphans
         /\ count'[p] = 0
         /\ \A x \in Workers : x # p => count'[x] = count[x]
         /\ attempts' = attempts
         /\ tries' = tries
         /\ stale' = stale
      \/ /\ pc[p] = "giveUp"
         /\ status[r] = "posting"
         /\ status'[r] = "failed"
         /\ \A x \in Replies : x # r => status'[x] = status[x]
         /\ pc'[p] = "idle"
         /\ \A x \in Workers : x # p => pc'[x] = pc[x]
         /\ at' = at
         /\ orphans' = orphans
         /\ count'[p] = 0
         /\ \A x \in Workers : x # p => count'[x] = count[x]
         /\ attempts' = attempts
         /\ tries' = tries
         /\ stale' = stale
      \/ /\ pc[p] = "giveUp"
         /\ status[r] # "posting"
         /\ status' = status
         /\ pc'[p] = "idle"
         /\ \A x \in Workers : x # p => pc'[x] = pc[x]
         /\ at' = at
         /\ orphans' = orphans
         /\ count'[p] = 0
         /\ \A x \in Workers : x # p => count'[x] = count[x]
         /\ attempts' = attempts
         /\ tries' = tries
         /\ stale' = stale
  BY <1>0, <1>a DEF GiveUp, In, Move, Goto, Sound, ghosts, GiveBackable, Retries, TypeOK,
      HeldSteps
<1>1. CASE /\ pc[p] = "giveUp"
           /\ status[r] = "posting"
           /\ count[p] < MaxAttempts
           /\ status'[r] = "approved"
           /\ \A x \in Replies : x # r => status'[x] = status[x]
           /\ pc'[p] = "idle"
           /\ \A x \in Workers : x # p => pc'[x] = pc[x]
           /\ at' = at
           /\ orphans' = orphans
           /\ count'[p] = 0
           /\ \A x \in Workers : x # p => count'[x] = count[x]
           /\ attempts' = attempts
           /\ tries' = tries
           /\ stale' = stale
  <2>1. Counted'
    BY <1>0, <1>a, <1>t, <1>1, AttemptsAssumption, WorkersAssumption DEF Roles, OneHolder,
        HolderStatus, Counted, HolderCount, BeforeDecision, Holding, HeldSteps, Workers
  <2>2. HolderCount'
    BY <1>0, <1>a, <1>t, <1>1, AttemptsAssumption, WorkersAssumption DEF Roles, OneHolder,
        HolderStatus, Counted, HolderCount, BeforeDecision, Holding, HeldSteps, Workers
  <2> QED
    BY <2>1, <2>2
<1>2. CASE /\ pc[p] = "giveUp"
           /\ status[r] = "posting"
           /\ status'[r] = "failed"
           /\ \A x \in Replies : x # r => status'[x] = status[x]
           /\ pc'[p] = "idle"
           /\ \A x \in Workers : x # p => pc'[x] = pc[x]
           /\ at' = at
           /\ orphans' = orphans
           /\ count'[p] = 0
           /\ \A x \in Workers : x # p => count'[x] = count[x]
           /\ attempts' = attempts
           /\ tries' = tries
           /\ stale' = stale
  <2>1. Counted'
    BY <1>0, <1>a, <1>t, <1>2, AttemptsAssumption, WorkersAssumption DEF Roles, OneHolder,
        HolderStatus, Counted, HolderCount, BeforeDecision, Holding, HeldSteps, Workers
  <2>2. HolderCount'
    BY <1>0, <1>a, <1>t, <1>2, AttemptsAssumption, WorkersAssumption DEF Roles, OneHolder,
        HolderStatus, Counted, HolderCount, BeforeDecision, Holding, HeldSteps, Workers
  <2> QED
    BY <2>1, <2>2
<1>3. CASE /\ pc[p] = "giveUp"
           /\ status[r] # "posting"
           /\ status' = status
           /\ pc'[p] = "idle"
           /\ \A x \in Workers : x # p => pc'[x] = pc[x]
           /\ at' = at
           /\ orphans' = orphans
           /\ count'[p] = 0
           /\ \A x \in Workers : x # p => count'[x] = count[x]
           /\ attempts' = attempts
           /\ tries' = tries
           /\ stale' = stale
  <2>1. Counted'
    BY <1>0, <1>a, <1>t, <1>3, AttemptsAssumption, WorkersAssumption DEF Roles, OneHolder,
        HolderStatus, Counted, HolderCount, BeforeDecision, Holding, HeldSteps, Workers
  <2>2. HolderCount'
    BY <1>0, <1>a, <1>t, <1>3, AttemptsAssumption, WorkersAssumption DEF Roles, OneHolder,
        HolderStatus, Counted, HolderCount, BeforeDecision, Holding, HeldSteps, Workers
  <2> QED
    BY <2>1, <2>2
<1> QED
  BY <1>e, <1>1, <1>2, <1>3

LEMMA CountCrash ==
  ASSUME TypeOK, Holding, Counted, HolderCount, NEW p \in Workers, Crash(p)
  PROVE  (Counted /\ HolderCount)'
<1>0. p \in Workers /\ at \in [Workers -> Replies]
  BY DEF TypeOK, Workers
<1>a. PICK r \in Replies : r = at[p]
  BY <1>0
<1>t. attempts \in [Replies -> Nat] /\ tries \in [Replies -> Nat] /\ count \in [Workers -> Nat]
  BY DEF TypeOK
<1>e. \/ /\ pc[p] \in HeldSteps
         /\ status' = status
         /\ pc'[p] = "idle"
         /\ \A x \in Workers : x # p => pc'[x] = pc[x]
         /\ at' = at
         /\ orphans' = orphans \cup {r}
         /\ count'[p] = 0
         /\ \A x \in Workers : x # p => count'[x] = count[x]
         /\ attempts' = attempts
         /\ tries' = tries
         /\ stale' = stale
      \/ /\ pc[p] = "card"
         /\ status' = status
         /\ pc'[p] = "idle"
         /\ \A x \in Workers : x # p => pc'[x] = pc[x]
         /\ at' = at
         /\ orphans' = orphans
         /\ count'[p] = 0
         /\ \A x \in Workers : x # p => count'[x] = count[x]
         /\ attempts' = attempts
         /\ tries' = tries
         /\ stale' = stale
      \/ /\ pc[p] \notin HeldSteps
         /\ pc[p] # "card"
         /\ status' = status
         /\ pc'[p] = "idle"
         /\ \A x \in Workers : x # p => pc'[x] = pc[x]
         /\ at' = at
         /\ orphans' = orphans
         /\ count'[p] = 0
         /\ \A x \in Workers : x # p => count'[x] = count[x]
         /\ attempts' = attempts
         /\ tries' = tries
         /\ stale' = stale
  BY <1>0, <1>a DEF Crash, Goto, Fault, rowVars, HeldSteps, TypeOK
<1>1. CASE /\ pc[p] \in HeldSteps
           /\ status' = status
           /\ pc'[p] = "idle"
           /\ \A x \in Workers : x # p => pc'[x] = pc[x]
           /\ at' = at
           /\ orphans' = orphans \cup {r}
           /\ count'[p] = 0
           /\ \A x \in Workers : x # p => count'[x] = count[x]
           /\ attempts' = attempts
           /\ tries' = tries
           /\ stale' = stale
  <2>1. Counted'
    BY <1>0, <1>a, <1>t, <1>1, AttemptsAssumption, WorkersAssumption DEF Roles, OneHolder,
        HolderStatus, Counted, HolderCount, BeforeDecision, Holding, HeldSteps, Workers
  <2>2. HolderCount'
    BY <1>0, <1>a, <1>t, <1>1, AttemptsAssumption, WorkersAssumption DEF Roles, OneHolder,
        HolderStatus, Counted, HolderCount, BeforeDecision, Holding, HeldSteps, Workers
  <2> QED
    BY <2>1, <2>2
<1>2. CASE /\ pc[p] = "card"
           /\ status' = status
           /\ pc'[p] = "idle"
           /\ \A x \in Workers : x # p => pc'[x] = pc[x]
           /\ at' = at
           /\ orphans' = orphans
           /\ count'[p] = 0
           /\ \A x \in Workers : x # p => count'[x] = count[x]
           /\ attempts' = attempts
           /\ tries' = tries
           /\ stale' = stale
  <2>1. Counted'
    BY <1>0, <1>a, <1>t, <1>2, AttemptsAssumption, WorkersAssumption DEF Roles, OneHolder,
        HolderStatus, Counted, HolderCount, BeforeDecision, Holding, HeldSteps, Workers
  <2>2. HolderCount'
    BY <1>0, <1>a, <1>t, <1>2, AttemptsAssumption, WorkersAssumption DEF Roles, OneHolder,
        HolderStatus, Counted, HolderCount, BeforeDecision, Holding, HeldSteps, Workers
  <2> QED
    BY <2>1, <2>2
<1>3. CASE /\ pc[p] \notin HeldSteps
           /\ pc[p] # "card"
           /\ status' = status
           /\ pc'[p] = "idle"
           /\ \A x \in Workers : x # p => pc'[x] = pc[x]
           /\ at' = at
           /\ orphans' = orphans
           /\ count'[p] = 0
           /\ \A x \in Workers : x # p => count'[x] = count[x]
           /\ attempts' = attempts
           /\ tries' = tries
           /\ stale' = stale
  <2>1. Counted'
    BY <1>0, <1>a, <1>t, <1>3, AttemptsAssumption, WorkersAssumption DEF Roles, OneHolder,
        HolderStatus, Counted, HolderCount, BeforeDecision, Holding, HeldSteps, Workers
  <2>2. HolderCount'
    BY <1>0, <1>a, <1>t, <1>3, AttemptsAssumption, WorkersAssumption DEF Roles, OneHolder,
        HolderStatus, Counted, HolderCount, BeforeDecision, Holding, HeldSteps, Workers
  <2> QED
    BY <2>1, <2>2
<1> QED
  BY <1>e, <1>1, <1>2, <1>3

LEMMA CardDiscover ==
  ASSUME TypeOK, CardOnItsWay, OneCard, Roles, NEW r \in Replies, Discover(r)
  PROVE  (CardOnItsWay /\ OneCard)'
BY WorkersAssumption DEF Discover, In, Move, Sound, workVars, ghosts, TypeOK, CardOnItsWay,
    OneCard, Roles, HeldSteps

LEMMA CardUnlist ==
  ASSUME TypeOK, CardOnItsWay, OneCard, Roles, NEW r \in Replies, Unlist(r)
  PROVE  (CardOnItsWay /\ OneCard)'
BY WorkersAssumption DEF Unlist, In, rowVars, workVars, ghosts, TypeOK, CardOnItsWay, OneCard,
    Roles, HeldSteps

LEMMA CardDecide ==
  ASSUME TypeOK, CardOnItsWay, OneCard, Roles, NEW r \in Replies, Decide(r)
  PROVE  (CardOnItsWay /\ OneCard)'
BY WorkersAssumption DEF Decide, In, Move, Sound, workVars, Open, TypeOK, CardOnItsWay, OneCard,
    Roles, HeldSteps

LEMMA CardEdit ==
  ASSUME TypeOK, CardOnItsWay, OneCard, Roles, NEW r \in Replies, NEW t \in Answers, Edit(r, t)
  PROVE  (CardOnItsWay /\ OneCard)'
BY WorkersAssumption DEF Edit, In, Sound, workVars, ghosts, Editable, TypeOK, CardOnItsWay,
    OneCard, Roles, HeldSteps

LEMMA CardBeginScan ==
  ASSUME TypeOK, CardOnItsWay, OneCard, Roles, NEW p \in Scans, NEW r \in Replies, BeginScan(p, r)
  PROVE  (CardOnItsWay /\ OneCard)'
BY WorkersAssumption DEF BeginScan, In, Sound, rowVars, ghosts, TypeOK, CardOnItsWay, OneCard,
    Roles, HeldSteps

LEMMA CardBeginBackfill ==
  ASSUME TypeOK, CardOnItsWay, OneCard, Roles, NEW p \in Scans, NEW r \in Replies, BeginBackfill(p, r)
  PROVE  (CardOnItsWay /\ OneCard)'
<1>1. CardOnItsWay'
  BY WorkersAssumption DEF BeginBackfill, In, Sound, rowVars, ghosts, Leads, Unclassified, TypeOK,
      Roles, CardOnItsWay, OneCard, HeldSteps
<1>2. OneCard'
  BY WorkersAssumption DEF BeginBackfill, In, Sound, rowVars, ghosts, Leads, Unclassified, TypeOK,
      Roles, CardOnItsWay, OneCard, HeldSteps
<1> QED
  BY <1>1, <1>2

LEMMA CardClassify ==
  ASSUME TypeOK, CardOnItsWay, OneCard, Roles, NEW p \in Scans, Classify(p)
  PROVE  (CardOnItsWay /\ OneCard)'
BY WorkersAssumption DEF Classify, Goto, Sound, ghosts, AfterClassify, Leads, TypeOK,
    CardOnItsWay, OneCard, Roles, HeldSteps

LEMMA CardCreate ==
  ASSUME TypeOK, CardOnItsWay, OneCard, Roles, NEW p \in Scans, Create(p)
  PROVE  (CardOnItsWay /\ OneCard)'
BY CreateStep, WorkersAssumption DEF TypeOK, Workers, CardOnItsWay, OneCard, Roles,
    HeldSteps

LEMMA CardLink ==
  ASSUME TypeOK, CardOnItsWay, OneCard, Roles, NEW p \in Scans, Link(p)
  PROVE  (CardOnItsWay /\ OneCard)'
BY WorkersAssumption DEF Link, Goto, Sound, ghosts, AfterClassify, TypeOK, CardOnItsWay,
    OneCard, Roles, HeldSteps

LEMMA CardClassifyFails ==
  ASSUME TypeOK, CardOnItsWay, OneCard, Roles, NEW p \in Scans, ClassifyFails(p)
  PROVE  (CardOnItsWay /\ OneCard)'
BY WorkersAssumption DEF ClassifyFails, Goto, Fault, ghosts, AfterClassify, TypeOK,
    CardOnItsWay, OneCard, Roles, HeldSteps

LEMMA CardPropose ==
  ASSUME TypeOK, CardOnItsWay, OneCard, Roles, NEW p \in Scans, Propose(p)
  PROVE  (CardOnItsWay /\ OneCard)'
<1>0. p \in Workers /\ at \in [Workers -> Replies]
  BY DEF TypeOK, Workers
<1>a. PICK r \in Replies : r = at[p]
  BY <1>0
<1>t. cards \in [Replies -> Nat] /\ cardless \subseteq Replies
  BY DEF TypeOK
<1>e. \/ /\ pc[p] = "draft"
         /\ status[r] = "discovered"
         /\ status'[r] = "pending_approval"
         /\ \A x \in Replies : x # r => status'[x] = status[x]
         /\ pc'[p] = "card"
         /\ \A x \in Workers : x # p => pc'[x] = pc[x]
         /\ at' = at
         /\ cards' = cards
         /\ cardless' = cardless
      \/ /\ pc[p] = "draft"
         /\ status' = status
         /\ pc'[p] = "idle"
         /\ \A x \in Workers : x # p => pc'[x] = pc[x]
         /\ at' = at
         /\ cards' = cards
         /\ cardless' = cardless
  BY <1>0, <1>a DEF Propose, In, Move, Goto, Sound, ghosts, Proposable, TypeOK, HeldSteps
<1>1. CASE /\ pc[p] = "draft"
           /\ status[r] = "discovered"
           /\ status'[r] = "pending_approval"
           /\ \A x \in Replies : x # r => status'[x] = status[x]
           /\ pc'[p] = "card"
           /\ \A x \in Workers : x # p => pc'[x] = pc[x]
           /\ at' = at
           /\ cards' = cards
           /\ cardless' = cardless
  <2>1. CardOnItsWay'
    BY <1>0, <1>a, <1>t, <1>1, WorkersAssumption DEF Roles, CardOnItsWay, OneCard, HeldSteps,
        Workers
  <2>2. OneCard'
    BY <1>0, <1>a, <1>t, <1>1, WorkersAssumption DEF Roles, CardOnItsWay, OneCard, HeldSteps,
        Workers
  <2> QED
    BY <2>1, <2>2
<1>2. CASE /\ pc[p] = "draft"
           /\ status' = status
           /\ pc'[p] = "idle"
           /\ \A x \in Workers : x # p => pc'[x] = pc[x]
           /\ at' = at
           /\ cards' = cards
           /\ cardless' = cardless
  <2>1. CardOnItsWay'
    BY <1>0, <1>a, <1>t, <1>2, WorkersAssumption DEF Roles, CardOnItsWay, OneCard, HeldSteps,
        Workers
  <2>2. OneCard'
    BY <1>0, <1>a, <1>t, <1>2, WorkersAssumption DEF Roles, CardOnItsWay, OneCard, HeldSteps,
        Workers
  <2> QED
    BY <2>1, <2>2
<1> QED
  BY <1>e, <1>1, <1>2

LEMMA CardProposeFails ==
  ASSUME TypeOK, CardOnItsWay, OneCard, Roles, NEW p \in Scans, ProposeFails(p)
  PROVE  (CardOnItsWay /\ OneCard)'
<1>0. p \in Workers /\ at \in [Workers -> Replies]
  BY DEF TypeOK, Workers
<1>a. PICK r \in Replies : r = at[p]
  BY <1>0
<1>t. cards \in [Replies -> Nat] /\ cardless \subseteq Replies
  BY DEF TypeOK
<1>e. \/ /\ pc[p] = "draft"
         /\ status[r] = "discovered"
         /\ status'[r] = "pending_approval"
         /\ \A x \in Replies : x # r => status'[x] = status[x]
         /\ pc'[p] = "idle"
         /\ \A x \in Workers : x # p => pc'[x] = pc[x]
         /\ at' = at
         /\ cards' = cards
         /\ cardless' = cardless \cup {r}
      \/ /\ pc[p] = "draft"
         /\ status' = status
         /\ pc'[p] = "idle"
         /\ \A x \in Workers : x # p => pc'[x] = pc[x]
         /\ at' = at
         /\ cards' = cards
         /\ cardless' = cardless
  BY <1>0, <1>a DEF ProposeFails, In, Move, Goto, Fault, Proposable, TypeOK, HeldSteps
<1>1. CASE /\ pc[p] = "draft"
           /\ status[r] = "discovered"
           /\ status'[r] = "pending_approval"
           /\ \A x \in Replies : x # r => status'[x] = status[x]
           /\ pc'[p] = "idle"
           /\ \A x \in Workers : x # p => pc'[x] = pc[x]
           /\ at' = at
           /\ cards' = cards
           /\ cardless' = cardless \cup {r}
  <2>1. CardOnItsWay'
    BY <1>0, <1>a, <1>t, <1>1, WorkersAssumption DEF Roles, CardOnItsWay, OneCard, HeldSteps,
        Workers
  <2>2. OneCard'
    BY <1>0, <1>a, <1>t, <1>1, WorkersAssumption DEF Roles, CardOnItsWay, OneCard, HeldSteps,
        Workers
  <2> QED
    BY <2>1, <2>2
<1>2. CASE /\ pc[p] = "draft"
           /\ status' = status
           /\ pc'[p] = "idle"
           /\ \A x \in Workers : x # p => pc'[x] = pc[x]
           /\ at' = at
           /\ cards' = cards
           /\ cardless' = cardless
  <2>1. CardOnItsWay'
    BY <1>0, <1>a, <1>t, <1>2, WorkersAssumption DEF Roles, CardOnItsWay, OneCard, HeldSteps,
        Workers
  <2>2. OneCard'
    BY <1>0, <1>a, <1>t, <1>2, WorkersAssumption DEF Roles, CardOnItsWay, OneCard, HeldSteps,
        Workers
  <2> QED
    BY <2>1, <2>2
<1> QED
  BY <1>e, <1>1, <1>2

LEMMA CardSendCard ==
  ASSUME TypeOK, CardOnItsWay, OneCard, Roles, NEW p \in Scans, SendCard(p)
  PROVE  (CardOnItsWay /\ OneCard)'
<1>0. p \in Workers /\ at \in [Workers -> Replies]
  BY DEF TypeOK, Workers
<1>a. PICK r \in Replies : r = at[p]
  BY <1>0
<1>t. cards \in [Replies -> Nat] /\ cardless \subseteq Replies
  BY DEF TypeOK
<1>e. \/ /\ pc[p] = "card"
         /\ status' = status
         /\ pc'[p] = "idle"
         /\ \A x \in Workers : x # p => pc'[x] = pc[x]
         /\ at' = at
         /\ cards'[r] = cards[r] + 1
         /\ \A x \in Replies : x # r => cards'[x] = cards[x]
         /\ cardless' = cardless
      \/ /\ pc[p] = "card"
         /\ status' = status
         /\ pc'[p] = "idle"
         /\ \A x \in Workers : x # p => pc'[x] = pc[x]
         /\ at' = at
         /\ cards' = cards
         /\ cardless' = cardless \cup {r}
  BY <1>0, <1>a DEF SendCard, Goto, Sound, Fault, rowVars, TypeOK, HeldSteps
<1>1. CASE /\ pc[p] = "card"
           /\ status' = status
           /\ pc'[p] = "idle"
           /\ \A x \in Workers : x # p => pc'[x] = pc[x]
           /\ at' = at
           /\ cards'[r] = cards[r] + 1
           /\ \A x \in Replies : x # r => cards'[x] = cards[x]
           /\ cardless' = cardless
  <2>1. CardOnItsWay'
    BY <1>0, <1>a, <1>t, <1>1, WorkersAssumption DEF Roles, CardOnItsWay, OneCard, HeldSteps,
        Workers
  <2>2. OneCard'
    BY <1>0, <1>a, <1>t, <1>1, WorkersAssumption DEF Roles, CardOnItsWay, OneCard, HeldSteps,
        Workers
  <2> QED
    BY <2>1, <2>2
<1>2. CASE /\ pc[p] = "card"
           /\ status' = status
           /\ pc'[p] = "idle"
           /\ \A x \in Workers : x # p => pc'[x] = pc[x]
           /\ at' = at
           /\ cards' = cards
           /\ cardless' = cardless \cup {r}
  <2>1. CardOnItsWay'
    BY <1>0, <1>a, <1>t, <1>2, WorkersAssumption DEF Roles, CardOnItsWay, OneCard, HeldSteps,
        Workers
  <2>2. OneCard'
    BY <1>0, <1>a, <1>t, <1>2, WorkersAssumption DEF Roles, CardOnItsWay, OneCard, HeldSteps,
        Workers
  <2> QED
    BY <2>1, <2>2
<1> QED
  BY <1>e, <1>1, <1>2

LEMMA CardBeginPublish ==
  ASSUME TypeOK, CardOnItsWay, OneCard, Roles, NEW p \in Publishers, NEW r \in Replies, BeginPublish(p, r)
  PROVE  (CardOnItsWay /\ OneCard)'
BY WorkersAssumption DEF BeginPublish, In, Sound, rowVars, ghosts, TypeOK, CardOnItsWay,
    OneCard, Roles, HeldSteps

LEMMA CardClaim ==
  ASSUME TypeOK, CardOnItsWay, OneCard, Roles, NEW p \in Publishers, Claim(p)
  PROVE  (CardOnItsWay /\ OneCard)'
<1>0. p \in Workers /\ at \in [Workers -> Replies]
  BY DEF TypeOK, Workers
<1>a. PICK r \in Replies : r = at[p]
  BY <1>0
<1>t. cards \in [Replies -> Nat] /\ cardless \subseteq Replies
  BY DEF TypeOK
<1>e. \/ /\ pc[p] = "claim"
         /\ status[r] = "approved"
         /\ status'[r] = "posting"
         /\ \A x \in Replies : x # r => status'[x] = status[x]
         /\ pc'[p] = "publish"
         /\ \A x \in Workers : x # p => pc'[x] = pc[x]
         /\ at' = at
         /\ cards' = cards
         /\ cardless' = cardless
      \/ /\ pc[p] = "claim"
         /\ status' = status
         /\ pc'[p] = "idle"
         /\ \A x \in Workers : x # p => pc'[x] = pc[x]
         /\ at' = at
         /\ cards' = cards
         /\ cardless' = cardless
  BY <1>0, <1>a DEF Claim, In, Move, Goto, Sound, Claimable, TypeOK, HeldSteps
<1>1. CASE /\ pc[p] = "claim"
           /\ status[r] = "approved"
           /\ status'[r] = "posting"
           /\ \A x \in Replies : x # r => status'[x] = status[x]
           /\ pc'[p] = "publish"
           /\ \A x \in Workers : x # p => pc'[x] = pc[x]
           /\ at' = at
           /\ cards' = cards
           /\ cardless' = cardless
  <2>1. CardOnItsWay'
    BY <1>0, <1>a, <1>t, <1>1, WorkersAssumption DEF Roles, CardOnItsWay, OneCard, HeldSteps,
        Workers
  <2>2. OneCard'
    BY <1>0, <1>a, <1>t, <1>1, WorkersAssumption DEF Roles, CardOnItsWay, OneCard, HeldSteps,
        Workers
  <2> QED
    BY <2>1, <2>2
<1>2. CASE /\ pc[p] = "claim"
           /\ status' = status
           /\ pc'[p] = "idle"
           /\ \A x \in Workers : x # p => pc'[x] = pc[x]
           /\ at' = at
           /\ cards' = cards
           /\ cardless' = cardless
  <2>1. CardOnItsWay'
    BY <1>0, <1>a, <1>t, <1>2, WorkersAssumption DEF Roles, CardOnItsWay, OneCard, HeldSteps,
        Workers
  <2>2. OneCard'
    BY <1>0, <1>a, <1>t, <1>2, WorkersAssumption DEF Roles, CardOnItsWay, OneCard, HeldSteps,
        Workers
  <2> QED
    BY <2>1, <2>2
<1> QED
  BY <1>e, <1>1, <1>2

LEMMA CardClaimLost ==
  ASSUME TypeOK, CardOnItsWay, OneCard, Roles, NEW p \in Publishers, ClaimLost(p)
  PROVE  (CardOnItsWay /\ OneCard)'
BY WorkersAssumption DEF ClaimLost, In, Move, Goto, Fault, Claimable, TypeOK, CardOnItsWay,
    OneCard, Roles, HeldSteps

LEMMA CardPublish ==
  ASSUME TypeOK, CardOnItsWay, OneCard, Roles, NEW p \in Publishers, Publish(p)
  PROVE  (CardOnItsWay /\ OneCard)'
BY WorkersAssumption DEF Publish, Goto, Sound, rowVars, TypeOK, CardOnItsWay, OneCard, Roles,
    HeldSteps

LEMMA CardPublishFails ==
  ASSUME TypeOK, CardOnItsWay, OneCard, Roles, NEW p \in Publishers, PublishFails(p)
  PROVE  (CardOnItsWay /\ OneCard)'
BY WorkersAssumption DEF PublishFails, Fault, rowVars, TypeOK, CardOnItsWay, OneCard, Roles,
    HeldSteps

LEMMA CardRecord ==
  ASSUME TypeOK, CardOnItsWay, OneCard, Roles, NEW p \in Publishers, Record(p)
  PROVE  (CardOnItsWay /\ OneCard)'
<1>0. p \in Workers /\ at \in [Workers -> Replies]
  BY DEF TypeOK, Workers
<1>a. PICK r \in Replies : r = at[p]
  BY <1>0
<1>t. cards \in [Replies -> Nat] /\ cardless \subseteq Replies
  BY DEF TypeOK
<1>e. \/ /\ pc[p] = "record"
         /\ status[r] = "posting"
         /\ status'[r] = "posted"
         /\ \A x \in Replies : x # r => status'[x] = status[x]
         /\ pc'[p] = "idle"
         /\ \A x \in Workers : x # p => pc'[x] = pc[x]
         /\ at' = at
         /\ cards' = cards
         /\ cardless' = cardless
      \/ /\ pc[p] = "record"
         /\ status[r] # "posting"
         /\ status' = status
         /\ pc'[p] = "idle"
         /\ \A x \in Workers : x # p => pc'[x] = pc[x]
         /\ at' = at
         /\ cards' = cards
         /\ cardless' = cardless
  BY <1>0, <1>a DEF Record, In, Move, Goto, Sound, ghosts, TypeOK, HeldSteps
<1>1. CASE /\ pc[p] = "record"
           /\ status[r] = "posting"
           /\ status'[r] = "posted"
           /\ \A x \in Replies : x # r => status'[x] = status[x]
           /\ pc'[p] = "idle"
           /\ \A x \in Workers : x # p => pc'[x] = pc[x]
           /\ at' = at
           /\ cards' = cards
           /\ cardless' = cardless
  <2>1. CardOnItsWay'
    BY <1>0, <1>a, <1>t, <1>1, WorkersAssumption DEF Roles, CardOnItsWay, OneCard, HeldSteps,
        Workers
  <2>2. OneCard'
    BY <1>0, <1>a, <1>t, <1>1, WorkersAssumption DEF Roles, CardOnItsWay, OneCard, HeldSteps,
        Workers
  <2> QED
    BY <2>1, <2>2
<1>2. CASE /\ pc[p] = "record"
           /\ status[r] # "posting"
           /\ status' = status
           /\ pc'[p] = "idle"
           /\ \A x \in Workers : x # p => pc'[x] = pc[x]
           /\ at' = at
           /\ cards' = cards
           /\ cardless' = cardless
  <2>1. CardOnItsWay'
    BY <1>0, <1>a, <1>t, <1>2, WorkersAssumption DEF Roles, CardOnItsWay, OneCard, HeldSteps,
        Workers
  <2>2. OneCard'
    BY <1>0, <1>a, <1>t, <1>2, WorkersAssumption DEF Roles, CardOnItsWay, OneCard, HeldSteps,
        Workers
  <2> QED
    BY <2>1, <2>2
<1> QED
  BY <1>e, <1>1, <1>2

LEMMA CardRecordFails ==
  ASSUME TypeOK, CardOnItsWay, OneCard, Roles, NEW p \in Publishers, RecordFails(p)
  PROVE  (CardOnItsWay /\ OneCard)'
<1>0. p \in Workers /\ at \in [Workers -> Replies]
  BY DEF TypeOK, Workers
<1>a. PICK r \in Replies : r = at[p]
  BY <1>0
<1>t. cards \in [Replies -> Nat] /\ cardless \subseteq Replies
  BY DEF TypeOK
<1>e. \/ /\ pc[p] = "record"
         /\ status[r] = "posting"
         /\ status'[r] = "posted"
         /\ \A x \in Replies : x # r => status'[x] = status[x]
         /\ pc'[p] = "giveUp"
         /\ \A x \in Workers : x # p => pc'[x] = pc[x]
         /\ at' = at
         /\ cards' = cards
         /\ cardless' = cardless
      \/ /\ pc[p] = "record"
         /\ status' = status
         /\ pc'[p] = "giveUp"
         /\ \A x \in Workers : x # p => pc'[x] = pc[x]
         /\ at' = at
         /\ cards' = cards
         /\ cardless' = cardless
  BY <1>0, <1>a DEF RecordFails, In, Move, Fault, TypeOK, HeldSteps
<1>1. CASE /\ pc[p] = "record"
           /\ status[r] = "posting"
           /\ status'[r] = "posted"
           /\ \A x \in Replies : x # r => status'[x] = status[x]
           /\ pc'[p] = "giveUp"
           /\ \A x \in Workers : x # p => pc'[x] = pc[x]
           /\ at' = at
           /\ cards' = cards
           /\ cardless' = cardless
  <2>1. CardOnItsWay'
    BY <1>0, <1>a, <1>t, <1>1, WorkersAssumption DEF Roles, CardOnItsWay, OneCard, HeldSteps,
        Workers
  <2>2. OneCard'
    BY <1>0, <1>a, <1>t, <1>1, WorkersAssumption DEF Roles, CardOnItsWay, OneCard, HeldSteps,
        Workers
  <2> QED
    BY <2>1, <2>2
<1>2. CASE /\ pc[p] = "record"
           /\ status' = status
           /\ pc'[p] = "giveUp"
           /\ \A x \in Workers : x # p => pc'[x] = pc[x]
           /\ at' = at
           /\ cards' = cards
           /\ cardless' = cardless
  <2>1. CardOnItsWay'
    BY <1>0, <1>a, <1>t, <1>2, WorkersAssumption DEF Roles, CardOnItsWay, OneCard, HeldSteps,
        Workers
  <2>2. OneCard'
    BY <1>0, <1>a, <1>t, <1>2, WorkersAssumption DEF Roles, CardOnItsWay, OneCard, HeldSteps,
        Workers
  <2> QED
    BY <2>1, <2>2
<1> QED
  BY <1>e, <1>1, <1>2

LEMMA CardGiveUp ==
  ASSUME TypeOK, CardOnItsWay, OneCard, Roles, NEW p \in Publishers, GiveUp(p)
  PROVE  (CardOnItsWay /\ OneCard)'
<1>0. p \in Workers /\ at \in [Workers -> Replies]
  BY DEF TypeOK, Workers
<1>a. PICK r \in Replies : r = at[p]
  BY <1>0
<1>t. cards \in [Replies -> Nat] /\ cardless \subseteq Replies
  BY DEF TypeOK
<1>e. \/ /\ pc[p] = "giveUp"
         /\ status[r] = "posting"
         /\ status'[r] = "approved"
         /\ \A x \in Replies : x # r => status'[x] = status[x]
         /\ pc'[p] = "idle"
         /\ \A x \in Workers : x # p => pc'[x] = pc[x]
         /\ at' = at
         /\ cards' = cards
         /\ cardless' = cardless
      \/ /\ pc[p] = "giveUp"
         /\ status[r] = "posting"
         /\ status'[r] = "failed"
         /\ \A x \in Replies : x # r => status'[x] = status[x]
         /\ pc'[p] = "idle"
         /\ \A x \in Workers : x # p => pc'[x] = pc[x]
         /\ at' = at
         /\ cards' = cards
         /\ cardless' = cardless
      \/ /\ pc[p] = "giveUp"
         /\ status[r] # "posting"
         /\ status' = status
         /\ pc'[p] = "idle"
         /\ \A x \in Workers : x # p => pc'[x] = pc[x]
         /\ at' = at
         /\ cards' = cards
         /\ cardless' = cardless
  BY <1>0, <1>a DEF GiveUp, In, Move, Goto, Sound, ghosts, GiveBackable, Retries, TypeOK,
      HeldSteps
<1>1. CASE /\ pc[p] = "giveUp"
           /\ status[r] = "posting"
           /\ status'[r] = "approved"
           /\ \A x \in Replies : x # r => status'[x] = status[x]
           /\ pc'[p] = "idle"
           /\ \A x \in Workers : x # p => pc'[x] = pc[x]
           /\ at' = at
           /\ cards' = cards
           /\ cardless' = cardless
  <2>1. CardOnItsWay'
    BY <1>0, <1>a, <1>t, <1>1, WorkersAssumption DEF Roles, CardOnItsWay, OneCard, HeldSteps,
        Workers
  <2>2. OneCard'
    BY <1>0, <1>a, <1>t, <1>1, WorkersAssumption DEF Roles, CardOnItsWay, OneCard, HeldSteps,
        Workers
  <2> QED
    BY <2>1, <2>2
<1>2. CASE /\ pc[p] = "giveUp"
           /\ status[r] = "posting"
           /\ status'[r] = "failed"
           /\ \A x \in Replies : x # r => status'[x] = status[x]
           /\ pc'[p] = "idle"
           /\ \A x \in Workers : x # p => pc'[x] = pc[x]
           /\ at' = at
           /\ cards' = cards
           /\ cardless' = cardless
  <2>1. CardOnItsWay'
    BY <1>0, <1>a, <1>t, <1>2, WorkersAssumption DEF Roles, CardOnItsWay, OneCard, HeldSteps,
        Workers
  <2>2. OneCard'
    BY <1>0, <1>a, <1>t, <1>2, WorkersAssumption DEF Roles, CardOnItsWay, OneCard, HeldSteps,
        Workers
  <2> QED
    BY <2>1, <2>2
<1>3. CASE /\ pc[p] = "giveUp"
           /\ status[r] # "posting"
           /\ status' = status
           /\ pc'[p] = "idle"
           /\ \A x \in Workers : x # p => pc'[x] = pc[x]
           /\ at' = at
           /\ cards' = cards
           /\ cardless' = cardless
  <2>1. CardOnItsWay'
    BY <1>0, <1>a, <1>t, <1>3, WorkersAssumption DEF Roles, CardOnItsWay, OneCard, HeldSteps,
        Workers
  <2>2. OneCard'
    BY <1>0, <1>a, <1>t, <1>3, WorkersAssumption DEF Roles, CardOnItsWay, OneCard, HeldSteps,
        Workers
  <2> QED
    BY <2>1, <2>2
<1> QED
  BY <1>e, <1>1, <1>2, <1>3

LEMMA CardCrash ==
  ASSUME TypeOK, CardOnItsWay, OneCard, Roles, NEW p \in Workers, Crash(p)
  PROVE  (CardOnItsWay /\ OneCard)'
<1>0. p \in Workers /\ at \in [Workers -> Replies]
  BY DEF TypeOK, Workers
<1>a. PICK r \in Replies : r = at[p]
  BY <1>0
<1>t. cards \in [Replies -> Nat] /\ cardless \subseteq Replies
  BY DEF TypeOK
<1>e. \/ /\ pc[p] \in HeldSteps
         /\ status' = status
         /\ pc'[p] = "idle"
         /\ \A x \in Workers : x # p => pc'[x] = pc[x]
         /\ at' = at
         /\ cards' = cards
         /\ cardless' = cardless
      \/ /\ pc[p] = "card"
         /\ status' = status
         /\ pc'[p] = "idle"
         /\ \A x \in Workers : x # p => pc'[x] = pc[x]
         /\ at' = at
         /\ cards' = cards
         /\ cardless' = cardless \cup {r}
      \/ /\ pc[p] \notin HeldSteps
         /\ pc[p] # "card"
         /\ status' = status
         /\ pc'[p] = "idle"
         /\ \A x \in Workers : x # p => pc'[x] = pc[x]
         /\ at' = at
         /\ cards' = cards
         /\ cardless' = cardless
  BY <1>0, <1>a DEF Crash, Goto, Fault, rowVars, HeldSteps, TypeOK
<1>1. CASE /\ pc[p] \in HeldSteps
           /\ status' = status
           /\ pc'[p] = "idle"
           /\ \A x \in Workers : x # p => pc'[x] = pc[x]
           /\ at' = at
           /\ cards' = cards
           /\ cardless' = cardless
  <2>1. CardOnItsWay'
    BY <1>0, <1>a, <1>t, <1>1, WorkersAssumption DEF Roles, CardOnItsWay, OneCard, HeldSteps,
        Workers
  <2>2. OneCard'
    BY <1>0, <1>a, <1>t, <1>1, WorkersAssumption DEF Roles, CardOnItsWay, OneCard, HeldSteps,
        Workers
  <2> QED
    BY <2>1, <2>2
<1>2. CASE /\ pc[p] = "card"
           /\ status' = status
           /\ pc'[p] = "idle"
           /\ \A x \in Workers : x # p => pc'[x] = pc[x]
           /\ at' = at
           /\ cards' = cards
           /\ cardless' = cardless \cup {r}
  <2>1. CardOnItsWay'
    BY <1>0, <1>a, <1>t, <1>2, WorkersAssumption DEF Roles, CardOnItsWay, OneCard, HeldSteps,
        Workers
  <2>2. OneCard'
    BY <1>0, <1>a, <1>t, <1>2, WorkersAssumption DEF Roles, CardOnItsWay, OneCard, HeldSteps,
        Workers
  <2> QED
    BY <2>1, <2>2
<1>3. CASE /\ pc[p] \notin HeldSteps
           /\ pc[p] # "card"
           /\ status' = status
           /\ pc'[p] = "idle"
           /\ \A x \in Workers : x # p => pc'[x] = pc[x]
           /\ at' = at
           /\ cards' = cards
           /\ cardless' = cardless
  <2>1. CardOnItsWay'
    BY <1>0, <1>a, <1>t, <1>3, WorkersAssumption DEF Roles, CardOnItsWay, OneCard, HeldSteps,
        Workers
  <2>2. OneCard'
    BY <1>0, <1>a, <1>t, <1>3, WorkersAssumption DEF Roles, CardOnItsWay, OneCard, HeldSteps,
        Workers
  <2> QED
    BY <2>1, <2>2
<1> QED
  BY <1>e, <1>1, <1>2, <1>3

-----------------------------------------------------------------------------
(***************************************************************************)
(* The theorems.                                                           *)
(***************************************************************************)

OwnInv ==
  TypeOK /\ Holding /\ Accounted /\ ApprovedTextKept /\ Counted /\ HolderCount /\ CardOnItsWay /\ OneCard

LEMMA InvInit == Init => OwnInv
<1> SUFFICES ASSUME Init PROVE OwnInv
  OBVIOUS
<1>1. TypeOK
  BY DEF Init, TypeOK, ReplyStatuses, Steps
<1>2. Holding
  BY WorkersAssumption DEF Init, Holding, Roles, OneHolder, HolderStatus, OrphansStatus,
      PostingHeld, HeldSteps, Workers
<1>3. Accounted
  BY DEF Init, Accounted
<1>4. ApprovedTextKept
  BY DEF Init, ApprovedTextKept
<1>5. Counted /\ HolderCount
  BY AttemptsAssumption DEF Init, Counted, HolderCount, HeldSteps, Workers, BeforeDecision
<1>6. CardOnItsWay /\ OneCard
  BY DEF Init, CardOnItsWay, OneCard, Workers
<1> QED
  BY <1>1, <1>2, <1>3, <1>4, <1>5, <1>6 DEF OwnInv

LEMMA KeepsDiscover ==
  ASSUME OwnInv, NEW r \in Replies, Discover(r)
  PROVE  OwnInv'
BY TypeDiscover, HoldingDiscover, AccountedDiscover, TextDiscover, CountDiscover, CardDiscover DEF OwnInv, Holding

LEMMA KeepsUnlist ==
  ASSUME OwnInv, NEW r \in Replies, Unlist(r)
  PROVE  OwnInv'
BY TypeUnlist, HoldingUnlist, AccountedUnlist, TextUnlist, CountUnlist, CardUnlist DEF OwnInv, Holding

LEMMA KeepsDecide ==
  ASSUME OwnInv, NEW r \in Replies, Decide(r)
  PROVE  OwnInv'
BY TypeDecide, HoldingDecide, AccountedDecide, TextDecide, CountDecide, CardDecide DEF OwnInv, Holding

LEMMA KeepsEdit ==
  ASSUME OwnInv, NEW r \in Replies, NEW t \in Answers, Edit(r, t)
  PROVE  OwnInv'
BY TypeEdit, HoldingEdit, AccountedEdit, TextEdit, CountEdit, CardEdit DEF OwnInv, Holding

LEMMA KeepsBeginScan ==
  ASSUME OwnInv, NEW p \in Scans, NEW r \in Replies, BeginScan(p, r)
  PROVE  OwnInv'
BY TypeBeginScan, HoldingBeginScan, AccountedBeginScan, TextBeginScan, CountBeginScan, CardBeginScan DEF OwnInv, Holding

LEMMA KeepsBeginBackfill ==
  ASSUME OwnInv, NEW p \in Scans, NEW r \in Replies, BeginBackfill(p, r)
  PROVE  OwnInv'
BY TypeBeginBackfill, HoldingBeginBackfill, AccountedBeginBackfill, TextBeginBackfill, CountBeginBackfill, CardBeginBackfill DEF OwnInv, Holding

LEMMA KeepsClassify ==
  ASSUME OwnInv, NEW p \in Scans, Classify(p)
  PROVE  OwnInv'
BY TypeClassify, HoldingClassify, AccountedClassify, TextClassify, CountClassify, CardClassify DEF OwnInv, Holding

LEMMA KeepsCreate ==
  ASSUME OwnInv, NEW p \in Scans, Create(p)
  PROVE  OwnInv'
BY TypeCreate, HoldingCreate, AccountedCreate, TextCreate, CountCreate, CardCreate DEF OwnInv, Holding

LEMMA KeepsLink ==
  ASSUME OwnInv, NEW p \in Scans, Link(p)
  PROVE  OwnInv'
BY TypeLink, HoldingLink, AccountedLink, TextLink, CountLink, CardLink DEF OwnInv, Holding

LEMMA KeepsClassifyFails ==
  ASSUME OwnInv, NEW p \in Scans, ClassifyFails(p)
  PROVE  OwnInv'
BY TypeClassifyFails, HoldingClassifyFails, AccountedClassifyFails, TextClassifyFails, CountClassifyFails, CardClassifyFails DEF OwnInv, Holding

LEMMA KeepsPropose ==
  ASSUME OwnInv, NEW p \in Scans, Propose(p)
  PROVE  OwnInv'
BY TypePropose, HoldingPropose, AccountedPropose, TextPropose, CountPropose, CardPropose DEF OwnInv, Holding

LEMMA KeepsProposeFails ==
  ASSUME OwnInv, NEW p \in Scans, ProposeFails(p)
  PROVE  OwnInv'
BY TypeProposeFails, HoldingProposeFails, AccountedProposeFails, TextProposeFails, CountProposeFails, CardProposeFails DEF OwnInv, Holding

LEMMA KeepsSendCard ==
  ASSUME OwnInv, NEW p \in Scans, SendCard(p)
  PROVE  OwnInv'
BY TypeSendCard, HoldingSendCard, AccountedSendCard, TextSendCard, CountSendCard, CardSendCard DEF OwnInv, Holding

LEMMA KeepsBeginPublish ==
  ASSUME OwnInv, NEW p \in Publishers, NEW r \in Replies, BeginPublish(p, r)
  PROVE  OwnInv'
BY TypeBeginPublish, HoldingBeginPublish, AccountedBeginPublish, TextBeginPublish, CountBeginPublish, CardBeginPublish DEF OwnInv, Holding

LEMMA KeepsClaim ==
  ASSUME OwnInv, NEW p \in Publishers, Claim(p)
  PROVE  OwnInv'
BY TypeClaim, HoldingClaim, AccountedClaim, TextClaim, CountClaim, CardClaim DEF OwnInv, Holding

LEMMA KeepsClaimLost ==
  ASSUME OwnInv, NEW p \in Publishers, ClaimLost(p)
  PROVE  OwnInv'
BY TypeClaimLost, HoldingClaimLost, AccountedClaimLost, TextClaimLost, CountClaimLost, CardClaimLost DEF OwnInv, Holding

LEMMA KeepsPublish ==
  ASSUME OwnInv, NEW p \in Publishers, Publish(p)
  PROVE  OwnInv'
BY TypePublish, HoldingPublish, AccountedPublish, TextPublish, CountPublish, CardPublish DEF OwnInv, Holding

LEMMA KeepsPublishFails ==
  ASSUME OwnInv, NEW p \in Publishers, PublishFails(p)
  PROVE  OwnInv'
BY TypePublishFails, HoldingPublishFails, AccountedPublishFails, TextPublishFails, CountPublishFails, CardPublishFails DEF OwnInv, Holding

LEMMA KeepsRecord ==
  ASSUME OwnInv, NEW p \in Publishers, Record(p)
  PROVE  OwnInv'
BY TypeRecord, HoldingRecord, AccountedRecord, TextRecord, CountRecord, CardRecord DEF OwnInv, Holding

LEMMA KeepsRecordFails ==
  ASSUME OwnInv, NEW p \in Publishers, RecordFails(p)
  PROVE  OwnInv'
BY TypeRecordFails, HoldingRecordFails, AccountedRecordFails, TextRecordFails, CountRecordFails, CardRecordFails DEF OwnInv, Holding

LEMMA KeepsGiveUp ==
  ASSUME OwnInv, NEW p \in Publishers, GiveUp(p)
  PROVE  OwnInv'
BY TypeGiveUp, HoldingGiveUp, AccountedGiveUp, TextGiveUp, CountGiveUp, CardGiveUp DEF OwnInv, Holding

LEMMA KeepsCrash ==
  ASSUME OwnInv, NEW p \in Workers, Crash(p)
  PROVE  OwnInv'
BY TypeCrash, HoldingCrash, AccountedCrash, TextCrash, CountCrash, CardCrash DEF OwnInv, Holding

LEMMA KeepsStutter == OwnInv /\ UNCHANGED ownVars => OwnInv'
<1> SUFFICES ASSUME OwnInv, UNCHANGED ownVars PROVE OwnInv'
  OBVIOUS
<1>1. TypeOK'
  BY DEF OwnInv, TypeOK, ownVars, rowVars, workVars, ghosts
<1>2. Holding'
  BY DEF OwnInv, Holding, Roles, OneHolder, HolderStatus, OrphansStatus, PostingHeld, ownVars, rowVars,
      workVars, ghosts
<1>3. Accounted' /\ ApprovedTextKept'
  BY DEF OwnInv, Accounted, ApprovedTextKept, ownVars, rowVars, workVars, ghosts
<1>4. Counted' /\ HolderCount'
  BY DEF OwnInv, Counted, HolderCount, ownVars, rowVars, workVars, ghosts
<1>5. CardOnItsWay' /\ OneCard'
  BY DEF OwnInv, CardOnItsWay, OneCard, ownVars, rowVars, workVars, ghosts
<1> QED
  BY <1>1, <1>2, <1>3, <1>4, <1>5 DEF OwnInv

LEMMA InvNext == OwnInv /\ [Next]_ownVars => OwnInv'
<1> SUFFICES ASSUME OwnInv, [Next]_ownVars PROVE OwnInv'
  OBVIOUS
<1>1. CASE \E r \in Replies : Discover(r) \/ Unlist(r) \/ Decide(r) \/ \E t \in Answers : Edit(r, t)
  BY <1>1, KeepsDiscover, KeepsUnlist, KeepsDecide, KeepsEdit
<1>2. CASE \E p \in Scans : ScanStep(p) \/ \E r \in Replies : BeginScan(p, r) \/ BeginBackfill(p, r)
  BY <1>2, KeepsClassify, KeepsCreate, KeepsLink, KeepsClassifyFails, KeepsPropose,
      KeepsProposeFails, KeepsSendCard, KeepsBeginScan, KeepsBeginBackfill DEF ScanStep
<1>3. CASE \E p \in Publishers : PublishStep(p) \/ \E r \in Replies : BeginPublish(p, r)
  BY <1>3, KeepsClaim, KeepsClaimLost, KeepsPublish, KeepsPublishFails, KeepsRecord,
      KeepsRecordFails, KeepsGiveUp, KeepsBeginPublish DEF PublishStep
<1>4. CASE \E p \in Workers : Crash(p)
  BY <1>4, KeepsCrash
<1>5. CASE UNCHANGED ownVars
  BY <1>5, KeepsStutter
<1> QED
  BY <1>1, <1>2, <1>3, <1>4, <1>5 DEF Next

LEMMA Invariance == Spec => []OwnInv
BY InvInit, InvNext, PTL DEF Spec

\* Rows keep to the table's statuses and commands to their steps.
THEOREM TypeCorrect == Spec => []TypeOK
<1>1. OwnInv => TypeOK
  BY DEF OwnInv
<1> QED
  BY <1>1, Invariance, PTL

\* A row in posting has a publisher that will take it out of there, or its publisher
\* was killed.
THEOREM PostingIsHeld == Spec => []PostingHeld
<1>1. OwnInv => PostingHeld
  BY DEF OwnInv, Holding
<1> QED
  BY <1>1, Invariance, PTL

\* Overlapping publishers answer once, but for requests of unknown outcome.
THEOREM EveryAnswerAccounted == Spec => []AnswersAccounted
<1>1. OwnInv => AnswersAccounted
  BY DEF OwnInv, Accounted, AnswersAccounted
<1> QED
  BY <1>1, Invariance, PTL

\* The text of a row stays the approved one until it is on Threads.
THEOREM ApprovedTextIsSent == Spec => []ApprovedTextKept
<1>1. OwnInv => ApprovedTextKept
  BY DEF OwnInv
<1> QED
  BY <1>1, Invariance, PTL

\* The retry limit bounds the calls of publish_text for a reply, unless a publisher
\* wrote back an attempt count it had read before another claim.
THEOREM AttemptsAreBounded == Spec => []AttemptsBounded
<1>1. OwnInv => AttemptsBounded
  BY AttemptsAssumption DEF OwnInv, TypeOK, Counted, AttemptsBounded
<1> QED
  BY <1>1, Invariance, PTL

\* Overlapping scans deliver one card for a reply.
THEOREM OneCardEach == Spec => []OneCard
<1>1. OwnInv => OneCard
  BY DEF OwnInv
<1> QED
  BY <1>1, Invariance, PTL

=============================================================================
