----------------------- MODULE EngagementQueue_proofs -----------------------
(***************************************************************************)
(* Theorems about EngagementQueue, for every set of posts, texts and       *)
(* execute commands and every bound on failures.                           *)
(***************************************************************************)
EXTENDS EngagementQueue, TLAPS

-----------------------------------------------------------------------------
(***************************************************************************)
(* The inductive invariant.                                                *)
(***************************************************************************)

\* One command at most is past its claim of a row, and the row shows it.
OneHolder ==
  /\ \A x, y \in Executors :
       pc[x] \in Holding /\ pc[y] \in Holding /\ at[x] = at[y] => x = y
  /\ \A x \in Executors :
       pc[x] \in Holding =>
         /\ status[at[x]] = "executing" \/ (pc[x] = "failed" /\ status[at[x]] = "posted")
         /\ at[x] \notin stranded

StrandedStatus == \A e \in stranded : status[e] \in {"executing", "posted"}

\* Nothing is on Threads before the claim's holder has published, and what it will
\* publish is the approved text.
Unsent ==
  /\ \A e \in Posts :
       /\ status[e] \in {"absent", "pending_approval", "approved"} => sent[e] = <<>>
       /\ status[e] = "approved" => proposed[e] = granted[e]
  /\ \A x \in Executors :
       pc[x] \in {"validate", "publish"} => sent[at[x]] = <<>> /\ text[x] = granted[at[x]]

QueueInv ==
  QueueTypeOK /\ OneHolder /\ StrandedStatus /\ ExecutingIsHeld /\ Unsent /\ RepliedOnceAsApproved


LEMMA KeepsProposeReply ==
  ASSUME QueueInv, NEW e \in Posts, NEW t \in Texts, ProposeReply(e, t)
  PROVE  QueueInv'
<1>q. QueueTypeOK
  BY DEF QueueInv
<1>qh. OneHolder
  BY DEF QueueInv
<1>qs. StrandedStatus
  BY DEF QueueInv
<1>qe. ExecutingIsHeld
  BY DEF QueueInv
<1>qu. Unsent
  BY DEF QueueInv
<1>qr. RepliedOnceAsApproved
  BY DEF QueueInv
<1>0. at \in [Executors -> Posts] /\ stranded \subseteq Posts
  BY <1>q DEF QueueTypeOK, ExecTyped, PastTyped
<1>a. e \in Posts
  OBVIOUS
<1>t1. RowsTyped'
  BY <1>q, <1>a DEF ProposeReply, Expected, Set, execVars, past, QueueTypeOK, RowsTyped,
      EngagementStatuses, Holding
<1>t2. ExecTyped'
  BY <1>q, <1>a DEF ProposeReply, Expected, Set, execVars, past, QueueTypeOK, ExecTyped,
      EngagementStatuses, Holding
<1>t3. PastTyped'
  BY <1>q, <1>a DEF ProposeReply, Expected, Set, execVars, past, QueueTypeOK, PastTyped,
      EngagementStatuses, Holding
<1>t4. faults' \in Nat
  BY <1>q, FaultBound DEF ProposeReply, Expected, Set, execVars, past, QueueTypeOK
<1>t. QueueTypeOK'
  BY <1>t1, <1>t2, <1>t3, <1>t4 DEF QueueTypeOK
<1>e. /\ status[e] = "absent"
      /\ status'[e] = "pending_approval"
      /\ \A z \in Posts : z # e => status'[z] = status[z]
      /\ proposed'[e] = t
      /\ \A z \in Posts : z # e => proposed'[z] = proposed[z]
      /\ pc' = pc
      /\ at' = at
      /\ text' = text
      /\ sent' = sent
      /\ granted' = granted
      /\ stranded' = stranded
  BY <1>q, <1>a DEF ProposeReply, Expected, Set, execVars, past, QueueTypeOK, RowsTyped,
      ExecTyped, PastTyped
<1>1. OneHolder'
  BY <1>qh, <1>qs, <1>0, <1>a, <1>e DEF OneHolder, StrandedStatus, Holding
<1>2. StrandedStatus'
  BY <1>qh, <1>qs, <1>0, <1>a, <1>e DEF OneHolder, StrandedStatus, Holding
<1>3. ExecutingIsHeld'
  BY <1>qh, <1>qe, <1>0, <1>a, <1>e DEF OneHolder, ExecutingIsHeld, Holding
<1>4. Unsent'
  BY <1>qh, <1>qu, <1>0, <1>a, <1>e DEF OneHolder, Unsent, Holding
<1>5. RepliedOnceAsApproved'
  BY <1>qh, <1>qu, <1>qr, <1>0, <1>a, <1>e DEF OneHolder, Unsent, RepliedOnceAsApproved,
      Holding
<1> QED
  BY <1>t, <1>1, <1>2, <1>3, <1>4, <1>5 DEF QueueInv

LEMMA KeepsEditPendingReply ==
  ASSUME QueueInv, NEW e \in Posts, NEW t \in Texts, EditPendingReply(e, t)
  PROVE  QueueInv'
<1>q. QueueTypeOK
  BY DEF QueueInv
<1>qh. OneHolder
  BY DEF QueueInv
<1>qs. StrandedStatus
  BY DEF QueueInv
<1>qe. ExecutingIsHeld
  BY DEF QueueInv
<1>qu. Unsent
  BY DEF QueueInv
<1>qr. RepliedOnceAsApproved
  BY DEF QueueInv
<1>0. at \in [Executors -> Posts] /\ stranded \subseteq Posts
  BY <1>q DEF QueueTypeOK, ExecTyped, PastTyped
<1>a. e \in Posts
  OBVIOUS
<1>t1. RowsTyped'
  BY <1>q, <1>a DEF EditPendingReply, Expected, Undecided, execVars, past, QueueTypeOK,
      RowsTyped, EngagementStatuses, Holding
<1>t2. ExecTyped'
  BY <1>q, <1>a DEF EditPendingReply, Expected, Undecided, execVars, past, QueueTypeOK,
      ExecTyped, EngagementStatuses, Holding
<1>t3. PastTyped'
  BY <1>q, <1>a DEF EditPendingReply, Expected, Undecided, execVars, past, QueueTypeOK,
      PastTyped, EngagementStatuses, Holding
<1>t4. faults' \in Nat
  BY <1>q, FaultBound DEF EditPendingReply, Expected, Undecided, execVars, past, QueueTypeOK
<1>t. QueueTypeOK'
  BY <1>t1, <1>t2, <1>t3, <1>t4 DEF QueueTypeOK
<1>e. /\ status[e] = "pending_approval"
      /\ status' = status
      /\ proposed'[e] = t
      /\ \A z \in Posts : z # e => proposed'[z] = proposed[z]
      /\ pc' = pc
      /\ at' = at
      /\ text' = text
      /\ sent' = sent
      /\ granted' = granted
      /\ stranded' = stranded
  BY <1>q, <1>a DEF EditPendingReply, Expected, Undecided, execVars, past, QueueTypeOK,
      RowsTyped, ExecTyped, PastTyped
<1>1. OneHolder'
  BY <1>qh, <1>qs, <1>0, <1>a, <1>e DEF OneHolder, StrandedStatus, Holding
<1>2. StrandedStatus'
  BY <1>qh, <1>qs, <1>0, <1>a, <1>e DEF OneHolder, StrandedStatus, Holding
<1>3. ExecutingIsHeld'
  BY <1>qh, <1>qe, <1>0, <1>a, <1>e DEF OneHolder, ExecutingIsHeld, Holding
<1>4. Unsent'
  BY <1>qh, <1>qu, <1>0, <1>a, <1>e DEF OneHolder, Unsent, Holding
<1>5. RepliedOnceAsApproved'
  BY <1>qh, <1>qu, <1>qr, <1>0, <1>a, <1>e DEF OneHolder, Unsent, RepliedOnceAsApproved,
      Holding
<1> QED
  BY <1>t, <1>1, <1>2, <1>3, <1>4, <1>5 DEF QueueInv

LEMMA KeepsApproveReply ==
  ASSUME QueueInv, NEW e \in Posts, ApproveReply(e)
  PROVE  QueueInv'
<1>q. QueueTypeOK
  BY DEF QueueInv
<1>qh. OneHolder
  BY DEF QueueInv
<1>qs. StrandedStatus
  BY DEF QueueInv
<1>qe. ExecutingIsHeld
  BY DEF QueueInv
<1>qu. Unsent
  BY DEF QueueInv
<1>qr. RepliedOnceAsApproved
  BY DEF QueueInv
<1>0. at \in [Executors -> Posts] /\ stranded \subseteq Posts
  BY <1>q DEF QueueTypeOK, ExecTyped, PastTyped
<1>a. e \in Posts
  OBVIOUS
<1>t1. RowsTyped'
  BY <1>q, <1>a DEF ApproveReply, Expected, Set, execVars, QueueTypeOK, RowsTyped,
      EngagementStatuses, Holding
<1>t2. ExecTyped'
  BY <1>q, <1>a DEF ApproveReply, Expected, Set, execVars, QueueTypeOK, ExecTyped,
      EngagementStatuses, Holding
<1>t3. PastTyped'
  BY <1>q, <1>a DEF ApproveReply, Expected, Set, execVars, QueueTypeOK, PastTyped, RowsTyped,
      EngagementStatuses, Holding
<1>t4. faults' \in Nat
  BY <1>q, FaultBound DEF ApproveReply, Expected, Set, execVars, QueueTypeOK
<1>t. QueueTypeOK'
  BY <1>t1, <1>t2, <1>t3, <1>t4 DEF QueueTypeOK
<1>e. /\ status[e] = "pending_approval"
      /\ status'[e] = "approved"
      /\ \A z \in Posts : z # e => status'[z] = status[z]
      /\ proposed' = proposed
      /\ pc' = pc
      /\ at' = at
      /\ text' = text
      /\ sent' = sent
      /\ granted'[e] = proposed[e]
      /\ \A z \in Posts : z # e => granted'[z] = granted[z]
      /\ stranded' = stranded
  BY <1>q, <1>a DEF ApproveReply, Expected, Set, execVars, QueueTypeOK, RowsTyped, ExecTyped,
      PastTyped
<1>1. OneHolder'
  BY <1>qh, <1>qs, <1>0, <1>a, <1>e DEF OneHolder, StrandedStatus, Holding
<1>2. StrandedStatus'
  BY <1>qh, <1>qs, <1>0, <1>a, <1>e DEF OneHolder, StrandedStatus, Holding
<1>3. ExecutingIsHeld'
  BY <1>qh, <1>qe, <1>0, <1>a, <1>e DEF OneHolder, ExecutingIsHeld, Holding
<1>4. Unsent'
  BY <1>qh, <1>qu, <1>0, <1>a, <1>e DEF OneHolder, Unsent, Holding
<1>5. RepliedOnceAsApproved'
  BY <1>qh, <1>qu, <1>qr, <1>0, <1>a, <1>e DEF OneHolder, Unsent, RepliedOnceAsApproved,
      Holding
<1> QED
  BY <1>t, <1>1, <1>2, <1>3, <1>4, <1>5 DEF QueueInv

LEMMA KeepsRejectReply ==
  ASSUME QueueInv, NEW e \in Posts, RejectReply(e)
  PROVE  QueueInv'
<1>q. QueueTypeOK
  BY DEF QueueInv
<1>qh. OneHolder
  BY DEF QueueInv
<1>qs. StrandedStatus
  BY DEF QueueInv
<1>qe. ExecutingIsHeld
  BY DEF QueueInv
<1>qu. Unsent
  BY DEF QueueInv
<1>qr. RepliedOnceAsApproved
  BY DEF QueueInv
<1>0. at \in [Executors -> Posts] /\ stranded \subseteq Posts
  BY <1>q DEF QueueTypeOK, ExecTyped, PastTyped
<1>a. e \in Posts
  OBVIOUS
<1>t1. RowsTyped'
  BY <1>q, <1>a DEF RejectReply, Expected, Set, execVars, past, QueueTypeOK, RowsTyped,
      EngagementStatuses, Holding
<1>t2. ExecTyped'
  BY <1>q, <1>a DEF RejectReply, Expected, Set, execVars, past, QueueTypeOK, ExecTyped,
      EngagementStatuses, Holding
<1>t3. PastTyped'
  BY <1>q, <1>a DEF RejectReply, Expected, Set, execVars, past, QueueTypeOK, PastTyped,
      EngagementStatuses, Holding
<1>t4. faults' \in Nat
  BY <1>q, FaultBound DEF RejectReply, Expected, Set, execVars, past, QueueTypeOK
<1>t. QueueTypeOK'
  BY <1>t1, <1>t2, <1>t3, <1>t4 DEF QueueTypeOK
<1>e. /\ status[e] = "pending_approval"
      /\ status'[e] = "rejected"
      /\ \A z \in Posts : z # e => status'[z] = status[z]
      /\ proposed' = proposed
      /\ pc' = pc
      /\ at' = at
      /\ text' = text
      /\ sent' = sent
      /\ granted' = granted
      /\ stranded' = stranded
  BY <1>q, <1>a DEF RejectReply, Expected, Set, execVars, past, QueueTypeOK, RowsTyped,
      ExecTyped, PastTyped
<1>1. OneHolder'
  BY <1>qh, <1>qs, <1>0, <1>a, <1>e DEF OneHolder, StrandedStatus, Holding
<1>2. StrandedStatus'
  BY <1>qh, <1>qs, <1>0, <1>a, <1>e DEF OneHolder, StrandedStatus, Holding
<1>3. ExecutingIsHeld'
  BY <1>qh, <1>qe, <1>0, <1>a, <1>e DEF OneHolder, ExecutingIsHeld, Holding
<1>4. Unsent'
  BY <1>qh, <1>qu, <1>0, <1>a, <1>e DEF OneHolder, Unsent, Holding
<1>5. RepliedOnceAsApproved'
  BY <1>qh, <1>qu, <1>qr, <1>0, <1>a, <1>e DEF OneHolder, Unsent, RepliedOnceAsApproved,
      Holding
<1> QED
  BY <1>t, <1>1, <1>2, <1>3, <1>4, <1>5 DEF QueueInv

LEMMA KeepsBeginExecute ==
  ASSUME QueueInv, NEW x \in Executors, NEW e \in Posts, BeginExecute(x, e)
  PROVE  QueueInv'
<1>q. QueueTypeOK
  BY DEF QueueInv
<1>qh. OneHolder
  BY DEF QueueInv
<1>qs. StrandedStatus
  BY DEF QueueInv
<1>qe. ExecutingIsHeld
  BY DEF QueueInv
<1>qu. Unsent
  BY DEF QueueInv
<1>qr. RepliedOnceAsApproved
  BY DEF QueueInv
<1>0. at \in [Executors -> Posts] /\ stranded \subseteq Posts
  BY <1>q DEF QueueTypeOK, ExecTyped, PastTyped
<1>a. e \in Posts
  OBVIOUS
<1>t1. RowsTyped'
  BY <1>q, <1>a DEF BeginExecute, Become, rowVars, past, QueueTypeOK, RowsTyped,
      EngagementStatuses, Holding
<1>t2. ExecTyped'
  BY <1>q, <1>a DEF BeginExecute, Become, rowVars, past, QueueTypeOK, ExecTyped,
      EngagementStatuses, Holding
<1>t3. PastTyped'
  BY <1>q, <1>a DEF BeginExecute, Become, rowVars, past, QueueTypeOK, PastTyped,
      EngagementStatuses, Holding
<1>t4. faults' \in Nat
  BY <1>q, FaultBound DEF BeginExecute, Become, rowVars, past, QueueTypeOK
<1>t. QueueTypeOK'
  BY <1>t1, <1>t2, <1>t3, <1>t4 DEF QueueTypeOK
<1>e. /\ pc[x] = "idle"
      /\ status' = status
      /\ proposed' = proposed
      /\ pc'[x] = "claim"
      /\ \A z \in Executors : z # x => pc'[z] = pc[z]
      /\ at'[x] = e
      /\ \A z \in Executors : z # x => at'[z] = at[z]
      /\ text' = text
      /\ sent' = sent
      /\ granted' = granted
      /\ stranded' = stranded
  BY <1>q, <1>a DEF BeginExecute, Become, rowVars, past, QueueTypeOK, RowsTyped, ExecTyped,
      PastTyped
<1>1. OneHolder'
  BY <1>qh, <1>qs, <1>0, <1>a, <1>e DEF OneHolder, StrandedStatus, Holding
<1>2. StrandedStatus'
  BY <1>qh, <1>qs, <1>0, <1>a, <1>e DEF OneHolder, StrandedStatus, Holding
<1>3. ExecutingIsHeld'
  BY <1>qh, <1>qe, <1>0, <1>a, <1>e DEF OneHolder, ExecutingIsHeld, Holding
<1>4. Unsent'
  BY <1>qh, <1>qu, <1>0, <1>a, <1>e DEF OneHolder, Unsent, Holding
<1>5. RepliedOnceAsApproved'
  BY <1>qh, <1>qu, <1>qr, <1>0, <1>a, <1>e DEF OneHolder, Unsent, RepliedOnceAsApproved,
      Holding
<1> QED
  BY <1>t, <1>1, <1>2, <1>3, <1>4, <1>5 DEF QueueInv

LEMMA KeepsClaimReply ==
  ASSUME QueueInv, NEW x \in Executors, ClaimReply(x)
  PROVE  QueueInv'
<1>q. QueueTypeOK
  BY DEF QueueInv
<1>qh. OneHolder
  BY DEF QueueInv
<1>qs. StrandedStatus
  BY DEF QueueInv
<1>qe. ExecutingIsHeld
  BY DEF QueueInv
<1>qu. Unsent
  BY DEF QueueInv
<1>qr. RepliedOnceAsApproved
  BY DEF QueueInv
<1>0. at \in [Executors -> Posts] /\ stranded \subseteq Posts
  BY <1>q DEF QueueTypeOK, ExecTyped, PastTyped
<1>a. PICK e \in Posts : e = at[x]
  BY <1>0
<1>t1. RowsTyped'
  BY <1>q, <1>a DEF ClaimReply, Expected, Set, Become, Claimable, past, QueueTypeOK,
      RowsTyped, EngagementStatuses, Holding
<1>t2. ExecTyped'
  BY <1>q, <1>a DEF ClaimReply, Expected, Set, Become, Claimable, past, QueueTypeOK,
      ExecTyped, RowsTyped, EngagementStatuses, Holding
<1>t3. PastTyped'
  BY <1>q, <1>a DEF ClaimReply, Expected, Set, Become, Claimable, past, QueueTypeOK,
      PastTyped, EngagementStatuses, Holding
<1>t4. faults' \in Nat
  BY <1>q, FaultBound DEF ClaimReply, Expected, Set, Become, Claimable, past, QueueTypeOK
<1>t. QueueTypeOK'
  BY <1>t1, <1>t2, <1>t3, <1>t4 DEF QueueTypeOK
<1>e. \/ /\ pc[x] = "claim"
         /\ status[e] = "approved"
         /\ status'[e] = "executing"
         /\ \A z \in Posts : z # e => status'[z] = status[z]
         /\ proposed' = proposed
         /\ pc'[x] = "validate"
         /\ \A z \in Executors : z # x => pc'[z] = pc[z]
         /\ at' = at
         /\ text'[x] = proposed[e]
         /\ \A z \in Executors : z # x => text'[z] = text[z]
         /\ sent' = sent
         /\ granted' = granted
         /\ stranded' = stranded
      \/ /\ pc[x] = "claim"
         /\ status' = status
         /\ proposed' = proposed
         /\ pc'[x] = "idle"
         /\ \A z \in Executors : z # x => pc'[z] = pc[z]
         /\ at' = at
         /\ text' = text
         /\ sent' = sent
         /\ granted' = granted
         /\ stranded' = stranded
  BY <1>q, <1>a DEF ClaimReply, Expected, Set, Become, Claimable, past, QueueTypeOK,
      RowsTyped, ExecTyped, PastTyped
<1>1. CASE /\ pc[x] = "claim"
           /\ status[e] = "approved"
           /\ status'[e] = "executing"
           /\ \A z \in Posts : z # e => status'[z] = status[z]
           /\ proposed' = proposed
           /\ pc'[x] = "validate"
           /\ \A z \in Executors : z # x => pc'[z] = pc[z]
           /\ at' = at
           /\ text'[x] = proposed[e]
           /\ \A z \in Executors : z # x => text'[z] = text[z]
           /\ sent' = sent
           /\ granted' = granted
           /\ stranded' = stranded
  <2>1. OneHolder'
    BY <1>qh, <1>qs, <1>0, <1>a, <1>1 DEF OneHolder, StrandedStatus, Holding
  <2>2. StrandedStatus'
    BY <1>qh, <1>qs, <1>0, <1>a, <1>1 DEF OneHolder, StrandedStatus, Holding
  <2>3. ExecutingIsHeld'
    BY <1>qh, <1>qe, <1>0, <1>a, <1>1 DEF OneHolder, ExecutingIsHeld, Holding
  <2>4. Unsent'
    BY <1>qh, <1>qu, <1>0, <1>a, <1>1 DEF OneHolder, Unsent, Holding
  <2>5. RepliedOnceAsApproved'
    BY <1>qh, <1>qu, <1>qr, <1>0, <1>a, <1>1 DEF OneHolder, Unsent, RepliedOnceAsApproved,
        Holding
  <2> QED
    BY <1>t, <2>1, <2>2, <2>3, <2>4, <2>5 DEF QueueInv
<1>2. CASE /\ pc[x] = "claim"
           /\ status' = status
           /\ proposed' = proposed
           /\ pc'[x] = "idle"
           /\ \A z \in Executors : z # x => pc'[z] = pc[z]
           /\ at' = at
           /\ text' = text
           /\ sent' = sent
           /\ granted' = granted
           /\ stranded' = stranded
  <2>1. OneHolder'
    BY <1>qh, <1>qs, <1>0, <1>a, <1>2 DEF OneHolder, StrandedStatus, Holding
  <2>2. StrandedStatus'
    BY <1>qh, <1>qs, <1>0, <1>a, <1>2 DEF OneHolder, StrandedStatus, Holding
  <2>3. ExecutingIsHeld'
    BY <1>qh, <1>qe, <1>0, <1>a, <1>2 DEF OneHolder, ExecutingIsHeld, Holding
  <2>4. Unsent'
    BY <1>qh, <1>qu, <1>0, <1>a, <1>2 DEF OneHolder, Unsent, Holding
  <2>5. RepliedOnceAsApproved'
    BY <1>qh, <1>qu, <1>qr, <1>0, <1>a, <1>2 DEF OneHolder, Unsent, RepliedOnceAsApproved,
        Holding
  <2> QED
    BY <1>t, <2>1, <2>2, <2>3, <2>4, <2>5 DEF QueueInv
<1> QED
  BY <1>e, <1>1, <1>2

LEMMA KeepsClaimLost ==
  ASSUME QueueInv, NEW x \in Executors, ClaimLost(x)
  PROVE  QueueInv'
<1>q. QueueTypeOK
  BY DEF QueueInv
<1>qh. OneHolder
  BY DEF QueueInv
<1>qs. StrandedStatus
  BY DEF QueueInv
<1>qe. ExecutingIsHeld
  BY DEF QueueInv
<1>qu. Unsent
  BY DEF QueueInv
<1>qr. RepliedOnceAsApproved
  BY DEF QueueInv
<1>0. at \in [Executors -> Posts] /\ stranded \subseteq Posts
  BY <1>q DEF QueueTypeOK, ExecTyped, PastTyped
<1>a. PICK e \in Posts : e = at[x]
  BY <1>0
<1>t1. RowsTyped'
  BY <1>q, <1>a DEF ClaimLost, Fault, Expected, Set, Become, Claimable, QueueTypeOK,
      RowsTyped, EngagementStatuses, Holding
<1>t2. ExecTyped'
  BY <1>q, <1>a DEF ClaimLost, Fault, Expected, Set, Become, Claimable, QueueTypeOK,
      ExecTyped, EngagementStatuses, Holding
<1>t3. PastTyped'
  BY <1>q, <1>a DEF ClaimLost, Fault, Expected, Set, Become, Claimable, QueueTypeOK,
      PastTyped, EngagementStatuses, Holding
<1>t4. faults' \in Nat
  BY <1>q, FaultBound DEF ClaimLost, Fault, Expected, Set, Become, Claimable, QueueTypeOK
<1>t. QueueTypeOK'
  BY <1>t1, <1>t2, <1>t3, <1>t4 DEF QueueTypeOK
<1>e. /\ pc[x] = "claim"
      /\ status[e] = "approved"
      /\ status'[e] = "executing"
      /\ \A z \in Posts : z # e => status'[z] = status[z]
      /\ proposed' = proposed
      /\ pc'[x] = "idle"
      /\ \A z \in Executors : z # x => pc'[z] = pc[z]
      /\ at' = at
      /\ text' = text
      /\ sent' = sent
      /\ granted' = granted
      /\ stranded' = stranded \cup {e}
  BY <1>q, <1>a DEF ClaimLost, Fault, Expected, Set, Become, Claimable, QueueTypeOK,
      RowsTyped, ExecTyped, PastTyped
<1>1. OneHolder'
  BY <1>qh, <1>qs, <1>0, <1>a, <1>e DEF OneHolder, StrandedStatus, Holding
<1>2. StrandedStatus'
  BY <1>qh, <1>qs, <1>0, <1>a, <1>e DEF OneHolder, StrandedStatus, Holding
<1>3. ExecutingIsHeld'
  BY <1>qh, <1>qe, <1>0, <1>a, <1>e DEF OneHolder, ExecutingIsHeld, Holding
<1>4. Unsent'
  BY <1>qh, <1>qu, <1>0, <1>a, <1>e DEF OneHolder, Unsent, Holding
<1>5. RepliedOnceAsApproved'
  BY <1>qh, <1>qu, <1>qr, <1>0, <1>a, <1>e DEF OneHolder, Unsent, RepliedOnceAsApproved,
      Holding
<1> QED
  BY <1>t, <1>1, <1>2, <1>3, <1>4, <1>5 DEF QueueInv

LEMMA KeepsKnown ==
  ASSUME QueueInv, NEW x \in Executors, Known(x)
  PROVE  QueueInv'
<1>q. QueueTypeOK
  BY DEF QueueInv
<1>qh. OneHolder
  BY DEF QueueInv
<1>qs. StrandedStatus
  BY DEF QueueInv
<1>qe. ExecutingIsHeld
  BY DEF QueueInv
<1>qu. Unsent
  BY DEF QueueInv
<1>qr. RepliedOnceAsApproved
  BY DEF QueueInv
<1>0. at \in [Executors -> Posts] /\ stranded \subseteq Posts
  BY <1>q DEF QueueTypeOK, ExecTyped, PastTyped
<1>a. PICK e \in Posts : e = at[x]
  BY <1>0
<1>t1. RowsTyped'
  BY <1>q, <1>a DEF Known, Become, rowVars, past, QueueTypeOK, RowsTyped, EngagementStatuses,
      Holding
<1>t2. ExecTyped'
  BY <1>q, <1>a DEF Known, Become, rowVars, past, QueueTypeOK, ExecTyped, EngagementStatuses,
      Holding
<1>t3. PastTyped'
  BY <1>q, <1>a DEF Known, Become, rowVars, past, QueueTypeOK, PastTyped, EngagementStatuses,
      Holding
<1>t4. faults' \in Nat
  BY <1>q, FaultBound DEF Known, Become, rowVars, past, QueueTypeOK
<1>t. QueueTypeOK'
  BY <1>t1, <1>t2, <1>t3, <1>t4 DEF QueueTypeOK
<1>e. /\ pc[x] = "validate"
      /\ status' = status
      /\ proposed' = proposed
      /\ pc'[x] = "publish"
      /\ \A z \in Executors : z # x => pc'[z] = pc[z]
      /\ at' = at
      /\ text' = text
      /\ sent' = sent
      /\ granted' = granted
      /\ stranded' = stranded
  BY <1>q, <1>a DEF Known, Become, rowVars, past, QueueTypeOK, RowsTyped, ExecTyped, PastTyped
<1>1. OneHolder'
  BY <1>qh, <1>qs, <1>0, <1>a, <1>e DEF OneHolder, StrandedStatus, Holding
<1>2. StrandedStatus'
  BY <1>qh, <1>qs, <1>0, <1>a, <1>e DEF OneHolder, StrandedStatus, Holding
<1>3. ExecutingIsHeld'
  BY <1>qh, <1>qe, <1>0, <1>a, <1>e DEF OneHolder, ExecutingIsHeld, Holding
<1>4. Unsent'
  BY <1>qh, <1>qu, <1>0, <1>a, <1>e DEF OneHolder, Unsent, Holding
<1>5. RepliedOnceAsApproved'
  BY <1>qh, <1>qu, <1>qr, <1>0, <1>a, <1>e DEF OneHolder, Unsent, RepliedOnceAsApproved,
      Holding
<1> QED
  BY <1>t, <1>1, <1>2, <1>3, <1>4, <1>5 DEF QueueInv

LEMMA KeepsUnknown ==
  ASSUME QueueInv, NEW x \in Executors, Unknown(x)
  PROVE  QueueInv'
<1>q. QueueTypeOK
  BY DEF QueueInv
<1>qh. OneHolder
  BY DEF QueueInv
<1>qs. StrandedStatus
  BY DEF QueueInv
<1>qe. ExecutingIsHeld
  BY DEF QueueInv
<1>qu. Unsent
  BY DEF QueueInv
<1>qr. RepliedOnceAsApproved
  BY DEF QueueInv
<1>0. at \in [Executors -> Posts] /\ stranded \subseteq Posts
  BY <1>q DEF QueueTypeOK, ExecTyped, PastTyped
<1>a. PICK e \in Posts : e = at[x]
  BY <1>0
<1>t1. RowsTyped'
  BY <1>q, <1>a DEF Unknown, Become, rowVars, QueueTypeOK, RowsTyped, EngagementStatuses,
      Holding
<1>t2. ExecTyped'
  BY <1>q, <1>a DEF Unknown, Become, rowVars, QueueTypeOK, ExecTyped, EngagementStatuses,
      Holding
<1>t3. PastTyped'
  BY <1>q, <1>a DEF Unknown, Become, rowVars, QueueTypeOK, PastTyped, EngagementStatuses,
      Holding
<1>t4. faults' \in Nat
  BY <1>q, FaultBound DEF Unknown, Become, rowVars, QueueTypeOK
<1>t. QueueTypeOK'
  BY <1>t1, <1>t2, <1>t3, <1>t4 DEF QueueTypeOK
<1>e. /\ pc[x] = "validate"
      /\ status' = status
      /\ proposed' = proposed
      /\ pc'[x] = "idle"
      /\ \A z \in Executors : z # x => pc'[z] = pc[z]
      /\ at' = at
      /\ text' = text
      /\ sent' = sent
      /\ granted' = granted
      /\ stranded' = stranded \cup {e}
  BY <1>q, <1>a DEF Unknown, Become, rowVars, QueueTypeOK, RowsTyped, ExecTyped, PastTyped
<1>1. OneHolder'
  BY <1>qh, <1>qs, <1>0, <1>a, <1>e DEF OneHolder, StrandedStatus, Holding
<1>2. StrandedStatus'
  BY <1>qh, <1>qs, <1>0, <1>a, <1>e DEF OneHolder, StrandedStatus, Holding
<1>3. ExecutingIsHeld'
  BY <1>qh, <1>qe, <1>0, <1>a, <1>e DEF OneHolder, ExecutingIsHeld, Holding
<1>4. Unsent'
  BY <1>qh, <1>qu, <1>0, <1>a, <1>e DEF OneHolder, Unsent, Holding
<1>5. RepliedOnceAsApproved'
  BY <1>qh, <1>qu, <1>qr, <1>0, <1>a, <1>e DEF OneHolder, Unsent, RepliedOnceAsApproved,
      Holding
<1> QED
  BY <1>t, <1>1, <1>2, <1>3, <1>4, <1>5 DEF QueueInv

LEMMA KeepsPublishReply ==
  ASSUME QueueInv, NEW x \in Executors, PublishReply(x)
  PROVE  QueueInv'
<1>q. QueueTypeOK
  BY DEF QueueInv
<1>qh. OneHolder
  BY DEF QueueInv
<1>qs. StrandedStatus
  BY DEF QueueInv
<1>qe. ExecutingIsHeld
  BY DEF QueueInv
<1>qu. Unsent
  BY DEF QueueInv
<1>qr. RepliedOnceAsApproved
  BY DEF QueueInv
<1>0. at \in [Executors -> Posts] /\ stranded \subseteq Posts
  BY <1>q DEF QueueTypeOK, ExecTyped, PastTyped
<1>a. PICK e \in Posts : e = at[x]
  BY <1>0
<1>t1. RowsTyped'
  BY <1>q, <1>a DEF PublishReply, Become, rowVars, QueueTypeOK, RowsTyped, EngagementStatuses,
      Holding
<1>t2. ExecTyped'
  BY <1>q, <1>a DEF PublishReply, Become, rowVars, QueueTypeOK, ExecTyped, EngagementStatuses,
      Holding
<1>t3. PastTyped'
  BY <1>q, <1>a DEF PublishReply, Become, rowVars, QueueTypeOK, PastTyped, ExecTyped,
      EngagementStatuses, Holding
<1>t4. faults' \in Nat
  BY <1>q, FaultBound DEF PublishReply, Become, rowVars, QueueTypeOK
<1>t. QueueTypeOK'
  BY <1>t1, <1>t2, <1>t3, <1>t4 DEF QueueTypeOK
<1>s. sent[e] = <<>>
  BY <1>a, <1>qu DEF PublishReply, Unsent
<1>e. /\ pc[x] = "publish"
      /\ status' = status
      /\ proposed' = proposed
      /\ pc'[x] = "posted"
      /\ \A z \in Executors : z # x => pc'[z] = pc[z]
      /\ at' = at
      /\ text' = text
      /\ sent'[e] = <<text[x]>>
      /\ \A z \in Posts : z # e => sent'[z] = sent[z]
      /\ granted' = granted
      /\ stranded' = stranded
  BY <1>q, <1>a, <1>s DEF PublishReply, Become, rowVars, QueueTypeOK, RowsTyped, ExecTyped,
      PastTyped
<1>1. OneHolder'
  BY <1>qh, <1>qs, <1>0, <1>a, <1>e DEF OneHolder, StrandedStatus, Holding
<1>2. StrandedStatus'
  BY <1>qh, <1>qs, <1>0, <1>a, <1>e DEF OneHolder, StrandedStatus, Holding
<1>3. ExecutingIsHeld'
  BY <1>qh, <1>qe, <1>0, <1>a, <1>e DEF OneHolder, ExecutingIsHeld, Holding
<1>4. Unsent'
  BY <1>qh, <1>qu, <1>0, <1>a, <1>e DEF OneHolder, Unsent, Holding
<1>5. RepliedOnceAsApproved'
  BY <1>qh, <1>qu, <1>qr, <1>0, <1>a, <1>e DEF OneHolder, Unsent, RepliedOnceAsApproved,
      Holding
<1> QED
  BY <1>t, <1>1, <1>2, <1>3, <1>4, <1>5 DEF QueueInv

LEMMA KeepsPublishFails ==
  ASSUME QueueInv, NEW x \in Executors, PublishFails(x)
  PROVE  QueueInv'
<1>q. QueueTypeOK
  BY DEF QueueInv
<1>qh. OneHolder
  BY DEF QueueInv
<1>qs. StrandedStatus
  BY DEF QueueInv
<1>qe. ExecutingIsHeld
  BY DEF QueueInv
<1>qu. Unsent
  BY DEF QueueInv
<1>qr. RepliedOnceAsApproved
  BY DEF QueueInv
<1>0. at \in [Executors -> Posts] /\ stranded \subseteq Posts
  BY <1>q DEF QueueTypeOK, ExecTyped, PastTyped
<1>a. PICK e \in Posts : e = at[x]
  BY <1>0
<1>t1. RowsTyped'
  BY <1>q, <1>a DEF PublishFails, Fault, Become, rowVars, QueueTypeOK, RowsTyped,
      EngagementStatuses, Holding
<1>t2. ExecTyped'
  BY <1>q, <1>a DEF PublishFails, Fault, Become, rowVars, QueueTypeOK, ExecTyped,
      EngagementStatuses, Holding
<1>t3. PastTyped'
  <2>1. CASE sent' = [sent EXCEPT ![at[x]] = Append(@, text[x])]
    <3>1. sent' \in [Posts -> Seq(Texts \cup {NoText})]
      BY <1>q, <1>a, <2>1 DEF QueueTypeOK, PastTyped, ExecTyped
    <3> QED
      BY <1>q, <3>1 DEF PublishFails, QueueTypeOK, PastTyped
  <2>2. CASE UNCHANGED sent
    BY <1>q, <2>2 DEF PublishFails, QueueTypeOK, PastTyped
  <2> QED
    BY <2>1, <2>2 DEF PublishFails
<1>t4. faults' \in Nat
  BY <1>q, FaultBound DEF PublishFails, Fault, Become, rowVars, QueueTypeOK
<1>t. QueueTypeOK'
  BY <1>t1, <1>t2, <1>t3, <1>t4 DEF QueueTypeOK
<1>s. sent[e] = <<>>
  BY <1>a, <1>qu DEF PublishFails, Unsent
<1>e. \/ /\ pc[x] = "publish"
         /\ status' = status
         /\ proposed' = proposed
         /\ pc'[x] = "failed"
         /\ \A z \in Executors : z # x => pc'[z] = pc[z]
         /\ at' = at
         /\ text' = text
         /\ sent'[e] = <<text[x]>>
         /\ \A z \in Posts : z # e => sent'[z] = sent[z]
         /\ granted' = granted
         /\ stranded' = stranded
      \/ /\ pc[x] = "publish"
         /\ status' = status
         /\ proposed' = proposed
         /\ pc'[x] = "failed"
         /\ \A z \in Executors : z # x => pc'[z] = pc[z]
         /\ at' = at
         /\ text' = text
         /\ sent' = sent
         /\ granted' = granted
         /\ stranded' = stranded
  BY <1>q, <1>a, <1>s DEF PublishFails, Fault, Become, rowVars, QueueTypeOK, RowsTyped,
      ExecTyped, PastTyped
<1>1. CASE /\ pc[x] = "publish"
           /\ status' = status
           /\ proposed' = proposed
           /\ pc'[x] = "failed"
           /\ \A z \in Executors : z # x => pc'[z] = pc[z]
           /\ at' = at
           /\ text' = text
           /\ sent'[e] = <<text[x]>>
           /\ \A z \in Posts : z # e => sent'[z] = sent[z]
           /\ granted' = granted
           /\ stranded' = stranded
  <2>1. OneHolder'
    BY <1>qh, <1>qs, <1>0, <1>a, <1>1 DEF OneHolder, StrandedStatus, Holding
  <2>2. StrandedStatus'
    BY <1>qh, <1>qs, <1>0, <1>a, <1>1 DEF OneHolder, StrandedStatus, Holding
  <2>3. ExecutingIsHeld'
    BY <1>qh, <1>qe, <1>0, <1>a, <1>1 DEF OneHolder, ExecutingIsHeld, Holding
  <2>4. Unsent'
    BY <1>qh, <1>qu, <1>0, <1>a, <1>1 DEF OneHolder, Unsent, Holding
  <2>5. RepliedOnceAsApproved'
    BY <1>qh, <1>qu, <1>qr, <1>0, <1>a, <1>1 DEF OneHolder, Unsent, RepliedOnceAsApproved,
        Holding
  <2> QED
    BY <1>t, <2>1, <2>2, <2>3, <2>4, <2>5 DEF QueueInv
<1>2. CASE /\ pc[x] = "publish"
           /\ status' = status
           /\ proposed' = proposed
           /\ pc'[x] = "failed"
           /\ \A z \in Executors : z # x => pc'[z] = pc[z]
           /\ at' = at
           /\ text' = text
           /\ sent' = sent
           /\ granted' = granted
           /\ stranded' = stranded
  <2>1. OneHolder'
    BY <1>qh, <1>qs, <1>0, <1>a, <1>2 DEF OneHolder, StrandedStatus, Holding
  <2>2. StrandedStatus'
    BY <1>qh, <1>qs, <1>0, <1>a, <1>2 DEF OneHolder, StrandedStatus, Holding
  <2>3. ExecutingIsHeld'
    BY <1>qh, <1>qe, <1>0, <1>a, <1>2 DEF OneHolder, ExecutingIsHeld, Holding
  <2>4. Unsent'
    BY <1>qh, <1>qu, <1>0, <1>a, <1>2 DEF OneHolder, Unsent, Holding
  <2>5. RepliedOnceAsApproved'
    BY <1>qh, <1>qu, <1>qr, <1>0, <1>a, <1>2 DEF OneHolder, Unsent, RepliedOnceAsApproved,
        Holding
  <2> QED
    BY <1>t, <2>1, <2>2, <2>3, <2>4, <2>5 DEF QueueInv
<1> QED
  BY <1>e, <1>1, <1>2

LEMMA KeepsMarkReplyPosted ==
  ASSUME QueueInv, NEW x \in Executors, MarkReplyPosted(x)
  PROVE  QueueInv'
<1>q. QueueTypeOK
  BY DEF QueueInv
<1>qh. OneHolder
  BY DEF QueueInv
<1>qs. StrandedStatus
  BY DEF QueueInv
<1>qe. ExecutingIsHeld
  BY DEF QueueInv
<1>qu. Unsent
  BY DEF QueueInv
<1>qr. RepliedOnceAsApproved
  BY DEF QueueInv
<1>0. at \in [Executors -> Posts] /\ stranded \subseteq Posts
  BY <1>q DEF QueueTypeOK, ExecTyped, PastTyped
<1>a. PICK e \in Posts : e = at[x]
  BY <1>0
<1>t1. RowsTyped'
  BY <1>q, <1>a DEF MarkReplyPosted, Expected, Set, Become, past, QueueTypeOK, RowsTyped,
      EngagementStatuses, Holding
<1>t2. ExecTyped'
  BY <1>q, <1>a DEF MarkReplyPosted, Expected, Set, Become, past, QueueTypeOK, ExecTyped,
      EngagementStatuses, Holding
<1>t3. PastTyped'
  BY <1>q, <1>a DEF MarkReplyPosted, Expected, Set, Become, past, QueueTypeOK, PastTyped,
      EngagementStatuses, Holding
<1>t4. faults' \in Nat
  BY <1>q, FaultBound DEF MarkReplyPosted, Expected, Set, Become, past, QueueTypeOK
<1>t. QueueTypeOK'
  BY <1>t1, <1>t2, <1>t3, <1>t4 DEF QueueTypeOK
<1>e. \/ /\ pc[x] = "posted"
         /\ status[e] = "executing"
         /\ status'[e] = "posted"
         /\ \A z \in Posts : z # e => status'[z] = status[z]
         /\ proposed' = proposed
         /\ pc'[x] = "idle"
         /\ \A z \in Executors : z # x => pc'[z] = pc[z]
         /\ at' = at
         /\ text' = text
         /\ sent' = sent
         /\ granted' = granted
         /\ stranded' = stranded
      \/ /\ pc[x] = "posted"
         /\ status[e] # "executing"
         /\ status' = status
         /\ proposed' = proposed
         /\ pc'[x] = "idle"
         /\ \A z \in Executors : z # x => pc'[z] = pc[z]
         /\ at' = at
         /\ text' = text
         /\ sent' = sent
         /\ granted' = granted
         /\ stranded' = stranded
  BY <1>q, <1>a DEF MarkReplyPosted, Expected, Set, Become, past, QueueTypeOK, RowsTyped,
      ExecTyped, PastTyped
<1>1. CASE /\ pc[x] = "posted"
           /\ status[e] = "executing"
           /\ status'[e] = "posted"
           /\ \A z \in Posts : z # e => status'[z] = status[z]
           /\ proposed' = proposed
           /\ pc'[x] = "idle"
           /\ \A z \in Executors : z # x => pc'[z] = pc[z]
           /\ at' = at
           /\ text' = text
           /\ sent' = sent
           /\ granted' = granted
           /\ stranded' = stranded
  <2>1. OneHolder'
    BY <1>qh, <1>qs, <1>0, <1>a, <1>1 DEF OneHolder, StrandedStatus, Holding
  <2>2. StrandedStatus'
    BY <1>qh, <1>qs, <1>0, <1>a, <1>1 DEF OneHolder, StrandedStatus, Holding
  <2>3. ExecutingIsHeld'
    BY <1>qh, <1>qe, <1>0, <1>a, <1>1 DEF OneHolder, ExecutingIsHeld, Holding
  <2>4. Unsent'
    BY <1>qh, <1>qu, <1>0, <1>a, <1>1 DEF OneHolder, Unsent, Holding
  <2>5. RepliedOnceAsApproved'
    BY <1>qh, <1>qu, <1>qr, <1>0, <1>a, <1>1 DEF OneHolder, Unsent, RepliedOnceAsApproved,
        Holding
  <2> QED
    BY <1>t, <2>1, <2>2, <2>3, <2>4, <2>5 DEF QueueInv
<1>2. CASE /\ pc[x] = "posted"
           /\ status[e] # "executing"
           /\ status' = status
           /\ proposed' = proposed
           /\ pc'[x] = "idle"
           /\ \A z \in Executors : z # x => pc'[z] = pc[z]
           /\ at' = at
           /\ text' = text
           /\ sent' = sent
           /\ granted' = granted
           /\ stranded' = stranded
  <2>1. OneHolder'
    BY <1>qh, <1>qs, <1>0, <1>a, <1>2 DEF OneHolder, StrandedStatus, Holding
  <2>2. StrandedStatus'
    BY <1>qh, <1>qs, <1>0, <1>a, <1>2 DEF OneHolder, StrandedStatus, Holding
  <2>3. ExecutingIsHeld'
    BY <1>qh, <1>qe, <1>0, <1>a, <1>2 DEF OneHolder, ExecutingIsHeld, Holding
  <2>4. Unsent'
    BY <1>qh, <1>qu, <1>0, <1>a, <1>2 DEF OneHolder, Unsent, Holding
  <2>5. RepliedOnceAsApproved'
    BY <1>qh, <1>qu, <1>qr, <1>0, <1>a, <1>2 DEF OneHolder, Unsent, RepliedOnceAsApproved,
        Holding
  <2> QED
    BY <1>t, <2>1, <2>2, <2>3, <2>4, <2>5 DEF QueueInv
<1> QED
  BY <1>e, <1>1, <1>2

LEMMA KeepsMarkPostedFails ==
  ASSUME QueueInv, NEW x \in Executors, MarkPostedFails(x)
  PROVE  QueueInv'
<1>q. QueueTypeOK
  BY DEF QueueInv
<1>qh. OneHolder
  BY DEF QueueInv
<1>qs. StrandedStatus
  BY DEF QueueInv
<1>qe. ExecutingIsHeld
  BY DEF QueueInv
<1>qu. Unsent
  BY DEF QueueInv
<1>qr. RepliedOnceAsApproved
  BY DEF QueueInv
<1>0. at \in [Executors -> Posts] /\ stranded \subseteq Posts
  BY <1>q DEF QueueTypeOK, ExecTyped, PastTyped
<1>a. PICK e \in Posts : e = at[x]
  BY <1>0
<1>t1. RowsTyped'
  BY <1>q, <1>a DEF MarkPostedFails, Fault, Expected, Set, Become, past, QueueTypeOK,
      RowsTyped, EngagementStatuses, Holding
<1>t2. ExecTyped'
  BY <1>q, <1>a DEF MarkPostedFails, Fault, Expected, Set, Become, past, QueueTypeOK,
      ExecTyped, EngagementStatuses, Holding
<1>t3. PastTyped'
  BY <1>q, <1>a DEF MarkPostedFails, Fault, Expected, Set, Become, past, QueueTypeOK,
      PastTyped, EngagementStatuses, Holding
<1>t4. faults' \in Nat
  BY <1>q, FaultBound DEF MarkPostedFails, Fault, Expected, Set, Become, past, QueueTypeOK
<1>t. QueueTypeOK'
  BY <1>t1, <1>t2, <1>t3, <1>t4 DEF QueueTypeOK
<1>e. \/ /\ pc[x] = "posted"
         /\ status[e] = "executing"
         /\ status'[e] = "posted"
         /\ \A z \in Posts : z # e => status'[z] = status[z]
         /\ proposed' = proposed
         /\ pc'[x] = "failed"
         /\ \A z \in Executors : z # x => pc'[z] = pc[z]
         /\ at' = at
         /\ text' = text
         /\ sent' = sent
         /\ granted' = granted
         /\ stranded' = stranded
      \/ /\ pc[x] = "posted"
         /\ status' = status
         /\ proposed' = proposed
         /\ pc'[x] = "failed"
         /\ \A z \in Executors : z # x => pc'[z] = pc[z]
         /\ at' = at
         /\ text' = text
         /\ sent' = sent
         /\ granted' = granted
         /\ stranded' = stranded
  BY <1>q, <1>a DEF MarkPostedFails, Fault, Expected, Set, Become, past, QueueTypeOK,
      RowsTyped, ExecTyped, PastTyped
<1>1. CASE /\ pc[x] = "posted"
           /\ status[e] = "executing"
           /\ status'[e] = "posted"
           /\ \A z \in Posts : z # e => status'[z] = status[z]
           /\ proposed' = proposed
           /\ pc'[x] = "failed"
           /\ \A z \in Executors : z # x => pc'[z] = pc[z]
           /\ at' = at
           /\ text' = text
           /\ sent' = sent
           /\ granted' = granted
           /\ stranded' = stranded
  <2>1. OneHolder'
    BY <1>qh, <1>qs, <1>0, <1>a, <1>1 DEF OneHolder, StrandedStatus, Holding
  <2>2. StrandedStatus'
    BY <1>qh, <1>qs, <1>0, <1>a, <1>1 DEF OneHolder, StrandedStatus, Holding
  <2>3. ExecutingIsHeld'
    BY <1>qh, <1>qe, <1>0, <1>a, <1>1 DEF OneHolder, ExecutingIsHeld, Holding
  <2>4. Unsent'
    BY <1>qh, <1>qu, <1>0, <1>a, <1>1 DEF OneHolder, Unsent, Holding
  <2>5. RepliedOnceAsApproved'
    BY <1>qh, <1>qu, <1>qr, <1>0, <1>a, <1>1 DEF OneHolder, Unsent, RepliedOnceAsApproved,
        Holding
  <2> QED
    BY <1>t, <2>1, <2>2, <2>3, <2>4, <2>5 DEF QueueInv
<1>2. CASE /\ pc[x] = "posted"
           /\ status' = status
           /\ proposed' = proposed
           /\ pc'[x] = "failed"
           /\ \A z \in Executors : z # x => pc'[z] = pc[z]
           /\ at' = at
           /\ text' = text
           /\ sent' = sent
           /\ granted' = granted
           /\ stranded' = stranded
  <2>1. OneHolder'
    BY <1>qh, <1>qs, <1>0, <1>a, <1>2 DEF OneHolder, StrandedStatus, Holding
  <2>2. StrandedStatus'
    BY <1>qh, <1>qs, <1>0, <1>a, <1>2 DEF OneHolder, StrandedStatus, Holding
  <2>3. ExecutingIsHeld'
    BY <1>qh, <1>qe, <1>0, <1>a, <1>2 DEF OneHolder, ExecutingIsHeld, Holding
  <2>4. Unsent'
    BY <1>qh, <1>qu, <1>0, <1>a, <1>2 DEF OneHolder, Unsent, Holding
  <2>5. RepliedOnceAsApproved'
    BY <1>qh, <1>qu, <1>qr, <1>0, <1>a, <1>2 DEF OneHolder, Unsent, RepliedOnceAsApproved,
        Holding
  <2> QED
    BY <1>t, <2>1, <2>2, <2>3, <2>4, <2>5 DEF QueueInv
<1> QED
  BY <1>e, <1>1, <1>2

LEMMA KeepsMarkReplyFailed ==
  ASSUME QueueInv, NEW x \in Executors, MarkReplyFailed(x)
  PROVE  QueueInv'
<1>q. QueueTypeOK
  BY DEF QueueInv
<1>qh. OneHolder
  BY DEF QueueInv
<1>qs. StrandedStatus
  BY DEF QueueInv
<1>qe. ExecutingIsHeld
  BY DEF QueueInv
<1>qu. Unsent
  BY DEF QueueInv
<1>qr. RepliedOnceAsApproved
  BY DEF QueueInv
<1>0. at \in [Executors -> Posts] /\ stranded \subseteq Posts
  BY <1>q DEF QueueTypeOK, ExecTyped, PastTyped
<1>a. PICK e \in Posts : e = at[x]
  BY <1>0
<1>t1. RowsTyped'
  BY <1>q, <1>a DEF MarkReplyFailed, Expected, Set, Become, Fails, past, QueueTypeOK,
      RowsTyped, EngagementStatuses, Holding
<1>t2. ExecTyped'
  BY <1>q, <1>a DEF MarkReplyFailed, Expected, Set, Become, Fails, past, QueueTypeOK,
      ExecTyped, EngagementStatuses, Holding
<1>t3. PastTyped'
  BY <1>q, <1>a DEF MarkReplyFailed, Expected, Set, Become, Fails, past, QueueTypeOK,
      PastTyped, EngagementStatuses, Holding
<1>t4. faults' \in Nat
  BY <1>q, FaultBound DEF MarkReplyFailed, Expected, Set, Become, Fails, past, QueueTypeOK
<1>t. QueueTypeOK'
  BY <1>t1, <1>t2, <1>t3, <1>t4 DEF QueueTypeOK
<1>e. \/ /\ pc[x] = "failed"
         /\ status[e] = "executing"
         /\ status'[e] = "failed"
         /\ \A z \in Posts : z # e => status'[z] = status[z]
         /\ proposed' = proposed
         /\ pc'[x] = "idle"
         /\ \A z \in Executors : z # x => pc'[z] = pc[z]
         /\ at' = at
         /\ text' = text
         /\ sent' = sent
         /\ granted' = granted
         /\ stranded' = stranded
      \/ /\ pc[x] = "failed"
         /\ status[e] # "executing"
         /\ status' = status
         /\ proposed' = proposed
         /\ pc'[x] = "idle"
         /\ \A z \in Executors : z # x => pc'[z] = pc[z]
         /\ at' = at
         /\ text' = text
         /\ sent' = sent
         /\ granted' = granted
         /\ stranded' = stranded
  BY <1>q, <1>a DEF MarkReplyFailed, Expected, Set, Become, Fails, past, QueueTypeOK,
      RowsTyped, ExecTyped, PastTyped
<1>1. CASE /\ pc[x] = "failed"
           /\ status[e] = "executing"
           /\ status'[e] = "failed"
           /\ \A z \in Posts : z # e => status'[z] = status[z]
           /\ proposed' = proposed
           /\ pc'[x] = "idle"
           /\ \A z \in Executors : z # x => pc'[z] = pc[z]
           /\ at' = at
           /\ text' = text
           /\ sent' = sent
           /\ granted' = granted
           /\ stranded' = stranded
  <2>1. OneHolder'
    BY <1>qh, <1>qs, <1>0, <1>a, <1>1 DEF OneHolder, StrandedStatus, Holding
  <2>2. StrandedStatus'
    BY <1>qh, <1>qs, <1>0, <1>a, <1>1 DEF OneHolder, StrandedStatus, Holding
  <2>3. ExecutingIsHeld'
    BY <1>qh, <1>qe, <1>0, <1>a, <1>1 DEF OneHolder, ExecutingIsHeld, Holding
  <2>4. Unsent'
    BY <1>qh, <1>qu, <1>0, <1>a, <1>1 DEF OneHolder, Unsent, Holding
  <2>5. RepliedOnceAsApproved'
    BY <1>qh, <1>qu, <1>qr, <1>0, <1>a, <1>1 DEF OneHolder, Unsent, RepliedOnceAsApproved,
        Holding
  <2> QED
    BY <1>t, <2>1, <2>2, <2>3, <2>4, <2>5 DEF QueueInv
<1>2. CASE /\ pc[x] = "failed"
           /\ status[e] # "executing"
           /\ status' = status
           /\ proposed' = proposed
           /\ pc'[x] = "idle"
           /\ \A z \in Executors : z # x => pc'[z] = pc[z]
           /\ at' = at
           /\ text' = text
           /\ sent' = sent
           /\ granted' = granted
           /\ stranded' = stranded
  <2>1. OneHolder'
    BY <1>qh, <1>qs, <1>0, <1>a, <1>2 DEF OneHolder, StrandedStatus, Holding
  <2>2. StrandedStatus'
    BY <1>qh, <1>qs, <1>0, <1>a, <1>2 DEF OneHolder, StrandedStatus, Holding
  <2>3. ExecutingIsHeld'
    BY <1>qh, <1>qe, <1>0, <1>a, <1>2 DEF OneHolder, ExecutingIsHeld, Holding
  <2>4. Unsent'
    BY <1>qh, <1>qu, <1>0, <1>a, <1>2 DEF OneHolder, Unsent, Holding
  <2>5. RepliedOnceAsApproved'
    BY <1>qh, <1>qu, <1>qr, <1>0, <1>a, <1>2 DEF OneHolder, Unsent, RepliedOnceAsApproved,
        Holding
  <2> QED
    BY <1>t, <2>1, <2>2, <2>3, <2>4, <2>5 DEF QueueInv
<1> QED
  BY <1>e, <1>1, <1>2

LEMMA KeepsKilled ==
  ASSUME QueueInv, NEW x \in Executors, Killed(x)
  PROVE  QueueInv'
<1>q. QueueTypeOK
  BY DEF QueueInv
<1>qh. OneHolder
  BY DEF QueueInv
<1>qs. StrandedStatus
  BY DEF QueueInv
<1>qe. ExecutingIsHeld
  BY DEF QueueInv
<1>qu. Unsent
  BY DEF QueueInv
<1>qr. RepliedOnceAsApproved
  BY DEF QueueInv
<1>0. at \in [Executors -> Posts] /\ stranded \subseteq Posts
  BY <1>q DEF QueueTypeOK, ExecTyped, PastTyped
<1>a. PICK e \in Posts : e = at[x]
  BY <1>0
<1>t1. RowsTyped'
  BY <1>q, <1>a DEF Killed, Fault, Become, Holding, rowVars, QueueTypeOK, RowsTyped,
      EngagementStatuses
<1>t2. ExecTyped'
  BY <1>q, <1>a DEF Killed, Fault, Become, Holding, rowVars, QueueTypeOK, ExecTyped,
      EngagementStatuses
<1>t3. PastTyped'
  BY <1>q, <1>a DEF Killed, Fault, Become, Holding, rowVars, QueueTypeOK, PastTyped,
      EngagementStatuses
<1>t4. faults' \in Nat
  BY <1>q, FaultBound DEF Killed, Fault, Become, Holding, rowVars, QueueTypeOK
<1>t. QueueTypeOK'
  BY <1>t1, <1>t2, <1>t3, <1>t4 DEF QueueTypeOK
<1>e. \/ /\ pc[x] \in Holding
         /\ status' = status
         /\ proposed' = proposed
         /\ pc'[x] = "idle"
         /\ \A z \in Executors : z # x => pc'[z] = pc[z]
         /\ at' = at
         /\ text' = text
         /\ sent' = sent
         /\ granted' = granted
         /\ stranded' = stranded \cup {e}
      \/ /\ pc[x] \notin Holding
         /\ status' = status
         /\ proposed' = proposed
         /\ pc'[x] = "idle"
         /\ \A z \in Executors : z # x => pc'[z] = pc[z]
         /\ at' = at
         /\ text' = text
         /\ sent' = sent
         /\ granted' = granted
         /\ stranded' = stranded
  BY <1>q, <1>a DEF Killed, Fault, Become, Holding, rowVars, QueueTypeOK, RowsTyped,
      ExecTyped, PastTyped
<1>1. CASE /\ pc[x] \in Holding
           /\ status' = status
           /\ proposed' = proposed
           /\ pc'[x] = "idle"
           /\ \A z \in Executors : z # x => pc'[z] = pc[z]
           /\ at' = at
           /\ text' = text
           /\ sent' = sent
           /\ granted' = granted
           /\ stranded' = stranded \cup {e}
  <2>1. OneHolder'
    BY <1>qh, <1>qs, <1>0, <1>a, <1>1 DEF OneHolder, StrandedStatus, Holding
  <2>2. StrandedStatus'
    BY <1>qh, <1>qs, <1>0, <1>a, <1>1 DEF OneHolder, StrandedStatus, Holding
  <2>3. ExecutingIsHeld'
    BY <1>qh, <1>qe, <1>0, <1>a, <1>1 DEF OneHolder, ExecutingIsHeld, Holding
  <2>4. Unsent'
    BY <1>qh, <1>qu, <1>0, <1>a, <1>1 DEF OneHolder, Unsent, Holding
  <2>5. RepliedOnceAsApproved'
    BY <1>qh, <1>qu, <1>qr, <1>0, <1>a, <1>1 DEF OneHolder, Unsent, RepliedOnceAsApproved,
        Holding
  <2> QED
    BY <1>t, <2>1, <2>2, <2>3, <2>4, <2>5 DEF QueueInv
<1>2. CASE /\ pc[x] \notin Holding
           /\ status' = status
           /\ proposed' = proposed
           /\ pc'[x] = "idle"
           /\ \A z \in Executors : z # x => pc'[z] = pc[z]
           /\ at' = at
           /\ text' = text
           /\ sent' = sent
           /\ granted' = granted
           /\ stranded' = stranded
  <2>1. OneHolder'
    BY <1>qh, <1>qs, <1>0, <1>a, <1>2 DEF OneHolder, StrandedStatus, Holding
  <2>2. StrandedStatus'
    BY <1>qh, <1>qs, <1>0, <1>a, <1>2 DEF OneHolder, StrandedStatus, Holding
  <2>3. ExecutingIsHeld'
    BY <1>qh, <1>qe, <1>0, <1>a, <1>2 DEF OneHolder, ExecutingIsHeld, Holding
  <2>4. Unsent'
    BY <1>qh, <1>qu, <1>0, <1>a, <1>2 DEF OneHolder, Unsent, Holding
  <2>5. RepliedOnceAsApproved'
    BY <1>qh, <1>qu, <1>qr, <1>0, <1>a, <1>2 DEF OneHolder, Unsent, RepliedOnceAsApproved,
        Holding
  <2> QED
    BY <1>t, <2>1, <2>2, <2>3, <2>4, <2>5 DEF QueueInv
<1> QED
  BY <1>e, <1>1, <1>2

LEMMA QueueInvInit == QueueInit => QueueInv
<1> SUFFICES ASSUME QueueInit PROVE QueueInv
  OBVIOUS
<1>1. QueueTypeOK
  BY DEF QueueInit, QueueTypeOK, RowsTyped, ExecTyped, PastTyped, EngagementStatuses, Holding
<1>2. OneHolder /\ StrandedStatus /\ ExecutingIsHeld
  BY DEF QueueInit, OneHolder, StrandedStatus, ExecutingIsHeld, Holding
<1>3. Unsent /\ RepliedOnceAsApproved
  BY DEF QueueInit, Unsent, RepliedOnceAsApproved
<1> QED
  BY <1>1, <1>2, <1>3 DEF QueueInv

LEMMA QueueInvStutter == QueueInv /\ UNCHANGED queueVars => QueueInv'
<1> SUFFICES ASSUME QueueInv, UNCHANGED queueVars PROVE QueueInv'
  OBVIOUS
<1>1. QueueTypeOK'
  BY DEF QueueInv, QueueTypeOK, RowsTyped, ExecTyped, PastTyped, queueVars, rowVars, execVars, past
<1>2. OneHolder' /\ StrandedStatus' /\ ExecutingIsHeld'
  BY DEF QueueInv, OneHolder, StrandedStatus, ExecutingIsHeld, queueVars, rowVars, execVars, past
<1>3. Unsent' /\ RepliedOnceAsApproved'
  BY DEF QueueInv, Unsent, RepliedOnceAsApproved, queueVars, rowVars, execVars, past
<1> QED
  BY <1>1, <1>2, <1>3 DEF QueueInv

LEMMA QueueInvNext == QueueInv /\ [QueueNext]_queueVars => QueueInv'
BY QueueInvStutter, KeepsProposeReply, KeepsEditPendingReply, KeepsApproveReply, KeepsRejectReply, KeepsBeginExecute, KeepsClaimReply, KeepsClaimLost, KeepsKnown, KeepsUnknown, KeepsPublishReply, KeepsPublishFails, KeepsMarkReplyPosted, KeepsMarkPostedFails, KeepsMarkReplyFailed, KeepsKilled DEF QueueNext, ExecuteStep

LEMMA QueueInvariance == QueueSpec => []QueueInv
BY QueueInvInit, QueueInvNext, PTL DEF QueueSpec

\* Rows keep to the table's statuses and commands to their steps.
THEOREM QueueTypeCorrect == QueueSpec => []QueueTypeOK
<1>1. QueueInv => QueueTypeOK
  BY DEF QueueInv
<1> QED
  BY <1>1, QueueInvariance, PTL

\* A post gets at most one reply, with the text that was approved.
THEOREM OneApprovedReply == QueueSpec => []RepliedOnceAsApproved
<1>1. QueueInv => RepliedOnceAsApproved
  BY DEF QueueInv
<1> QED
  BY <1>1, QueueInvariance, PTL

\* A row in executing has its command, or that command ended without an outcome.
THEOREM ExecutingRowsAreHeld == QueueSpec => []ExecutingIsHeld
<1>1. QueueInv => ExecutingIsHeld
  BY DEF QueueInv
<1> QED
  BY <1>1, QueueInvariance, PTL

OutcomeKept ==
  \A e \in Posts :
    status[e] \in {"posted", "rejected", "failed"} => status'[e] = status[e]

LEMMA OutcomeStep == QueueTypeOK /\ [QueueNext]_queueVars => OutcomeKept
<1> SUFFICES ASSUME QueueTypeOK, [QueueNext]_queueVars, NEW d \in Posts,
                    status[d] \in {"posted", "rejected", "failed"}
             PROVE  status'[d] = status[d]
  BY DEF OutcomeKept
<1>1. CASE \E e \in Posts : ApproveReply(e) \/ RejectReply(e)
  BY <1>1 DEF QueueTypeOK, RowsTyped, ApproveReply, RejectReply, Expected, Set
<1>2. CASE \E e \in Posts, t \in Texts : ProposeReply(e, t) \/ EditPendingReply(e, t)
  BY <1>2 DEF QueueTypeOK, RowsTyped, ProposeReply, EditPendingReply, Expected, Set
<1>3. ASSUME NEW x \in Executors, ClaimReply(x) \/ ClaimLost(x) \/ Known(x) \/ Unknown(x)
      PROVE  status'[d] = status[d]
  BY <1>3 DEF QueueTypeOK, RowsTyped, ExecTyped, ClaimReply, ClaimLost, Known, Unknown, Claimable, Expected, Set, rowVars
<1>4. ASSUME NEW x \in Executors, PublishReply(x) \/ PublishFails(x) \/ Killed(x)
      PROVE  status'[d] = status[d]
  BY <1>4 DEF PublishReply, PublishFails, Killed, rowVars
<1>5. ASSUME NEW x \in Executors,
             MarkReplyPosted(x) \/ MarkPostedFails(x) \/ MarkReplyFailed(x)
      PROVE  status'[d] = status[d]
  BY <1>5 DEF QueueTypeOK, RowsTyped, ExecTyped, MarkReplyPosted, MarkPostedFails, MarkReplyFailed,
             Fails, Expected, Set
<1>6. ASSUME NEW x \in Executors, NEW e \in Posts, BeginExecute(x, e)
      PROVE  status'[d] = status[d]
  BY <1>6 DEF BeginExecute, rowVars
<1>7. CASE UNCHANGED queueVars
  BY <1>7 DEF queueVars, rowVars
<1> QED
  BY <1>1, <1>2, <1>3, <1>4, <1>5, <1>6, <1>7 DEF QueueNext, ExecuteStep

\* What is posted, rejected or failed stays so.
THEOREM OutcomesAreFinal == QueueSpec => OutcomeIsFinal
<1>1. QueueSpec => [][OutcomeKept]_queueVars
  BY OutcomeStep, QueueTypeCorrect, PTL DEF QueueSpec
<1> QED
  BY <1>1 DEF OutcomeKept, OutcomeIsFinal
=============================================================================
