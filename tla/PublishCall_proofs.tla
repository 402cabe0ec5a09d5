-------------------------- MODULE PublishCall_proofs --------------------------
(***************************************************************************)
(* Theorems about PublishCall, for every number of attempts, containers    *)
(* and runs and every number of hidden posts.                              *)
(***************************************************************************)
EXTENDS PublishCall, TLAPS

\* What the client's reading of an answer implies for the worker's.
LEMMA LimitedAnswer ==
  ASSUME NEW a \in Answers, PlainLimit(a)
  PROVE  Stops(a) /\ Retryable(a) /\ ~Permanent(a)
<1>1. a.status \in Statuses
  BY DEF Answers
<1>2. a.status = 429 \/ (a.json /\ (a.code = "limit" \/ Throttled(a.message)))
  BY DEF PlainLimit, Limited
<1>3. a.code # "gone" /\ ~Says500(a) /\ ~(a.status >= 500)
  BY <1>1 DEF PlainLimit, Statuses
<1>4. ~Transient(a)
  <2>1. CASE a.status = 429
    BY <1>3, <2>1 DEF Transient
  <2>2. CASE a.json /\ (a.code = "limit" \/ Throttled(a.message))
    BY <1>3, <2>2, Zenon DEF Transient
  <2> QED
    BY <1>2, <2>1, <2>2
<1>5. RateLimited(a) /\ ~Permanent(a)
  <2>1. RateLimited(a)
    BY <1>2 DEF RateLimited
  <2> QED
    BY <1>3, <2>1 DEF Permanent
<1> QED
  BY <1>4, <1>5 DEF Stops, Retryable

LEMMA RefusedAnswer ==
  ASSUME NEW a \in Answers, NamedRefusal(a)
  PROVE  NonRetryable(a) /\ ~Retryable(a)
<1>1. a.message # "ConnectError"
  BY DEF Answers, Messages
<1> QED
  BY <1>1 DEF NamedRefusal, Retryable

\* Whatever a kind says of an answer, the call stops at it.
LEMMA KindStops ==
  ASSUME NEW a \in Answers, Kinds(a) # {}
  PROVE  Stops(a)
<1>1. PlainLimit(a) \/ NonRetryable(a)
  BY DEF Kinds, NamedRefusal
<1> QED
  BY <1>1, LimitedAnswer DEF Stops

-----------------------------------------------------------------------------
(***************************************************************************)
(* The inductive invariant.                                                *)
(***************************************************************************)

Calling == {"create", "publish"}

\* While a call goes on no post is known to exist, and nothing is decided.
Open == pc \in Calling => posts <= hidden /\ verdict = "none"

\* An answer of one of the kinds is the last one, and the one the call raises.
StoppedOnce ==
  /\ met # {} => pc \notin Calling /\ verdict # "posted"
  /\ "limit" \in met => Retryable(raised) /\ ~Permanent(raised)
  /\ "named" \in met => ~Retryable(raised)

\* The verdict fits the exception.
VerdictFits ==
  /\ pc = "judge" => verdict = "none"
  /\ verdict \in {"none", "posted", "manual", "exhausted", "requeued", "terminal"}
  /\ verdict = "manual" => Permanent(raised)
  /\ verdict = "requeued" => Retryable(raised)
  /\ verdict = "terminal" => ~Retryable(raised)

CallInv == CallTyped /\ Open /\ StoppedOnce /\ VerdictFits /\ OnePostPerCall

-----------------------------------------------------------------------------

LEMMA CallInvInit == Init => CallInv
BY DEF Init, CallInv, CallTyped, Open, StoppedOnce, VerdictFits, OnePostPerCall, Calling

LEMMA CreateKeeps == CallInv /\ CreateContainer => CallInv'
<1> SUFFICES ASSUME CallInv, CreateContainer PROVE CallInv'
  OBVIOUS
<1>1. CallTyped'
  BY DEF CallInv, CallTyped, CreateContainer, worker, history
<1>2. Open' /\ OnePostPerCall'
  BY DEF CallInv, CallTyped, Open, OnePostPerCall, Calling, CreateContainer, worker, history
<1>3. StoppedOnce' /\ VerdictFits'
  BY DEF CallInv, Open, StoppedOnce, VerdictFits, Calling, CreateContainer, worker, history
<1> QED
  BY <1>1, <1>2, <1>3 DEF CallInv

\* A call that raises before its publish request, or at one that got no answer.
LEMMA RaisesKeep ==
  ASSUME CallInv, NEW r, pc \in Calling, Raise(r), UNCHANGED <<containers, attempts, hidden, met>>,
         posts' \in {posts, posts + 1}
  PROVE  CallInv'
<1>1. CallTyped'
  BY DEF CallInv, CallTyped, Raise
<1>2. Open' /\ OnePostPerCall'
  BY DEF CallInv, CallTyped, Open, OnePostPerCall, Calling, Raise
<1>3. StoppedOnce'
  BY DEF CallInv, StoppedOnce, Raise, Calling
<1>4. VerdictFits'
  BY DEF CallInv, Open, VerdictFits, Calling, Raise
<1> QED
  BY <1>1, <1>2, <1>3, <1>4 DEF CallInv

LEMMA CreateFailsKeep ==
  ASSUME CallInv, (\E a \in Answers : CreateRejected(a)) \/ (\E x \in Exceptions : CreateRaises(x))
  PROVE  CallInv'
<1>1. ASSUME NEW r, pc = "create", Raise(r), UNCHANGED <<callVars, history>>
      PROVE  CallInv'
  BY <1>1, RaisesKeep DEF Calling, callVars, history
<1> QED
  BY <1>1 DEF CreateRejected, CreateRaises

LEMMA PublishRaisesKeeps ==
  ASSUME CallInv, NEW x \in Exceptions, PublishRaises(x)
  PROVE  CallInv'
BY RaisesKeep DEF PublishRaises, Calling, callVars

LEMMA AcceptedKeeps == CallInv /\ PublishAccepted => CallInv'
<1> SUFFICES ASSUME CallInv, PublishAccepted PROVE CallInv'
  OBVIOUS
<1>1. CallTyped' /\ Open' /\ OnePostPerCall'
  BY DEF CallInv, CallTyped, Open, OnePostPerCall, Calling, PublishAccepted, callVars
<1>2. StoppedOnce' /\ VerdictFits'
  BY DEF CallInv, StoppedOnce, VerdictFits, Calling, PublishAccepted, callVars
<1> QED
  BY <1>1, <1>2 DEF CallInv

LEMMA OneMore == \A p, h \in Nat : p <= h => p <= 1 + h
OBVIOUS

LEMMA RejectedKeeps ==
  ASSUME CallInv, NEW a \in Answers, PublishRejected(a)
  PROVE  CallInv'
<1>0. pc = "publish" /\ met' = met \cup Kinds(a) /\ pc' \in {"judge", "publish", "create"}
  BY DEF PublishRejected, Raise
<1>1. /\ posts' \in Nat /\ hidden' \in Nat
      /\ posts <= hidden => posts' <= hidden'
  <2>1. posts \in Nat /\ hidden \in Nat
    BY DEF CallInv, CallTyped
  <2>2. \/ posts' = posts /\ hidden' = hidden
        \/ posts' = posts + 1 /\ hidden' = hidden + 1
    BY DEF PublishRejected, Landed
  <2> QED
    BY <2>1, <2>2
<1>2. CallTyped'
  <2>1. containers' = containers /\ attempts' = attempts + 1 /\ runs' = runs
    BY DEF PublishRejected, Raise, worker
  <2>2. met' \subseteq {"limit", "refusal", "named"}
    BY <1>0 DEF CallInv, CallTyped, Kinds
  <2> QED
    BY <1>0, <1>1, <2>1, <2>2 DEF CallInv, CallTyped
<1>3. verdict' = "none" /\ verdict = "none"
  BY DEF CallInv, Open, Calling, PublishRejected, Raise, worker
<1>4. Open' /\ OnePostPerCall'
  <2>1. posts <= hidden /\ posts \in Nat /\ hidden \in Nat
    BY <1>0 DEF CallInv, CallTyped, Open, Calling
  <2>2. posts' <= hidden'
    BY <1>1, <2>1
  <2>3. posts' \in Nat /\ hidden' \in Nat
    BY <1>1
  <2>4. posts' <= 1 + hidden'
    BY <2>2, <2>3, OneMore
  <2> QED
    BY <1>3, <2>2, <2>4 DEF Open, OnePostPerCall
<1>5. met = {}
  BY <1>0 DEF CallInv, StoppedOnce, Calling
<1>6. Stops(a) => pc' = "judge" /\ raised' = a
  BY DEF PublishRejected, Raise
<1>7. StoppedOnce'
  <2>1. met' = Kinds(a)
    BY <1>0, <1>5
  <2>2. Kinds(a) # {} => pc' \notin Calling /\ raised' = a
    BY <1>6, KindStops DEF Calling
  <2>3. "limit" \in Kinds(a) => Retryable(a) /\ ~Permanent(a)
    BY LimitedAnswer DEF Kinds
  <2>4. "named" \in Kinds(a) => ~Retryable(a)
    BY RefusedAnswer DEF Kinds
  <2> QED
    BY <1>3, <2>1, <2>2, <2>3, <2>4 DEF StoppedOnce
<1>8. VerdictFits'
  BY <1>3 DEF VerdictFits
<1> QED
  BY <1>2, <1>4, <1>7, <1>8 DEF CallInv

LEMMA JudgeKeeps == CallInv /\ Judge => CallInv'
<1> SUFFICES ASSUME CallInv, Judge PROVE CallInv'
  OBVIOUS
<1>1. CallTyped' /\ Open' /\ OnePostPerCall'
  BY DEF CallInv, CallTyped, Open, OnePostPerCall, Calling, Judge, callVars, history
<1>2. verdict' \in {"manual", "exhausted", "requeued", "terminal"} /\ raised' = raised
  BY DEF Judge
<1>3. StoppedOnce'
  BY <1>2 DEF CallInv, StoppedOnce, Calling, Judge, history
<1>4. VerdictFits'
  <2>1. CASE Permanent(raised)
    BY <1>2, <2>1 DEF Judge, VerdictFits, Permanent
  <2>2. CASE ~Permanent(raised) /\ runs >= MaxRuns
    BY <1>2, <2>2 DEF Judge, VerdictFits
  <2>3. CASE ~Permanent(raised) /\ runs < MaxRuns /\ Retryable(raised)
    <3>1. ~(runs >= MaxRuns)
      BY <2>3, CallBounds DEF CallInv, CallTyped
    <3>2. verdict' = "requeued"
      BY <2>3, <3>1 DEF Judge
    <3> QED
      BY <1>2, <2>3, <3>2 DEF Judge, VerdictFits
  <2>4. CASE ~Permanent(raised) /\ runs < MaxRuns /\ ~Retryable(raised)
    <3>1. ~(runs >= MaxRuns)
      BY <2>4, CallBounds DEF CallInv, CallTyped
    <3>2. verdict' = "terminal"
      BY <2>4, <3>1 DEF Judge
    <3> QED
      BY <1>2, <2>4, <3>2 DEF Judge, VerdictFits
  <2> QED
    BY <2>1, <2>2, <2>3, <2>4, CallBounds DEF CallInv, CallTyped
<1> QED
  BY <1>1, <1>3, <1>4 DEF CallInv

LEMMA NextRunKeeps == CallInv /\ NextRun => CallInv'
<1> SUFFICES ASSUME CallInv, NextRun PROVE CallInv'
  OBVIOUS
<1>1. CallTyped' /\ Open' /\ OnePostPerCall'
  BY DEF CallInv, CallTyped, Open, OnePostPerCall, Calling, NextRun
<1>2. StoppedOnce' /\ VerdictFits'
  BY DEF StoppedOnce, VerdictFits, NextRun
<1> QED
  BY <1>1, <1>2 DEF CallInv

LEMMA CallStutters == CallInv /\ UNCHANGED vars => CallInv'
<1> SUFFICES ASSUME CallInv, UNCHANGED vars PROVE CallInv'
  OBVIOUS
<1>1. CallTyped' /\ Open' /\ OnePostPerCall'
  BY DEF CallInv, CallTyped, Open, OnePostPerCall, vars, callVars, worker, history
<1>2. StoppedOnce' /\ VerdictFits'
  BY DEF CallInv, StoppedOnce, VerdictFits,
      vars, callVars, worker, history
<1> QED
  BY <1>1, <1>2 DEF CallInv

LEMMA CallInvNext == CallInv /\ [Next]_vars => CallInv'
BY CreateKeeps, CreateFailsKeep, PublishRaisesKeeps, AcceptedKeeps, RejectedKeeps, JudgeKeeps,
   NextRunKeeps, CallStutters DEF Next

LEMMA CallInvariance == Spec => []CallInv
BY CallInvInit, CallInvNext, PTL DEF Spec

-----------------------------------------------------------------------------

\* The call's counters stay numbers and its steps those of publish_text.
THEOREM CallTypeCorrect == Spec => []CallTyped
<1>1. CallInv => CallTyped
  BY DEF CallInv
<1> QED
  BY <1>1, CallInvariance, PTL

\* A call creates one post at most, unless an error answer hid one.
THEOREM OnePost == Spec => []OnePostPerCall
<1>1. CallInv => OnePostPerCall
  BY DEF CallInv
<1> QED
  BY <1>1, CallInvariance, PTL

\* A rate limit below 500 ends the call and leaves the row to a later run, unless its
\* text reads as the length limit.
THEOREM LimitsYield == Spec => []LimitYields
<1>1. CallInv => LimitYields
  <2> SUFFICES ASSUME CallInv, "limit" \in met
               PROVE  pc \in {"judge", "rest"} /\ verdict \in {"none", "requeued", "exhausted"}
    BY DEF LimitYields
  <2>1. pc \notin Calling /\ verdict # "posted" /\ Retryable(raised) /\ ~Permanent(raised)
    BY DEF CallInv, StoppedOnce
  <2> QED
    BY <2>1 DEF CallInv, CallTyped, VerdictFits, Calling
<1> QED
  BY <1>1, CallInvariance, PTL

\* A refusal, in words or by its code, ends the call; one in words ends the row's retries.
THEOREM RefusalsAreFinal == Spec => []RefusalIsFinal
<1>1. CallInv => RefusalIsFinal
  <2>1. ASSUME CallInv, "refusal" \in met
        PROVE  pc \in {"judge", "rest"} /\ verdict # "posted"
    BY <2>1 DEF CallInv, CallTyped, StoppedOnce, Calling
  <2>2. ASSUME CallInv, "named" \in met
        PROVE  verdict # "requeued"
    BY <2>2 DEF CallInv, StoppedOnce, VerdictFits
  <2> QED
    BY <2>1, <2>2 DEF RefusalIsFinal
<1> QED
  BY <1>1, CallInvariance, PTL
=============================================================================
