--------------------------- MODULE EditSessions_proofs ---------------------------
(***************************************************************************)
(* Theorems about EditSessions, for every number of senders, workflows,    *)
(* rows, times, handlers, sessions and faults.                             *)
(***************************************************************************)
EXTENDS EditSessions, WellFoundedInduction, TLAPS

-----------------------------------------------------------------------------
(***************************************************************************)
(* The oldest session.                                                     *)
(***************************************************************************)

Below == { p \in Nat \X Nat : p[1] < p[2] }

\* The least-number principle, about a set: this is how induction is used here.
LEMMA LeastNumber ==
  ASSUME NEW T \in SUBSET Nat, T # {}
  PROVE  \E x \in T : \A y \in T : x <= y
<1>1. IsWellFoundedOn(Below, Nat)
  BY NatLessThanWellFounded DEF OpToRel, Below
<1>2. PICK x \in T : \A y \in T : ~ (<<y, x>> \in Below)
  BY <1>1, WFMin
<1>3. \A m, n \in Nat : m < n => <<m, n>> \in Below
  BY DEF Below
<1>4. ASSUME NEW y \in T PROVE x <= y
  <2>1. x \in Nat /\ y \in Nat
    OBVIOUS
  <2>2. ~ (y < x)
    BY <2>1, <1>2, <1>3
  <2> QED
    BY <2>1, <2>2
<1> QED
  BY <1>4

\* Of sessions with numbered tokens there is an oldest one, and Oldest finds it.
LEMMA OldestIsOne ==
  ASSUME NEW S, S # {}, \A s \in S : s.token \in Nat
  PROVE  Oldest(S) \in S
<1> DEFINE T == { s.token : s \in S }
<1>1. T \in SUBSET Nat /\ T # {}
  OBVIOUS
<1>2. PICK x \in T : \A y \in T : x <= y
  BY <1>1, LeastNumber
<1>3. PICK s \in S : s.token = x
  OBVIOUS
<1>4. \A r \in S : s.token <= r.token
  BY <1>2, <1>3
<1> QED
  BY <1>4 DEF Oldest

-----------------------------------------------------------------------------
(***************************************************************************)
(* The inductive invariant.                                                *)
(***************************************************************************)

\* What a session says was asked of its sender, and shown to it if it holds a time.
Honest(s) ==
  /\ s.token \in Nat
  /\ <<s.from, s.id>> \in asked
  /\ s.tag \in Times => <<s.from, s.tag>> \in shown

\* A handler that waits works for the sender of the session it read.
Working(h) ==
  pc[h] # "idle" =>
    /\ job[h].session.from = job[h].by /\ Honest(job[h].session)
    /\ pc[h] = "confirm" => job[h].session.tag \in Times

SessionInv ==
  /\ minted \in Nat
  /\ pc \in [Handlers -> {"idle", "edit", "confirm"}]
  /\ DOMAIN job = Handlers
  /\ \A s \in sessions : Honest(s)
  /\ \A h \in Handlers : Working(h)
  /\ TextsAreAskedFor
  /\ ConfirmedTimeWasShown

LEMMA SessionInvInit == SessionInit => SessionInv
BY DEF SessionInit, SessionInv, Working, TextsAreAskedFor, ConfirmedTimeWasShown

\* The session a dispatcher finds is its sender's, and honest.
LEMMA FirstIsHonest ==
  ASSUME SessionInv, NEW u, Sessions(u) # {}
  PROVE  First(u) \in sessions /\ First(u).from = u /\ Honest(First(u))
<1>1. \A s \in Sessions(u) : s.token \in Nat
  BY DEF SessionInv, Sessions, Honest
<1>2. First(u) \in Sessions(u)
  BY <1>1, OldestIsOne DEF First
<1> QED
  BY <1>2 DEF SessionInv, Sessions

\* Sessions are only closed, and what was asked and shown stays: all is as honest as before.
LEMMA Fewer ==
  ASSUME SessionInv, sessions' \subseteq sessions, UNCHANGED <<minted, handlerVars, history>>
  PROVE  SessionInv'
<1>1. \A s : Honest(s)' <=> Honest(s)
  BY DEF Honest, history
<1>2. \A h \in Handlers : Working(h)'
  BY <1>1 DEF SessionInv, Working, handlerVars, history
<1> QED
  BY <1>1, <1>2 DEF SessionInv, handlerVars, history, TextsAreAskedFor, ConfirmedTimeWasShown

\* A new session that is honest, for a sender that was asked.
LEMMA OneMore ==
  ASSUME SessionInv, NEW q \in SUBSET sessions, NEW u, NEW i, NEW tag, Create(q, u, i, tag),
         UNCHANGED <<handlerVars, edited, scheduled>>,
         asked \subseteq asked', shown \subseteq shown', <<u, i>> \in asked',
         tag \in Times => <<u, tag>> \in shown'
  PROVE  SessionInv'
<1>1. \A s : Honest(s) => Honest(s)'
  BY DEF Honest
<1>2. minted' \in Nat
  BY DEF Create, SessionInv
<1>3. ASSUME NEW s \in sessions' PROVE Honest(s)'
  <2>1. CASE s \in sessions
    BY <2>1, <1>1 DEF SessionInv
  <2>2. CASE s \notin sessions
    <3>1. s = [from |-> u, id |-> i, tag |-> tag, token |-> minted + 1]
      BY <2>2 DEF Create
    <3> QED
      BY <3>1 DEF Honest, SessionInv
  <2> QED
    BY <2>1, <2>2
<1>4. \A h \in Handlers : Working(h)'
  BY <1>1 DEF SessionInv, Working, handlerVars
<1>5. TextsAreAskedFor' /\ ConfirmedTimeWasShown'
  BY DEF SessionInv, TextsAreAskedFor, ConfirmedTimeWasShown
<1> QED
  BY <1>2, <1>3, <1>4, <1>5 DEF SessionInv, handlerVars

-----------------------------------------------------------------------------
(***************************************************************************)
(* One lemma for each kind of step.                                        *)
(***************************************************************************)

\* A handler begins to wait, with the first session of its sender.
LEMMA Begins ==
  ASSUME SessionInv, NEW h \in Handlers, NEW step \in {"edit", "confirm"}, NEW f, NEW u,
         Sessions(u) # {}, step = "confirm" => First(u).tag \in Times,
         Starts(h, step, f, u), UNCHANGED <<fileVars, history>>
  PROVE  SessionInv'
<1>1. \A s : Honest(s)' <=> Honest(s)
  BY DEF Honest, history
<1>2. First(u).from = u /\ Honest(First(u))
  BY FirstIsHonest
<1>3. pc' \in [Handlers -> {"idle", "edit", "confirm"}] /\ DOMAIN job' = Handlers
  BY DEF SessionInv, Starts
<1>4. ASSUME NEW k \in Handlers PROVE Working(k)'
  <2>1. CASE k = h
    <3>1. job'[k] = [flow |-> f, by |-> u, session |-> First(u)] /\ pc'[k] = step
      BY <2>1 DEF SessionInv, Starts
    <3>2. job'[k].by = u /\ job'[k].session = First(u)
      BY <3>1
    <3> QED
      BY <1>1, <1>2, <3>1, <3>2 DEF Working
  <2>2. CASE k # h
    <3>1. job'[k] = job[k] /\ pc'[k] = pc[k]
      BY <2>2 DEF SessionInv, Starts
    <3> QED
      BY <1>1, <3>1 DEF Working, SessionInv
  <2> QED
    BY <2>1, <2>2
<1>5. minted' \in Nat /\ \A s \in sessions' : Honest(s)'
  BY <1>1 DEF SessionInv, fileVars
<1>6. TextsAreAskedFor' /\ ConfirmedTimeWasShown'
  BY DEF SessionInv, TextsAreAskedFor, ConfirmedTimeWasShown, history
<1> QED
  BY <1>3, <1>4, <1>5, <1>6 DEF SessionInv

\* A handler stops waiting; its text or its time may have been taken.
LEMMA Stops ==
  ASSUME SessionInv, NEW h \in Handlers, Ends(h), sessions' \subseteq sessions,
         UNCHANGED <<minted, asked, shown>>,
         edited' \subseteq edited \cup
           (IF pc[h] = "edit" THEN {<<job[h].by, job[h].session.id>>} ELSE {}),
         scheduled' \subseteq scheduled \cup
           (IF pc[h] = "confirm" THEN {<<job[h].by, job[h].session.tag>>} ELSE {})
  PROVE  SessionInv'
<1>1. \A s : Honest(s)' <=> Honest(s)
  BY DEF Honest
<1>2. pc' \in [Handlers -> {"idle", "edit", "confirm"}] /\ DOMAIN job' = Handlers
  BY DEF SessionInv, Ends
<1>3. ASSUME NEW k \in Handlers PROVE Working(k)'
  <2>1. CASE k = h
    BY <2>1 DEF SessionInv, Ends, Working
  <2>2. CASE k # h
    <3>1. job'[k] = job[k] /\ pc'[k] = pc[k]
      BY <2>2 DEF SessionInv, Ends
    <3> QED
      BY <1>1, <3>1 DEF Working, SessionInv
  <2> QED
    BY <2>1, <2>2
<1>4. minted' \in Nat /\ \A s \in sessions' : Honest(s)'
  BY <1>1 DEF SessionInv
<1>5. TextsAreAskedFor'
  BY DEF SessionInv, Working, Honest, TextsAreAskedFor
<1>6. ConfirmedTimeWasShown'
  BY DEF SessionInv, Working, Honest, ConfirmedTimeWasShown
<1> QED
  BY <1>2, <1>3, <1>4, <1>5, <1>6 DEF SessionInv

LEMMA FewerExpire == SessionInv /\ Expire => SessionInv'
BY Fewer DEF Expire, Close, history

LEMMA FewerDecide ==
  ASSUME SessionInv, NEW f, NEW i, Decide(f, i) PROVE SessionInv'
BY Fewer DEF Decide, fileVars

LEMMA MoreAsks ==
  ASSUME SessionInv, NEW u, NEW i, Asks(u, i) PROVE SessionInv'
<1>1. "edit" \notin Times
  BY TagAssumption
<1>2. Create(sessions, u, i, "edit") /\ UNCHANGED <<handlerVars, edited, scheduled>>
  BY DEF Asks
<1>3. asked \subseteq asked' /\ shown \subseteq shown' /\ <<u, i>> \in asked'
  BY DEF Asks
<1> QED
  BY <1>1, <1>2, <1>3, OneMore

LEMMA MoreChoose ==
  ASSUME SessionInv, NEW u, NEW i, TapChoose(u, i) PROVE SessionInv'
<1>1. "input" \notin Times
  BY TagAssumption
<1>2. Create(sessions, u, i, "input") /\ UNCHANGED <<handlerVars, edited, scheduled>>
  BY DEF TapChoose
<1>3. asked \subseteq asked' /\ shown \subseteq shown' /\ <<u, i>> \in asked'
  BY DEF TapChoose
<1> QED
  BY <1>1, <1>2, <1>3, OneMore

LEMMA MoreNames ==
  ASSUME SessionInv, NEW u, NEW t, NameTime(u, t) PROVE SessionInv'
<1> DEFINE s == First(u)
<1>1. s.from = u /\ Honest(s)
  BY FirstIsHonest DEF NameTime
<1>2. <<u, s.id>> \in asked
  BY <1>1 DEF Honest
<1>3. /\ Create(Close(sessions, s), u, s.id, t) /\ UNCHANGED <<handlerVars, edited, scheduled>>
      /\ asked' = asked /\ shown' = shown \cup {<<u, t>>}
  BY DEF NameTime
<1>4. Close(sessions, s) \in SUBSET sessions
  BY DEF Close
<1> HIDE DEF s
<1> QED
  BY <1>2, <1>3, <1>4, OneMore

LEMMA FewerCancel ==
  ASSUME SessionInv, NEW u, SendCancel(u) \/ TapCancel(u) \/ CancelTime(u) PROVE SessionInv'
<1>1. sessions' \subseteq sessions
  BY DEF SendCancel, TapCancel, CancelTime, Close
<1>2. UNCHANGED <<minted, handlerVars, history>>
  BY DEF SendCancel, TapCancel, CancelTime
<1> QED
  BY <1>1, <1>2, Fewer

LEMMA BeginsText ==
  ASSUME SessionInv, NEW h \in Handlers, NEW u, NEW f, SendText(h, u, f) PROVE SessionInv'
BY Begins DEF SendText

LEMMA BeginsConfirm ==
  ASSUME SessionInv, NEW h \in Handlers, NEW u, TapConfirm(h, u) PROVE SessionInv'
BY Begins DEF TapConfirm

LEMMA StopsEdit ==
  ASSUME SessionInv, NEW h \in Handlers, EditAnswered(h) \/ EditFails(h) PROVE SessionInv'
<1>1. pc[h] = "edit" /\ Ends(h) /\ scheduled' = scheduled /\ UNCHANGED <<minted, asked, shown>>
  BY DEF EditAnswered, EditFails, fileVars
<1>2. sessions' \subseteq sessions
  BY DEF EditAnswered, EditFails, Close, fileVars
<1>3. edited' \subseteq edited \cup {<<job[h].by, job[h].session.id>>}
  BY DEF EditAnswered, EditFails, Took
<1> QED
  BY <1>1, <1>2, <1>3, Stops

LEMMA StopsConfirm ==
  ASSUME SessionInv, NEW h \in Handlers, ConfirmAnswered(h) \/ ConfirmDies(h) PROVE SessionInv'
<1>1. pc[h] = "confirm" /\ Ends(h) /\ edited' = edited /\ UNCHANGED <<minted, asked, shown>>
  BY DEF ConfirmAnswered, ConfirmDies, fileVars
<1>2. sessions' \subseteq sessions
  BY DEF ConfirmAnswered, ConfirmDies, Close, fileVars
<1>3. scheduled' \subseteq scheduled \cup {<<job[h].by, job[h].session.tag>>}
  BY DEF ConfirmAnswered, ConfirmDies
<1> QED
  BY <1>1, <1>2, <1>3, Stops

LEMMA SessionInvNext == SessionInv /\ [SessionNext]_sessionVars => SessionInv'
<1> SUFFICES ASSUME SessionInv, [SessionNext]_sessionVars PROVE SessionInv'
  OBVIOUS
<1>1. CASE Expire
  BY <1>1, FewerExpire
<1>2. ASSUME NEW f \in Flows, NEW i \in Ids, Decide(f, i) PROVE SessionInv'
  BY <1>2, FewerDecide
<1>3. ASSUME NEW f \in Flows, NEW i \in Ids, NEW u \in Senders,
             TapEdit(u, f, i) \/ TapEditListed(u, f, i)
      PROVE  SessionInv'
  BY <1>3, MoreAsks DEF TapEdit, TapEditListed
<1>4. ASSUME NEW u \in Senders, SendCancel(u) \/ TapCancel(u) \/ CancelTime(u) PROVE SessionInv'
  BY <1>4, FewerCancel
<1>5. ASSUME NEW u \in Senders, NEW t \in Times, NameTime(u, t) PROVE SessionInv'
  BY <1>5, MoreNames
<1>6. ASSUME NEW u \in Senders, NEW i \in Ids, TapChoose(u, i) PROVE SessionInv'
  BY <1>6, MoreChoose
<1>7. ASSUME NEW u \in Senders, NEW h \in Handlers, TapConfirm(h, u) PROVE SessionInv'
  BY <1>7, BeginsConfirm
<1>8. ASSUME NEW u \in Senders, NEW h \in Handlers, NEW f \in Flows, SendText(h, u, f)
      PROVE  SessionInv'
  BY <1>8, BeginsText
<1>9. ASSUME NEW h \in Handlers, EditAnswered(h) \/ EditFails(h) PROVE SessionInv'
  BY <1>9, StopsEdit
<1>10. ASSUME NEW h \in Handlers, ConfirmAnswered(h) \/ ConfirmDies(h) PROVE SessionInv'
  BY <1>10, StopsConfirm
<1>11. CASE UNCHANGED sessionVars
  BY <1>11, Fewer DEF sessionVars, fileVars
<1> QED
  BY <1>1, <1>2, <1>3, <1>4, <1>5, <1>6, <1>7, <1>8, <1>9, <1>10, <1>11 DEF SessionNext

LEMMA SessionInvAlways == SessionSpec => []SessionInv
BY SessionInvInit, SessionInvNext, PTL DEF SessionSpec

-----------------------------------------------------------------------------
(***************************************************************************)
(* The theorems.                                                           *)
(***************************************************************************)

\* A text the command line takes, through whichever dispatcher and however late, comes from
\* a sender who was asked for a text or a time of a row with that number.
THEOREM TextsAsked == SessionSpec => []TextsAreAskedFor
<1>1. SessionInv => TextsAreAskedFor
  BY DEF SessionInv
<1> QED
  BY <1>1, SessionInvAlways, PTL

\* A time that Confirm schedules has been on a confirmation card of the sender who tapped.
THEOREM TimesShown == SessionSpec => []ConfirmedTimeWasShown
<1>1. SessionInv => ConfirmedTimeWasShown
  BY DEF SessionInv
<1> QED
  BY <1>1, SessionInvAlways, PTL

\* The answer to a text closes the session it was read for, and no other one.
THEOREM LaterAsksStay == SessionSpec => LaterAskStays
<1> DEFINE Stay ==
      \A h \in Handlers :
        pc[h] = "edit" /\ pc'[h] = "idle" =>
          \A s \in sessions : s.token # job[h].session.token => s \in sessions'
<1>1. ASSUME SessionInv, [SessionNext]_sessionVars PROVE [Stay]_sessionVars
  <2> SUFFICES ASSUME SessionNext, NEW h \in Handlers, pc[h] = "edit", pc'[h] = "idle",
                      NEW s \in sessions, s.token # job[h].session.token
               PROVE  s \in sessions'
    BY <1>1
  <2>1. ASSUME NEW k \in Handlers, ConfirmAnswered(k) \/ ConfirmDies(k) PROVE FALSE
    BY <1>1, <2>1 DEF SessionInv, ConfirmAnswered, ConfirmDies, Ends
  <2>2. ASSUME NEW k \in Handlers, EditAnswered(k) PROVE s \in sessions'
    <3>1. k = h
      BY <1>1, <2>2 DEF SessionInv, EditAnswered, Ends
    <3> QED
      BY <2>2, <3>1 DEF EditAnswered, Close
  <2>3. ASSUME NEW k \in Handlers, EditFails(k) PROVE s \in sessions'
    BY <2>3 DEF EditFails, fileVars
  <2>4. ASSUME NEW k \in Handlers, NEW u, NEW f, NEW step \in {"edit", "confirm"},
               Starts(k, step, f, u)
        PROVE  FALSE
    BY <1>1, <2>4 DEF SessionInv, Starts
  <2>5. ASSUME NEW k \in Handlers, NEW u, NEW f, SendText(k, u, f) \/ TapConfirm(k, u)
        PROVE  FALSE
    BY <2>4, <2>5 DEF SendText, TapConfirm
  <2>6. ~ (pc' = pc)
    BY <1>1
  <2> QED
    BY <2>1, <2>2, <2>3, <2>5, <2>6 DEF SessionNext, Expire, Decide, TapEdit, TapEditListed, Asks,
        SendCancel, TapCancel, CancelTime, NameTime, TapChoose, handlerVars
<1> HIDE DEF Stay
<1>2. SessionSpec => [][Stay]_sessionVars
  BY <1>1, SessionInvAlways, PTL DEF SessionSpec
<1> QED
  BY <1>2 DEF LaterAskStays, Stay
=============================================================================
