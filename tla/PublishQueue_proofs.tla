-------------------------- MODULE PublishQueue_proofs --------------------------
(***************************************************************************)
(* Proofs about PublishQueue for every number of runs, rows and replies,   *)
(* every attempt budget and every lease that outlives a run.               *)
(***************************************************************************)
EXTENDS PublishQueue, TLAPS

(***************************************************************************)
(* The inductive invariant: what holds of each row, what holds of each     *)
(* run, and that runs do not share rows.                                   *)
(***************************************************************************)

RowInv(r) ==
  /\ queue[r].main <= roots[r]
  /\ \A i \in 1..queue[r].replies : copies[r][i] > 0
  /\ queue[r].replies > 0 => queue[r].main > 0
  /\ queue[r].status = "posted" => queue[r].main > 0 /\ queue[r].replies = Replies
  /\ queue[r].attempts < MaxAttempts
  /\ \A i \in 2..Replies : copies[r][i] <= 1

\* Before the root is saved.
RootStage(w) ==
  LET q == queue[cur[w]]  m == mem[w][cur[w]] IN
  /\ q.main = 0 /\ q.replies = 0 /\ m.replies = 0
  /\ pc[w] \in {"scan", "root"} => m.main = 0
  /\ pc[w] = "root" => roots[cur[w]] = 0 \/ q.attempts = 0
  /\ pc[w] = "saveRoot" => m.main > 0 /\ m.main = roots[cur[w]]

\* Afterwards: the run is at most one reply ahead of the row.
ReplyStage(w) ==
  LET q == queue[cur[w]]  m == mem[w][cur[w]] IN
  /\ q.main = m.main /\ q.main > 0
  /\ pc[w] \in {"verify", "gate", "reply", "finish"} => m.replies = q.replies
  /\ pc[w] \in {"gate", "reply"} => m.replies < Replies
  /\ pc[w] = "reply" /\ m.replies > 0 => copies[cur[w]][m.replies + 1] = 0
  /\ pc[w] = "saveReply" => /\ m.replies = q.replies + 1
                            /\ copies[cur[w]][m.replies] > 0
  /\ pc[w] = "finish" => m.replies = Replies

PublishInv(w) ==
  /\ queue[cur[w]].status = "posting"
  /\ queue[cur[w]].attempts = mem[w][cur[w]].attempts
  /\ IF pc[w] \in {"scan", "root", "saveRoot"} THEN RootStage(w) ELSE ReplyStage(w)

RunInv(w) ==
  /\ lag[w] <= runAge[w] /\ runAge[w] <= RunLimit
  /\ pc[w] \in {"off", "list", "peek", "claim"} => todo[w] = {}
  /\ pc[w] \in Publishing \cup Settling =>
       /\ cur[w] \notin todo[w]
       /\ phase[w] = "claim" => todo[w] = {}
  /\ \A r \in todo[w] : queue[r].status = "posting" /\ mem[w][r] = Progress(r)
  /\ \A r \in Busy(w) : queue[r].age <= runAge[w]
  /\ pc[w] \in Settling => queue[cur[w]].status \in {"posting", "posted", "failed"}
  /\ pc[w] \in Publishing => PublishInv(w)

IInv ==
  /\ TypeOK
  /\ OnePublisher
  /\ \A r \in Rows : RowInv(r)
  /\ \A w \in Workers : RunInv(w)

-----------------------------------------------------------------------------
(***************************************************************************)
(* Types.                                                                  *)
(***************************************************************************)

Row == [status : Statuses, main : Nat, replies : 0..Replies,
        attempts : Nat, backoff : Nat, wait : Nat, age : Nat]
Memory == [main : Nat, replies : 0..Replies, attempts : Nat, blind : BOOLEAN]

LocalTypes ==
  /\ pc \in [Workers -> Steps]
  /\ phase \in [Workers -> {"resume", "claim"}]
  /\ cur \in [Workers -> Rows]
  /\ cand \in [Workers -> SUBSET Rows]
  /\ todo \in [Workers -> SUBSET Rows]
  /\ seen \in [Workers -> SUBSET Rows]
  /\ mem \in [Workers -> [Rows -> Memory]]
  /\ err \in [Workers -> ErrorKinds]
  /\ runAge \in [Workers -> Nat]
  /\ lag \in [Workers -> Nat]

SharedTypes ==
  /\ queue \in [Rows -> Row]
  /\ roots \in [Rows -> Nat]
  /\ copies \in [Rows -> [1..Replies -> Nat]]
  /\ moves \in SUBSET (Rows \X MoveTo)
  /\ upsets \in Nat

LEMMA TypesSplit ==
  /\ TypeOK <=> LocalTypes /\ SharedTypes
  /\ TypeOK' <=> LocalTypes' /\ SharedTypes'
  BY DEF TypeOK, LocalTypes, SharedTypes, Row, Memory

LEMMA DelayType == \A a \in Nat \ {0} : Delay(a) \in Nat
<1> SUFFICES ASSUME NEW a \in Nat \ {0} PROVE Delay(a) \in Nat
  OBVIOUS
<1>1. Len(Backoff) \in Nat \ {0} /\ \A i \in 1..Len(Backoff) : Backoff[i] \in Nat
  BY TimesAssumption
<1>. QED
  BY <1>1 DEF Delay

LEMMA InitType == Init => TypeOK
<1> SUFFICES ASSUME Init PROVE TypeOK
  OBVIOUS
<1>1. (CHOOSE r \in Rows : TRUE) \in Rows
  BY CountsAssumption
<1>2. Blank \in Memory /\ NoRow \in Row
  BY CountsAssumption DEF Blank, Memory, NoRow, Row, Statuses
<1>3. SharedTypes
  BY <1>2 DEF Init, SharedTypes
<1>4. LocalTypes
  BY <1>1, <1>2 DEF Init, LocalTypes, Steps, ErrorKinds
<1>. QED
  BY <1>3, <1>4, TypesSplit

LEMMA ExitType ==
  ASSUME LocalTypes, NEW w \in Workers, Exit(w)
  PROVE  LocalTypes'
<1>1. Blank \in Memory
  BY CountsAssumption DEF Blank, Memory
<1>. QED
  BY <1>1 DEF LocalTypes, Exit, Steps, ErrorKinds

LEMMA AfterRowType ==
  ASSUME LocalTypes, NEW w \in Workers, AfterRow(w)
  PROVE  LocalTypes'
<1>1. CASE phase[w] = "claim" /\ cur[w] \in seen[w]
  BY <1>1, ExitType DEF AfterRow
<1>2. CASE ~(phase[w] = "claim" /\ cur[w] \in seen[w])
  <2>1. Blank \in Memory /\ cur[w] \in Rows
    BY CountsAssumption DEF Blank, Memory, LocalTypes
  <2>2. /\ \E next \in {"reclaim", "peek"} : pc' = [pc EXCEPT ![w] = next]
        /\ seen' = [seen EXCEPT ![w] = @ \cup {cur[w]}]
        /\ mem' = [mem EXCEPT ![w][cur[w]] = Blank]
        /\ err' = [err EXCEPT ![w] = "final"]
        /\ UNCHANGED <<phase, cur, cand, todo, runAge, lag>>
    BY <1>2, Zenon DEF AfterRow
  <2>. QED
    BY <2>1, <2>2 DEF LocalTypes, Steps, ErrorKinds
<1>. QED
  BY <1>1, <1>2

LEMMA RaiseType ==
  ASSUME LocalTypes, NEW w \in Workers, NEW k \in ErrorKinds, Raise(w, k)
  PROVE  LocalTypes' /\ moves' = moves
BY DEF LocalTypes, Raise, Steps, Settling

LEMMA AdvanceType ==
  ASSUME LocalTypes, NEW w \in Workers, NEW m \in Memory,
         NEW next \in Steps, Advance(w, m, next)
  PROVE  LocalTypes' /\ moves' = moves /\ upsets' = upsets
BY DEF LocalTypes, Advance, Calm

LEMMA PatchType ==
  ASSUME SharedTypes, NEW r \in Rows, NEW q \in Row, Patch(r, q) \/ UNCHANGED queue
  PROVE  queue' \in [Rows -> Row]
BY DEF SharedTypes, Patch

LEMMA Reads ==
  ASSUME LocalTypes, SharedTypes
  PROVE  /\ \A r \in Rows : /\ queue[r] \in Row /\ Progress(r) \in Memory
                            /\ roots[r] \in Nat /\ copies[r] \in [1..Replies -> Nat]
         /\ \A w \in Workers : /\ cur[w] \in Rows /\ todo[w] \subseteq Rows
                               /\ cand[w] \subseteq Rows
                               /\ lag[w] \in Nat /\ runAge[w] \in Nat
         /\ \A w \in Workers, r \in Rows : mem[w][r] \in Memory
         /\ \A w \in Workers : queue[cur[w]] \in Row /\ mem[w][cur[w]] \in Memory
<1>1. \A r \in Rows : queue[r] \in Row
  BY DEF SharedTypes
<1>2. \A r \in Rows : Progress(r) \in Memory
  BY <1>1 DEF Progress, Row, Memory
<1>3. \A r \in Rows : roots[r] \in Nat /\ copies[r] \in [1..Replies -> Nat]
  BY DEF SharedTypes
<1>4. \A w \in Workers, r \in Rows : mem[w][r] \in Memory
  BY DEF LocalTypes
<1>5. \A w \in Workers : cur[w] \in Rows /\ todo[w] \subseteq Rows /\ cand[w] \subseteq Rows
  BY DEF LocalTypes
<1>6. \A w \in Workers : lag[w] \in Nat /\ runAge[w] \in Nat
  BY DEF LocalTypes
<1>. QED
  BY <1>1, <1>2, <1>3, <1>4, <1>5, <1>6

LEMMA EntryType == \A m \in Memory : Entry(m) \in Steps /\ NextSlot(m) \in Steps
<1> SUFFICES ASSUME NEW m \in Memory PROVE Entry(m) \in Steps /\ NextSlot(m) \in Steps
  OBVIOUS
<1>1. m.main \in Nat /\ m.replies \in Nat /\ m.attempts \in Nat
  BY CountsAssumption DEF Memory
<1>. QED
  BY <1>1 DEF Entry, NextSlot, Steps, Publishing, Settling

\* The rows that the run's writes produce.
LEMMA WrittenRows ==
  ASSUME LocalTypes, SharedTypes, NEW w \in Workers
  PROVE  /\ RootSaved(w) \in Row /\ RepliesSaved(w) \in Row /\ Posted(w) \in Row
         /\ Failed(cur[w]) \in Row
         /\ \A a \in Nat \ {0} : Requeued(cur[w], a) \in Row
<1>1. queue[cur[w]] \in Row /\ mem[w][cur[w]] \in Memory
  BY Reads
<1>2. RootSaved(w) \in Row /\ RepliesSaved(w) \in Row
  BY <1>1 DEF RootSaved, RepliesSaved, Row, Memory
<1>3. Posted(w) \in Row /\ Failed(cur[w]) \in Row
  BY <1>1, <1>2 DEF Posted, Failed, Row, Statuses
<1>4. \A a \in Nat \ {0} : Requeued(cur[w], a) \in Row
  BY <1>1, DelayType DEF Requeued, Row, Statuses
<1>. QED
  BY <1>2, <1>3, <1>4

LEMMA WriterType ==
  ASSUME LocalTypes, SharedTypes, NEW r \in Rows, WriterStep(r)
  PROVE  LocalTypes' /\ SharedTypes'
<1>. queue[r] \in Row
  BY Reads
<1>1. CASE \E d \in Delays : EnqueueDraft(r, d) \/ EnqueueApproved(r, d) \/ PromoteDraft(r, d)
  <2>1. PICK d \in Delays : EnqueueDraft(r, d) \/ EnqueueApproved(r, d) \/ PromoteDraft(r, d)
    BY <1>1
  <2>2. d \in Nat
    BY TimesAssumption
  <2>3. PICK q \in Row : Patch(r, q)
    BY <2>1, <2>2 DEF EnqueueDraft, EnqueueApproved, PromoteDraft, Row, Statuses
  <2>4. UNCHANGED <<runs, account, moves, upsets>>
    BY <2>1 DEF EnqueueDraft, EnqueueApproved, PromoteDraft, Calm
  <2>. QED
    BY <2>3, <2>4, PatchType DEF LocalTypes, SharedTypes, runs, account
<1>2. CASE \E d \in MoveTo : RescheduleRead(r, d)
  BY <1>2 DEF LocalTypes, SharedTypes, RescheduleRead, runs, account, Calm
<1>3. CASE \E d \in MoveTo : RescheduleWrite(r, d)
  <2>1. PICK d \in MoveTo : RescheduleWrite(r, d)
    BY <1>3
  <2>2. PICK q \in Row : Patch(r, q)
    BY <2>1, TimesAssumption DEF RescheduleWrite, Row
  <2>3. UNCHANGED <<runs, account, upsets>> /\ moves' \subseteq moves
    BY <2>1 DEF RescheduleWrite, Calm
  <2>. QED
    BY <2>2, <2>3, PatchType DEF LocalTypes, SharedTypes, runs, account
<1>4. CASE ManualRequeue(r)
  <2>1. PICK q \in Row : Patch(r, q)
    BY <1>4 DEF ManualRequeue, Row, Statuses
  <2>2. UNCHANGED <<runs, account, moves>> /\ upsets' = upsets + 1
    BY <1>4 DEF ManualRequeue, Upset
  <2>. QED
    BY <2>1, <2>2, PatchType DEF LocalTypes, SharedTypes, runs, account
<1>. QED
  BY <1>1, <1>2, <1>3, <1>4 DEF WriterStep

LEMMA CounterType ==
  ASSUME NEW S, NEW f \in [S -> Nat], NEW s \in S
  PROVE  [f EXCEPT ![s] = @ + 1] \in [S -> Nat]
<1>1. f[s] + 1 \in Nat
  OBVIOUS
<1>. DEFINE n == f[s] + 1
<1>. HIDE DEF n
<1>2. [f EXCEPT ![s] = n] \in [S -> Nat]
  BY <1>1 DEF n
<1>. QED
  BY <1>2 DEF n

LEMMA NestedType ==
  ASSUME NEW S, NEW T, NEW V, NEW f \in [S -> [T -> V]], NEW s \in S, NEW t \in T, NEW v \in V
  PROVE  [f EXCEPT ![s][t] = v] \in [S -> [T -> V]]
OBVIOUS

\* A step of a run that leaves the tables alone but for one row.
LEMMA RunTables ==
  ASSUME SharedTypes, NEW r \in Rows, NEW q \in Row,
         MaybePatch(r, q), UNCHANGED <<roots, copies, moves>>, Calm \/ Upset
  PROVE  SharedTypes'
<1>1. queue' \in [Rows -> Row]
  BY PatchType DEF MaybePatch
<1>2. upsets' \in Nat
  BY CountsAssumption DEF SharedTypes, Calm, Upset
<1>. QED
  BY <1>1, <1>2 DEF SharedTypes

LEMMA TakeType ==
  ASSUME LocalTypes, NEW w \in Workers, NEW r \in Rows, NEW m \in Memory,
         NEW how \in {"resume", "claim"}, Take(w, r, m, how),
         todo' \in [Workers -> SUBSET Rows], seen' \in [Workers -> SUBSET Rows],
         cand' = cand, runAge' = runAge
  PROVE  LocalTypes'
<1>1. Entry(m) \in Steps
  BY EntryType
<1>2. /\ pc' \in [Workers -> Steps] /\ phase' \in [Workers -> {"resume", "claim"}]
      /\ cur' \in [Workers -> Rows] /\ err' \in [Workers -> ErrorKinds]
      /\ lag' \in [Workers -> Nat]
  BY <1>1 DEF Take, LocalTypes, ErrorKinds
<1>3. mem' \in [Workers -> [Rows -> Memory]]
  BY DEF Take, LocalTypes
<1>. QED
  BY <1>2, <1>3 DEF LocalTypes

LEMMA ReclaimType ==
  ASSUME LocalTypes, SharedTypes, NEW w \in Workers,
         \/ StartRun(w) \/ Crash(w) \/ ListStale(w) \/ ReclaimAborts(w)
         \/ \E r \in Rows : ReclaimRow(w, r)
         \/ \E r \in Rows : ResumeStale(w, r)
         \/ Peek(w) \/ Claim(w)
  PROVE  LocalTypes' /\ SharedTypes'
<1>. Blank \in Memory
  BY CountsAssumption DEF Blank, Memory
<1>. cur[w] \in Rows /\ queue[cur[w]] \in Row /\ lag[w] \in Nat
  BY Reads
<1>1. CASE StartRun(w)
  BY <1>1 DEF StartRun, LocalTypes, SharedTypes, Steps, table, account, Calm
<1>2. CASE Crash(w)
  <2>1. LocalTypes'
    BY <1>2, ExitType DEF Crash
  <2>. QED
    BY <1>2, <2>1 DEF Crash, SharedTypes, table, account, Upset
<1>3. CASE ListStale(w)
  <2>1. \E some \in SUBSET Rows : cand' = [cand EXCEPT ![w] = some]
    BY <1>3 DEF ListStale
  <2>. QED
    BY <1>3, <2>1 DEF ListStale, LocalTypes, SharedTypes, Steps, table, account, Calm
<1>4. CASE ReclaimAborts(w)
  <2>1. \E r \in Rows, q \in Row : MaybePatch(r, q)
    <3>1. CASE UNCHANGED queue
      BY <3>1 DEF MaybePatch
    <3>2. CASE \E r \in cand[w] : Patch(r, [queue[r] EXCEPT !.age = lag[w]])
      <4>1. PICK r \in Rows : Patch(r, [queue[r] EXCEPT !.age = lag[w]])
        BY <3>2, Reads
      <4>2. [queue[r] EXCEPT !.age = lag[w]] \in Row
        BY Reads DEF Row
      <4>. QED
        BY <4>1, <4>2 DEF MaybePatch
    <3>. QED
      BY <1>4, <3>1, <3>2 DEF ReclaimAborts
  <2>2. UNCHANGED <<roots, copies, moves>> /\ Upset
    BY <1>4 DEF ReclaimAborts, account
  <2>3. SharedTypes'
    BY <2>1, <2>2, RunTables
  <2>. QED
    BY <1>4, <2>3 DEF ReclaimAborts, LocalTypes, Steps
<1>5. CASE \E r \in Rows : ReclaimRow(w, r)
  <2>1. PICK r \in Rows : ReclaimRow(w, r)
    BY <1>5
  <2>2. [queue[r] EXCEPT !.age = lag[w]] \in Row /\ Progress(r) \in Memory
    BY Reads DEF Row
  <2>3. SharedTypes'
    BY <2>1, <2>2, RunTables DEF ReclaimRow, MaybePatch, account
  <2>4. UNCHANGED mem \/ mem' = [mem EXCEPT ![w][r] = Progress(r)]
    BY <2>1 DEF ReclaimRow
  <2>5. mem' \in [Workers -> [Rows -> Memory]]
    <3>1. mem \in [Workers -> [Rows -> Memory]]
      BY DEF LocalTypes
    <3>2. [mem EXCEPT ![w][r] = Progress(r)] \in [Workers -> [Rows -> Memory]]
      BY <2>2, <3>1, NestedType
    <3>. QED
      BY <2>4, <3>1, <3>2
  <2>6. UNCHANGED todo \/ todo' = [todo EXCEPT ![w] = @ \cup {r}]
    BY <2>1 DEF ReclaimRow
  <2>7. todo' \in [Workers -> SUBSET Rows] /\ cand' \in [Workers -> SUBSET Rows]
    <3>1. /\ todo[w] \cup {r} \in SUBSET Rows /\ cand[w] \ {r} \in SUBSET Rows
          /\ todo \in [Workers -> SUBSET Rows] /\ cand \in [Workers -> SUBSET Rows]
      BY DEF LocalTypes
    <3>2. cand' = [cand EXCEPT ![w] = @ \ {r}]
      BY <2>1 DEF ReclaimRow
    <3>. QED
      BY <2>6, <3>1, <3>2
  <2>8. UNCHANGED <<pc, phase, cur, seen, err, runAge, lag>>
    BY <2>1 DEF ReclaimRow
  <2>. QED
    BY <2>3, <2>5, <2>7, <2>8 DEF LocalTypes
<1>6. CASE \E r \in Rows : ResumeStale(w, r)
  <2>1. PICK r \in Rows : ResumeStale(w, r)
    BY <1>6
  <2>2. mem[w][r] \in Memory /\ Entry(mem[w][r]) \in Steps
    BY Reads, EntryType
  <2>3. SharedTypes'
    BY <2>1 DEF ResumeStale, SharedTypes, table, account, Calm
  <2>4. /\ todo' \in [Workers -> SUBSET Rows] /\ seen' \in [Workers -> SUBSET Rows]
        /\ cand' = cand /\ runAge' = runAge
    BY <2>1 DEF ResumeStale, LocalTypes
  <2>. QED
    BY <2>1, <2>2, <2>3, <2>4, TakeType DEF ResumeStale
<1>7. CASE Peek(w)
  <2>1. SharedTypes'
    BY <1>7 DEF Peek, SharedTypes, table, account, Calm
  <2>2. CASE Exit(w)
    BY <2>1, <2>2, ExitType
  <2>3. CASE /\ \E r \in Rows : cur' = [cur EXCEPT ![w] = r]
             /\ pc' = [pc EXCEPT ![w] = "claim"]
             /\ lag' = [lag EXCEPT ![w] = 0]
             /\ UNCHANGED <<phase, cand, todo, seen, mem, err, runAge>>
    BY <2>1, <2>3 DEF LocalTypes, Steps
  <2>. QED
    BY <1>7, <2>2, <2>3 DEF Peek
<1>8. CASE Claim(w)
  <2>1. CASE Exit(w) /\ UNCHANGED queue
    BY <1>8, <2>1, ExitType DEF Claim, SharedTypes, account, Calm
  <2>2. CASE /\ Patch(cur[w], [queue[cur[w]] EXCEPT !.status = "posting", !.age = lag[w]])
             /\ Take(w, cur[w], Progress(cur[w]), "claim")
             /\ UNCHANGED <<cand, todo, seen, runAge>>
    <3>1. [queue[cur[w]] EXCEPT !.status = "posting", !.age = lag[w]] \in Row
      BY DEF Row, Statuses
    <3>2. SharedTypes'
      BY <1>8, <2>2, <3>1, RunTables DEF Claim, MaybePatch, account
    <3>3. Progress(cur[w]) \in Memory /\ Entry(Progress(cur[w])) \in Steps
      BY Reads, EntryType
    <3>. QED
      BY <2>2, <3>2, <3>3, TakeType DEF LocalTypes
  <2>. QED
    BY <1>8, <2>1, <2>2 DEF Claim
<1>. QED
  BY <1>1, <1>2, <1>3, <1>4, <1>5, <1>6, <1>7, <1>8

LEMMA NextReply ==
  ASSUME NEW m \in Memory, m.replies < Replies
  PROVE  [m EXCEPT !.replies = @ + 1] \in Memory
BY CountsAssumption DEF Memory

LEMMA PublishType ==
  ASSUME LocalTypes, SharedTypes, NEW w \in Workers,
         \/ ScanFeed(w) \/ ScanFails(w) \/ PublishRoot(w) \/ PublishRootFails(w)
         \/ SaveRoot(w) \/ SaveRootFails(w) \/ Verify(w) \/ VerifyBlind(w) \/ VerifyFails(w)
         \/ Gate(w) \/ GateBlind(w) \/ PublishReply(w) \/ PublishReplyFails(w)
         \/ SaveReply(w) \/ SaveReplyFails(w),
         pc[w] \in {"gate", "reply"} => mem[w][cur[w]].replies < Replies
  PROVE  LocalTypes' /\ SharedTypes'
<1>. DEFINE r == cur[w]
            m == mem[w][r]
<1>. r \in Rows /\ queue[r] \in Row /\ m \in Memory /\ roots[r] \in Nat
  BY Reads
<1>. m.main \in Nat /\ m.replies \in 0..Replies /\ NextSlot(m) \in Steps
  BY EntryType DEF Memory
<1>. RootSaved(w) \in Row /\ RepliesSaved(w) \in Row
  BY WrittenRows
<1>. StoreErrors \subseteq ErrorKinds /\ "final" \in ErrorKinds
  BY DEF StoreErrors, ErrorKinds
<1>. {"saveRoot", "root", "gate", "reply", "saveReply", "finish"} \subseteq Steps
  BY DEF Steps, Publishing
<1>1. CASE ScanFeed(w)
  <2>1. [m EXCEPT !.main = roots[r]] \in Memory
    BY DEF Memory
  <2>2. LocalTypes' /\ moves' = moves /\ upsets' = upsets
    BY <1>1, <2>1, AdvanceType DEF ScanFeed
  <2>. QED
    BY <1>1, <2>2 DEF ScanFeed, SharedTypes, account
<1>2. CASE ScanFails(w)
  <2>1. LocalTypes' /\ moves' = moves
    BY <1>2, RaiseType DEF ScanFails
  <2>. QED
    BY <1>2, <2>1 DEF ScanFails, SharedTypes, account, Upset
<1>3. CASE PublishRoot(w)
  <2>1. [m EXCEPT !.main = roots[r] + 1] \in Memory
    BY DEF Memory
  <2>2. LocalTypes' /\ moves' = moves /\ upsets' = upsets
    BY <1>3, <2>1, AdvanceType DEF PublishRoot
  <2>. QED
    BY <1>3, <2>2 DEF PublishRoot, SharedTypes
<1>4. CASE PublishRootFails(w)
  <2>1. LocalTypes' /\ moves' = moves
    BY <1>4, RaiseType DEF PublishRootFails
  <2>2. UNCHANGED roots \/ roots' = [roots EXCEPT ![r] = @ + 1]
    BY <1>4 DEF PublishRootFails
  <2>3. UNCHANGED <<queue, copies>> /\ upsets' = upsets + 1
    BY <1>4 DEF PublishRootFails, Upset
  <2>4. roots' \in [Rows -> Nat]
    BY <2>2, CounterType DEF SharedTypes
  <2>. QED
    BY <2>1, <2>3, <2>4 DEF SharedTypes
<1>5. CASE SaveRoot(w)
  <2>1. LocalTypes' /\ moves' = moves /\ upsets' = upsets
    BY <1>5, AdvanceType DEF SaveRoot
  <2>. QED
    BY <1>5, <2>1, RunTables DEF SaveRoot, MaybePatch, account, Calm
<1>6. CASE SaveRootFails(w)
  <2>1. LocalTypes' /\ moves' = moves
    BY <1>6, RaiseType DEF SaveRootFails
  <2>. QED
    BY <1>6, <2>1, RunTables DEF SaveRootFails, account
<1>7. CASE Verify(w) \/ SaveReply(w)
  <2>1. LocalTypes' /\ moves' = moves /\ upsets' = upsets
    BY <1>7, AdvanceType DEF Verify, SaveReply
  <2>. QED
    BY <1>7, <2>1, RunTables DEF Verify, SaveReply, MaybePatch, account, Calm
<1>8. CASE VerifyFails(w) \/ SaveReplyFails(w)
  <2>1. LocalTypes' /\ moves' = moves
    BY <1>8, RaiseType DEF VerifyFails, SaveReplyFails
  <2>. QED
    BY <1>8, <2>1, RunTables DEF VerifyFails, SaveReplyFails, account
<1>9. CASE VerifyBlind(w)
  <2>1. [m EXCEPT !.blind = TRUE] \in Memory
    BY DEF Memory
  <2>2. LocalTypes'
    BY <1>9, <2>1 DEF VerifyBlind, LocalTypes
  <2>. QED
    BY <1>9, <2>2 DEF VerifyBlind, SharedTypes, table, account, Upset
<1>10. CASE Gate(w)
  <2>1. CASE Raise(w, "final") /\ Calm
    <3>1. LocalTypes' /\ moves' = moves
      BY <2>1, RaiseType
    <3>. QED
      BY <1>10, <2>1, <3>1 DEF Gate, SharedTypes, account, Calm
  <2>2. CASE Advance(w, m, "reply")
    <3>1. LocalTypes' /\ moves' = moves /\ upsets' = upsets
      BY <2>2, AdvanceType
    <3>. QED
      BY <1>10, <3>1 DEF Gate, SharedTypes, account
  <2>3. CASE Advance(w, [m EXCEPT !.replies = @ + 1], "saveReply")
    <3>1. m.replies < Replies
      BY <1>10 DEF Gate
    <3>2. LocalTypes' /\ moves' = moves /\ upsets' = upsets
      BY <2>3, <3>1, NextReply, AdvanceType
    <3>. QED
      BY <1>10, <3>2 DEF Gate, SharedTypes, account
  <2>. QED
    BY <1>10, <2>1, <2>2, <2>3 DEF Gate
<1>11. CASE GateBlind(w)
  <2>1. [m EXCEPT !.blind = TRUE] \in Memory
    BY DEF Memory
  <2>2. CASE Raise(w, "final")
    <3>1. LocalTypes' /\ moves' = moves
      BY <2>2, RaiseType
    <3>. QED
      BY <1>11, <3>1 DEF GateBlind, SharedTypes, account, Upset
  <2>3. CASE /\ mem' = [mem EXCEPT ![w][r].blind = TRUE]
             /\ pc' = [pc EXCEPT ![w] = "reply"]
             /\ UNCHANGED <<moves, phase, cur, cand, todo, seen, err, runAge, lag>>
    <3>1. LocalTypes'
      BY <2>1, <2>3 DEF LocalTypes
    <3>. QED
      BY <1>11, <2>3, <3>1 DEF GateBlind, SharedTypes, account, Upset
  <2>. QED
    BY <1>11, <2>2, <2>3 DEF GateBlind
<1>12. ASSUME pc[w] = "reply"
       PROVE  /\ [m EXCEPT !.replies = @ + 1] \in Memory
              /\ [copies EXCEPT ![r][m.replies + 1] = @ + 1] \in [Rows -> [1..Replies -> Nat]]
  <2>1. m.replies < Replies
    BY <1>12
  <2>2. copies[r] \in [1..Replies -> Nat] /\ m.replies + 1 \in 1..Replies
    BY <2>1, Reads, CountsAssumption
  <2>3. \A i \in 1..Replies : [copies[r] EXCEPT ![i] = @ + 1] \in [1..Replies -> Nat]
    BY <2>2, CounterType
  <2>4. [copies EXCEPT ![r] = [copies[r] EXCEPT ![m.replies + 1] = @ + 1]]
          \in [Rows -> [1..Replies -> Nat]]
    BY <2>2, <2>3 DEF SharedTypes
  <2>. QED
    BY <2>1, <2>4, NextReply
<1>13. CASE PublishReply(w)
  <2>1. pc[w] = "reply"
    BY <1>13 DEF PublishReply
  <2>2. LocalTypes' /\ moves' = moves /\ upsets' = upsets
    BY <1>12, <1>13, <2>1, AdvanceType DEF PublishReply
  <2>. QED
    BY <1>12, <1>13, <2>1, <2>2 DEF PublishReply, SharedTypes
<1>14. CASE PublishReplyFails(w)
  <2>1. pc[w] = "reply"
    BY <1>14 DEF PublishReplyFails
  <2>2. LocalTypes' /\ moves' = moves
    BY <1>14, RaiseType DEF PublishReplyFails
  <2>3. UNCHANGED copies \/ copies' = [copies EXCEPT ![r][m.replies + 1] = @ + 1]
    BY <1>14 DEF PublishReplyFails
  <2>4. UNCHANGED <<queue, roots>> /\ upsets' = upsets + 1
    BY <1>14 DEF PublishReplyFails, Upset
  <2>5. copies' \in [Rows -> [1..Replies -> Nat]]
    BY <1>12, <2>1, <2>3 DEF SharedTypes
  <2>. QED
    BY <1>12, <2>1, <2>2, <2>3, <2>4, <2>5 DEF SharedTypes
<1>. QED
  BY <1>1, <1>2, <1>3, <1>4, <1>5, <1>6, <1>7, <1>8, <1>9, <1>10, <1>11, <1>13, <1>14

LEMMA SettleType ==
  ASSUME LocalTypes, SharedTypes, NEW w \in Workers,
         \/ Finish(w) \/ FinishFails(w) \/ MarkFailed(w) \/ MarkFailedLost(w)
         \/ Settle(w) \/ SettleUncounted(w) \/ RequeueLost(w)
  PROVE  LocalTypes' /\ SharedTypes'
<1>. DEFINE r == cur[w]
<1>. r \in Rows /\ queue[r] \in Row
  BY Reads
<1>. Posted(w) \in Row /\ Failed(r) \in Row /\ \A a \in Nat \ {0} : Requeued(r, a) \in Row
  BY WrittenRows
<1>. queue[r].attempts + 1 \in Nat \ {0} /\ 0 + 1 \in Nat \ {0}
  BY DEF Row
<1>1. CASE Finish(w)
  <2>1. LocalTypes'
    BY <1>1, AfterRowType DEF Finish
  <2>. QED
    BY <1>1, <2>1, RunTables DEF Finish, MaybePatch, account
<1>2. CASE FinishFails(w)
  <2>1. StoreErrors \subseteq ErrorKinds
    BY DEF StoreErrors, ErrorKinds
  <2>2. LocalTypes' /\ moves' = moves
    BY <1>2, <2>1, RaiseType DEF FinishFails
  <2>. QED
    BY <1>2, <2>2, RunTables DEF FinishFails, account
<1>3. CASE MarkFailed(w) \/ MarkFailedLost(w)
  <2>1. AfterFailure(w) /\ MaybePatch(r, Failed(r)) /\ UNCHANGED <<moves, account>>
        /\ (Calm \/ Upset)
    BY <1>3 DEF MarkFailed, MarkFailedLost, MaybePatch
  <2>2. LocalTypes'
    <3>1. CASE AfterRow(w)
      BY <3>1, AfterRowType
    <3>2. CASE /\ pc' = [pc EXCEPT ![w] = "settle"]
               /\ UNCHANGED <<phase, cur, cand, todo, seen, mem, err, runAge, lag>>
      BY <3>2 DEF LocalTypes, Steps, Settling
    <3>. QED
      BY <2>1, <3>1, <3>2 DEF AfterFailure
  <2>. QED
    BY <2>1, <2>2, RunTables DEF account
<1>4. CASE Settle(w) \/ SettleUncounted(w)
  <2>1. PICK prior \in {0, queue[r].attempts} : Decide(w, prior)
    BY <1>4 DEF Settle, SettleUncounted
  <2>2. UNCHANGED <<moves, account>> /\ (Calm \/ Upset)
    BY <1>4 DEF Settle, SettleUncounted
  <2>3. PICK q \in Row : MaybePatch(r, q)
    BY <2>1 DEF Decide, MaybePatch
  <2>4. AfterRow(w) \/ Exit(w)
    BY <2>1 DEF Decide
  <2>. QED
    BY <2>2, <2>3, <2>4, AfterRowType, ExitType, RunTables DEF account
<1>5. CASE RequeueLost(w)
  <2>1. PICK q \in Row : MaybePatch(r, q)
    BY <1>5 DEF RequeueLost, MaybePatch
  <2>. QED
    BY <1>5, <2>1, AfterRowType, RunTables DEF RequeueLost, account
<1>. QED
  BY <1>1, <1>2, <1>3, <1>4, <1>5

LEMMA TickType == LocalTypes /\ SharedTypes /\ Tick => LocalTypes' /\ SharedTypes'
<1> SUFFICES ASSUME LocalTypes, SharedTypes, Tick PROVE LocalTypes' /\ SharedTypes'
  OBVIOUS
<1>1. MaxAge \in Nat
  BY LeaseAssumption DEF MaxAge
<1>2. \A n \in Nat : Countdown(n) \in Nat /\ Older(n, MaxAge) \in Nat
  BY <1>1 DEF Countdown, Older
<1>3. \A r \in Rows : queue'[r] \in Row
  <2> SUFFICES ASSUME NEW r \in Rows PROVE queue'[r] \in Row
    OBVIOUS
  <2>1. queue[r] \in Row
    BY Reads
  <2>. QED
    BY <1>2, <2>1 DEF Tick, Row
<1>4. queue' \in [Rows -> Row]
  BY <1>3 DEF Tick
<1>5. SharedTypes'
  BY <1>4 DEF Tick, SharedTypes, account, Calm
<1>6. runAge' \in [Workers -> Nat]
  <2>1. \A w \in Workers : (IF pc[w] = "off" THEN 0 ELSE runAge[w] + 1) \in Nat
    BY DEF LocalTypes
  <2>. QED
    BY <2>1 DEF Tick
<1>7. lag' \in [Workers -> Nat]
  <2>1. \A w \in Workers : (IF pc[w] \in {"reclaim", "claim"} THEN lag[w] + 1 ELSE 0) \in Nat
    BY DEF LocalTypes
  <2>. QED
    BY <2>1 DEF Tick
<1>8. UNCHANGED <<pc, phase, cur, cand, todo, seen, mem, err>>
  BY DEF Tick
<1>. QED
  BY <1>5, <1>6, <1>7, <1>8 DEF LocalTypes

-----------------------------------------------------------------------------
(***************************************************************************)
(* Frames: what a step of one run leaves true of the other rows and runs.  *)
(***************************************************************************)

SameRow(r) ==
  /\ queue'[r].status = queue[r].status /\ queue'[r].main = queue[r].main
  /\ queue'[r].replies = queue[r].replies /\ queue'[r].attempts = queue[r].attempts
  /\ queue'[r].age = queue[r].age
  /\ roots'[r] = roots[r] /\ copies'[r] = copies[r]

SameRun(v) ==
  /\ pc'[v] = pc[v] /\ phase'[v] = phase[v] /\ cur'[v] = cur[v] /\ todo'[v] = todo[v]
  /\ mem'[v] = mem[v] /\ runAge'[v] = runAge[v] /\ lag'[v] = lag[v]

Others(w) == \A v \in Workers : v # w => SameRun(v)

LEMMA FrameRow ==
  ASSUME NEW r \in Rows, RowInv(r), SameRow(r)
  PROVE  RowInv(r)'
BY DEF RowInv, SameRow

LEMMA BusyRows ==
  ASSUME LocalTypes, NEW v \in Workers
  PROVE  Busy(v) \subseteq Rows
BY DEF LocalTypes, Busy

LEMMA FrameRun ==
  ASSUME NEW v \in Workers, RunInv(v), SameRun(v), \A r \in Busy(v) : SameRow(r)
  PROVE  RunInv(v)' /\ Busy(v)' = Busy(v)
<1>1. Busy(v)' = Busy(v)
  BY DEF Busy, SameRun
<1>2. /\ lag'[v] <= runAge'[v] /\ runAge'[v] <= RunLimit
      /\ pc'[v] \in {"off", "list", "peek", "claim"} => todo'[v] = {}
      /\ pc'[v] \in Publishing \cup Settling =>
           cur'[v] \notin todo'[v] /\ (phase'[v] = "claim" => todo'[v] = {})
  BY DEF RunInv, SameRun
<1>3. \A r \in todo'[v] : queue'[r].status = "posting" /\ mem'[v][r] = Progress(r)'
  <2> SUFFICES ASSUME NEW r \in todo[v]
               PROVE  queue'[r].status = "posting" /\ mem'[v][r] = Progress(r)'
    BY DEF SameRun
  <2>1. SameRow(r) /\ queue[r].status = "posting" /\ mem[v][r] = Progress(r)
    BY DEF Busy, RunInv
  <2>. QED
    BY <2>1 DEF SameRow, SameRun, Progress
<1>4. \A r \in Busy(v) : queue'[r].age <= runAge'[v]
  BY DEF RunInv, SameRow, SameRun
<1>5. pc'[v] \in Settling => queue'[cur'[v]].status \in {"posting", "posted", "failed"}
  BY DEF RunInv, SameRow, SameRun, Busy
<1>6. pc'[v] \in Publishing => PublishInv(v)'
  <2> SUFFICES ASSUME pc[v] \in Publishing PROVE PublishInv(v)'
    BY DEF SameRun
  <2>1. SameRow(cur[v]) /\ PublishInv(v)
    BY DEF Busy, RunInv
  <2>. QED
    BY <2>1 DEF SameRow, SameRun, PublishInv, RootStage, ReplyStage
<1>. QED
  BY <1>1, <1>2, <1>3, <1>4, <1>5, <1>6 DEF RunInv

\* A step of run w keeps the invariant when it keeps the rows' and its own part
\* and stays off the other runs' rows.
LEMMA StepKeeps ==
  ASSUME IInv, TypeOK', NEW w \in Workers, Others(w),
         \A v \in Workers : v # w => /\ \A s \in Busy(v) : SameRow(s)
                                     /\ Busy(v) \cap Busy(w)' = {},
         \A s \in Rows : RowInv(s)',
         RunInv(w)'
  PROVE  IInv'
<1>1. \A v \in Workers : v # w => RunInv(v)' /\ Busy(v)' = Busy(v)
  BY FrameRun DEF IInv, Others
<1>2. OnePublisher'
  <2> SUFFICES ASSUME NEW u \in Workers, NEW v \in Workers, u # v
               PROVE  Busy(u)' \cap Busy(v)' = {}
    BY DEF OnePublisher
  <2>1. Busy(u) \cap Busy(v) = {}
    BY DEF IInv, OnePublisher
  <2>. QED
    BY <1>1, <2>1
<1>. QED
  BY <1>1, <1>2 DEF IInv

LEMMA QuietStep ==
  ASSUME IInv, TypeOK', NEW w \in Workers, Others(w),
         \A s \in Rows : SameRow(s), Busy(w)' \subseteq Busy(w), RunInv(w)'
  PROVE  IInv'
<1>1. \A s \in Rows : RowInv(s)'
  BY FrameRow DEF IInv
<1>2. \A v \in Workers : v # w => /\ \A s \in Busy(v) : SameRow(s)
                                  /\ Busy(v) \cap Busy(w)' = {}
  BY BusyRows, TypesSplit DEF IInv, OnePublisher
<1>. QED
  BY <1>1, <1>2, StepKeeps

LEMMA OwnRowStep ==
  ASSUME IInv, TypeOK', NEW w \in Workers, Others(w), NEW r \in Busy(w),
         \A s \in Rows \ {r} : SameRow(s), Busy(w)' \subseteq Busy(w),
         RowInv(r)', RunInv(w)'
  PROVE  IInv'
<1>1. \A s \in Rows : RowInv(s)'
  BY FrameRow DEF IInv
<1>2. \A v \in Workers : v # w => /\ \A s \in Busy(v) : SameRow(s)
                                  /\ Busy(v) \cap Busy(w)' = {}
  BY BusyRows, TypesSplit DEF IInv, OnePublisher
<1>. QED
  BY <1>1, <1>2, StepKeeps

\* A row that a run has just got, which no other run is busy with.
LEMMA NewRowStep ==
  ASSUME IInv, TypeOK', NEW w \in Workers, Others(w), NEW r \in Rows,
         \A v \in Workers : r \notin Busy(v),
         \A s \in Rows \ {r} : SameRow(s), Busy(w)' \subseteq Busy(w) \cup {r},
         RowInv(r)', RunInv(w)'
  PROVE  IInv'
<1>1. \A s \in Rows : RowInv(s)'
  BY FrameRow DEF IInv
<1>2. \A v \in Workers : v # w => /\ \A s \in Busy(v) : SameRow(s)
                                  /\ Busy(v) \cap Busy(w)' = {}
  BY BusyRows, TypesSplit DEF IInv, OnePublisher
<1>. QED
  BY <1>1, <1>2, StepKeeps

\* Nobody's row is stale: its run is younger than the lease.
LEMMA BusyNotStale ==
  ASSUME IInv, NEW v \in Workers, NEW r \in Busy(v), NEW n \in Nat
  PROVE  ~Stale(r, n)
<1>1. r \in Rows /\ queue[r].age \in Nat /\ runAge[v] \in Nat
  BY BusyRows, TypesSplit, Reads DEF IInv, Row
<1>2. queue[r].age <= runAge[v] /\ runAge[v] <= RunLimit
  BY DEF IInv, RunInv
<1>. QED
  BY <1>1, <1>2, LeaseAssumption DEF Stale

\* Nor is it approved.
LEMMA BusyNotApproved ==
  ASSUME IInv, NEW v \in Workers, NEW r \in Busy(v)
  PROVE  queue[r].status \in {"posting", "posted", "failed"}
<1>1. CASE r \in todo[v]
  BY <1>1 DEF IInv, RunInv
<1>2. CASE pc[v] \in Publishing /\ r = cur[v]
  BY <1>2 DEF IInv, RunInv, PublishInv
<1>3. CASE pc[v] \in Settling /\ r = cur[v]
  BY <1>3 DEF IInv, RunInv
<1>. QED
  BY <1>1, <1>2, <1>3 DEF Busy

-----------------------------------------------------------------------------
(***************************************************************************)
(* Control: what a run's invariant becomes when it exits, leaves a row,    *)
(* raises, goes on, or takes a row over.                                   *)
(***************************************************************************)

LEMMA ExitInv ==
  ASSUME LocalTypes, NEW w \in Workers, Exit(w)
  PROVE  RunInv(w)' /\ Busy(w)' = {} /\ Others(w)
<1>1. pc'[w] = "off" /\ todo'[w] = {} /\ runAge'[w] = 0 /\ lag'[w] = 0
  BY DEF LocalTypes, Exit
<1>2. Busy(w)' = {}
  BY <1>1 DEF Busy, Publishing, Settling
<1>3. Others(w)
  BY DEF LocalTypes, Exit, Others, SameRun
<1>4. RunInv(w)'
  BY <1>1, <1>2, LeaseAssumption DEF RunInv, Publishing, Settling
<1>. QED
  BY <1>2, <1>3, <1>4

\* The rows that a run keeps while it leaves its current one.
LEMMA KeptRows ==
  ASSUME LocalTypes, NEW w \in Workers, RunInv(w), todo'[w] = todo[w], runAge'[w] = runAge[w],
         \A r \in todo[w] : SameRow(r) /\ mem'[w][r] = mem[w][r]
  PROVE  \A r \in todo'[w] : /\ queue'[r].status = "posting" /\ mem'[w][r] = Progress(r)'
                             /\ queue'[r].age <= runAge'[w]
BY SMTT(30) DEF RunInv, SameRow, Progress, Busy

LEMMA AfterRowInv ==
  ASSUME LocalTypes, NEW w \in Workers, RunInv(w), pc[w] \in Publishing \cup Settling,
         AfterRow(w), \A s \in Rows \ {cur[w]} : SameRow(s)
  PROVE  RunInv(w)' /\ Busy(w)' \subseteq Busy(w) /\ Others(w)
<1>1. CASE phase[w] = "claim" /\ cur[w] \in seen[w]
  BY <1>1, ExitInv DEF AfterRow
<1>2. CASE ~(phase[w] = "claim" /\ cur[w] \in seen[w])
  <2>1. /\ pc' = [pc EXCEPT ![w] = IF phase[w] = "resume" THEN "reclaim" ELSE "peek"]
        /\ mem' = [mem EXCEPT ![w][cur[w]] = Blank]
        /\ UNCHANGED <<phase, cur, cand, todo, runAge, lag>>
    BY <1>2, Zenon DEF AfterRow
  <2>2. Others(w)
    BY <2>1 DEF LocalTypes, Others, SameRun
  <2>3. pc'[w] = (IF phase[w] = "resume" THEN "reclaim" ELSE "peek")
    BY <2>1 DEF LocalTypes
  <2>4. Busy(w)' = todo[w] /\ todo[w] \subseteq Busy(w) /\ cur[w] \notin todo[w]
    BY <2>1, <2>3 DEF Busy, RunInv, Publishing, Settling
  <2>5. \A r \in todo[w] : SameRow(r) /\ mem'[w][r] = mem[w][r]
    BY <2>1, <2>4 DEF LocalTypes
  <2>6. \A r \in todo'[w] : /\ queue'[r].status = "posting" /\ mem'[w][r] = Progress(r)'
                            /\ queue'[r].age <= runAge'[w]
    BY <2>1, <2>5, KeptRows
  <2>7. pc'[w] = "peek" => todo'[w] = {}
    BY <2>1, <2>3 DEF RunInv, LocalTypes
  <2>8. RunInv(w)'
    BY <2>1, <2>3, <2>4, <2>6, <2>7 DEF RunInv, Publishing, Settling
  <2>. QED
    BY <2>1, <2>2, <2>4, <2>8
<1>. QED
  BY <1>1, <1>2

LEMMA RaiseInv ==
  ASSUME LocalTypes, NEW w \in Workers, RunInv(w), pc[w] \in Publishing \cup Settling,
         NEW k, Raise(w, k), \A s \in Rows \ {cur[w]} : SameRow(s),
         queue'[cur[w]].status \in {"posting", "posted", "failed"},
         queue'[cur[w]].age <= runAge[w]
  PROVE  RunInv(w)' /\ Busy(w)' = Busy(w) /\ Others(w)
<1>1. pc'[w] = "markFailed" /\ UNCHANGED <<phase, cur, todo, mem, runAge, lag>>
  BY DEF LocalTypes, Raise
<1>2. Busy(w)' = Busy(w)
  BY <1>1 DEF Busy, Settling
<1>3. Others(w)
  BY DEF LocalTypes, Raise, Others, SameRun
<1>4. \A r \in todo[w] : SameRow(r)
  BY DEF LocalTypes, RunInv
<1>5. \A r \in todo'[w] : /\ queue'[r].status = "posting" /\ mem'[w][r] = Progress(r)'
                          /\ queue'[r].age <= runAge'[w]
  BY <1>1, <1>4, KeptRows
<1>6. RunInv(w)'
  BY <1>1, <1>5 DEF RunInv, Busy, Publishing, Settling
<1>. QED
  BY <1>2, <1>3, <1>6

\* Staying on the row: pc and the memory of the row change, nothing else local.
LEMMA StayInv ==
  ASSUME LocalTypes, NEW w \in Workers, RunInv(w), pc[w] \in Publishing \cup Settling,
         NEW m \in Memory, NEW next \in Publishing,
         mem' = [mem EXCEPT ![w][cur[w]] = m], pc' = [pc EXCEPT ![w] = next],
         UNCHANGED <<phase, cur, todo, runAge, lag>>,
         \A s \in Rows \ {cur[w]} : SameRow(s),
         queue'[cur[w]].age <= runAge[w], PublishInv(w)'
  PROVE  RunInv(w)' /\ Busy(w)' = Busy(w) /\ Others(w)
<1>1. pc'[w] = next
  BY DEF LocalTypes
<1>2. Busy(w)' = Busy(w)
  BY <1>1 DEF Busy
<1>3. Others(w)
  BY DEF LocalTypes, Others, SameRun
<1>4. \A r \in todo[w] : SameRow(r) /\ mem'[w][r] = mem[w][r]
  BY DEF LocalTypes, RunInv
<1>5. \A r \in todo'[w] : /\ queue'[r].status = "posting" /\ mem'[w][r] = Progress(r)'
                          /\ queue'[r].age <= runAge'[w]
  BY <1>4, KeptRows
<1>6. RunInv(w)'
  BY <1>1, <1>5 DEF RunInv, Busy, Publishing, Settling
<1>. QED
  BY <1>2, <1>3, <1>6

LEMMA AdvanceInv ==
  ASSUME LocalTypes, NEW w \in Workers, RunInv(w), pc[w] \in Publishing \cup Settling,
         NEW m \in Memory, NEW next \in Publishing, Advance(w, m, next),
         \A s \in Rows \ {cur[w]} : SameRow(s),
         queue'[cur[w]].age <= runAge[w],
         pc'[w] = next /\ mem'[w][cur[w]] = m /\ cur'[w] = cur[w] => PublishInv(w)'
  PROVE  RunInv(w)' /\ Busy(w)' = Busy(w) /\ Others(w)
<1>1. pc'[w] = next /\ mem'[w][cur[w]] = m /\ cur'[w] = cur[w]
  BY DEF LocalTypes, Advance
<1>2. /\ mem' = [mem EXCEPT ![w][cur[w]] = m] /\ pc' = [pc EXCEPT ![w] = next]
      /\ UNCHANGED <<phase, cur, todo, runAge, lag>>
  BY DEF Advance
<1>. QED
  BY <1>1, <1>2, StayInv

\* Where publish_next goes with the progress of a row that keeps the rows' part.
LEMMA EntryInv ==
  ASSUME LocalTypes', SharedTypes', NEW w \in Workers, pc'[w] = Entry(Progress(cur[w])'),
         mem'[w][cur'[w]] = Progress(cur[w])', queue'[cur'[w]].status = "posting",
         RowInv(cur[w])'
  PROVE  /\ pc'[w] \in Publishing \cup Settling
         /\ pc'[w] \in Publishing => PublishInv(w)'
<1>. DEFINE q == queue'[cur'[w]]
            m == mem'[w][cur'[w]]
<1>1. q.main \in Nat /\ q.replies \in 0..Replies /\ q.attempts \in Nat /\ roots'[cur'[w]] \in Nat
  BY DEF LocalTypes, SharedTypes, Row
<1>2. m.main = q.main /\ m.replies = q.replies /\ m.attempts = q.attempts
  BY DEF Progress
<1>3. q.replies > 0 => q.main > 0
  BY DEF RowInv
<1>4. pc'[w] = Entry(m)
  OBVIOUS
<1>5. CASE m.main = 0 /\ m.replies > 0
  BY <1>2, <1>3, <1>5
<1>6. CASE m.main = 0 /\ m.replies = 0
  <2>1. pc'[w] \in {"scan", "root"} /\ (pc'[w] = "root" => m.attempts = 0)
    BY <1>1, <1>2, <1>4, <1>6 DEF Entry
  <2>. QED
    BY <1>2, <1>6, <2>1 DEF PublishInv, RootStage, Publishing
<1>7. CASE m.main # 0
  <2>1. /\ pc'[w] \in {"verify", "gate", "finish"}
        /\ pc'[w] = "gate" => m.replies = 0 /\ Replies > 0
        /\ pc'[w] = "finish" => m.replies = 0 /\ Replies = 0
    BY <1>1, <1>2, <1>4, <1>7, CountsAssumption DEF Entry
  <2>. QED
    BY <1>1, <1>2, <1>7, <2>1, CountsAssumption DEF PublishInv, ReplyStage, Publishing
<1>. QED
  BY <1>1, <1>2, <1>5, <1>6, <1>7

-----------------------------------------------------------------------------
(***************************************************************************)
(* IInv is inductive.                                                      *)
(***************************************************************************)

LEMMA InitInv == Init => IInv
<1> SUFFICES ASSUME Init PROVE IInv
  OBVIOUS
<1>1. TypeOK
  BY InitType
<1>2. \A w \in Workers : Busy(w) = {}
  BY DEF Init, Busy, Publishing, Settling
<1>3. OnePublisher
  BY <1>2 DEF OnePublisher
<1>4. \A r \in Rows : RowInv(r)
  BY CountsAssumption DEF Init, NoRow, RowInv
<1>5. \A w \in Workers : RunInv(w)
  BY <1>2, LeaseAssumption DEF Init, RunInv, Publishing, Settling
<1>. QED
  BY <1>1, <1>3, <1>4, <1>5 DEF IInv

\* A step of which the runs know nothing.
LEMMA RowsStep ==
  ASSUME IInv, TypeOK', UNCHANGED runs,
         \A v \in Workers : \A s \in Busy(v) : SameRow(s),
         \A s \in Rows : RowInv(s)'
  PROVE  IInv'
<1>1. \A v \in Workers : SameRun(v)
  BY DEF runs, SameRun
<1>2. \A v \in Workers : RunInv(v)' /\ Busy(v)' = Busy(v)
  BY <1>1, FrameRun DEF IInv
<1>3. OnePublisher'
  BY <1>2 DEF OnePublisher, IInv
<1>. QED
  BY <1>2, <1>3 DEF IInv

LEMMA WriterInv ==
  ASSUME IInv, NEW r \in Rows, WriterStep(r)
  PROVE  IInv'
<1>1. LocalTypes /\ SharedTypes
  BY TypesSplit DEF IInv
<1>2. LocalTypes' /\ SharedTypes'
  BY <1>1, WriterType
<1>3. TypeOK'
  BY <1>2, TypesSplit
<1>4. queue[r] \in Row /\ \A s \in Rows : RowInv(s)
  BY <1>1, Reads DEF IInv
<1>5. UNCHANGED <<runs, roots, copies>>
  BY DEF WriterStep, EnqueueDraft, EnqueueApproved, PromoteDraft, RescheduleRead,
         RescheduleWrite, ManualRequeue, account
<1>6. ASSUME NEW s \in Rows, s # r
      PROVE  SameRow(s)
  BY <1>1, <1>5, <1>6 DEF SameRow, WriterStep, EnqueueDraft, EnqueueApproved, PromoteDraft,
         RescheduleRead, RescheduleWrite, ManualRequeue, Patch, SharedTypes
<1>7. CASE \/ \E d \in MoveTo : RescheduleRead(r, d)
           \/ \E d \in MoveTo : RescheduleWrite(r, d)
  <2>1. SameRow(r)
    <3>1. CASE \E d \in MoveTo : RescheduleRead(r, d)
      BY <1>5, <3>1 DEF RescheduleRead, SameRow
    <3>2. CASE \E d \in MoveTo : RescheduleWrite(r, d)
      <4>1. PICK d \in MoveTo : queue'[r] = [queue[r] EXCEPT !.wait = d]
        BY <1>1, <3>2 DEF RescheduleWrite, Patch, SharedTypes
      <4>. QED
        BY <1>4, <1>5, <4>1 DEF SameRow, Row
    <3>. QED
      BY <1>7, <3>1, <3>2
  <2>. QED
    BY <1>1, <1>3, <1>4, <1>5, <1>6, <2>1, FrameRow, BusyRows, RowsStep
<1>8. CASE \/ \E d \in Delays : EnqueueDraft(r, d) \/ EnqueueApproved(r, d) \/ PromoteDraft(r, d)
           \/ ManualRequeue(r)
  <2>1. \A v \in Workers : r \notin Busy(v)
    BY <1>8, BusyNotApproved DEF EnqueueDraft, EnqueueApproved, PromoteDraft, ManualRequeue
  <2>2. /\ queue'[r].status \in {"draft", "approved"} /\ queue'[r].main = queue[r].main
        /\ queue'[r].replies = queue[r].replies /\ queue'[r].attempts = queue[r].attempts
    <3>1. CASE ManualRequeue(r)
      <4>1. queue'[r] = [queue[r] EXCEPT !.status = "approved"]
        BY <1>1, <3>1 DEF ManualRequeue, Patch, SharedTypes
      <4>. QED
        BY <1>4, <4>1 DEF Row
    <3>2. CASE \E d \in Delays : EnqueueDraft(r, d) \/ EnqueueApproved(r, d) \/ PromoteDraft(r, d)
      <4>1. PICK s \in {"draft", "approved"}, d \in Delays :
              queue'[r] = [queue[r] EXCEPT !.status = s, !.wait = d]
        BY <1>1, <3>2 DEF EnqueueDraft, EnqueueApproved, PromoteDraft, Patch, SharedTypes
      <4>. QED
        BY <1>4, <4>1 DEF Row
    <3>. QED
      BY <1>8, <3>1, <3>2
  <2>3. RowInv(r)'
    BY <1>4, <1>5, <2>2 DEF RowInv
  <2>. QED
    BY <1>1, <1>3, <1>4, <1>5, <1>6, <2>1, <2>3, FrameRow, BusyRows, RowsStep
<1>. QED
  BY <1>7, <1>8 DEF WriterStep

LEMMA TickInv ==
  ASSUME IInv, Tick
  PROVE  IInv'
<1>1. LocalTypes /\ SharedTypes
  BY TypesSplit DEF IInv
<1>2. TypeOK'
  BY <1>1, TickType, TypesSplit
<1>3. \A v \in Workers : Busy(v)' = Busy(v)
  BY DEF Tick, Busy
<1>4. OnePublisher'
  BY <1>3 DEF OnePublisher, IInv
<1>5. UNCHANGED <<roots, copies, pc, phase, cur, cand, todo, seen, mem, err>>
  BY DEF Tick, account
<1>6. ASSUME NEW r \in Rows
      PROVE  /\ queue'[r].status = queue[r].status /\ queue'[r].main = queue[r].main
             /\ queue'[r].replies = queue[r].replies /\ queue'[r].attempts = queue[r].attempts
             /\ queue'[r].age <= queue[r].age + 1
  <2>1. queue[r] \in Row /\ MaxAge \in Nat
    BY <1>1, Reads, LeaseAssumption DEF MaxAge
  <2>2. Older(queue[r].age, MaxAge) <= queue[r].age + 1
    BY <2>1 DEF Older, Row
  <2>. QED
    <3>1. queue'[r] = [queue[r] EXCEPT !.backoff = Countdown(@), !.wait = Countdown(@),
                         !.age = IF queue[r].status = "posting" THEN Older(@, MaxAge) ELSE @]
      BY DEF Tick
    <3>. QED
      BY <2>1, <2>2, <3>1 DEF Row
<1>7. \A r \in Rows : RowInv(r)'
  BY <1>5, <1>6 DEF IInv, RowInv
<1>8. ASSUME NEW w \in Workers
      PROVE  RunInv(w)'
  <2>1. RunInv(w) /\ runAge[w] \in Nat /\ lag[w] \in Nat /\ RunLimit \in Nat
    BY <1>1, Reads, LeaseAssumption DEF IInv
  <2>2. /\ runAge'[w] = (IF pc[w] = "off" THEN 0 ELSE runAge[w] + 1)
        /\ lag'[w] = (IF pc[w] \in {"reclaim", "claim"} THEN lag[w] + 1 ELSE 0)
        /\ pc[w] # "off" => runAge[w] < RunLimit
    BY DEF Tick
  <2>3. lag'[w] <= runAge'[w] /\ runAge'[w] <= RunLimit
    BY <2>1, <2>2 DEF RunInv
  <2>4. \A r \in todo'[w] : queue'[r].status = "posting" /\ mem'[w][r] = Progress(r)'
    BY <1>1, <1>5, <1>6, <2>1, Reads DEF RunInv, Progress
  <2>5. \A r \in Busy(w)' : queue'[r].age <= runAge'[w]
    <3> SUFFICES ASSUME NEW r \in Busy(w) PROVE queue'[r].age <= runAge'[w]
      BY <1>3
    <3>1. r \in Rows /\ queue[r].age \in Nat /\ queue[r].age <= runAge[w]
      BY <1>1, <2>1, BusyRows, Reads DEF RunInv, Row
    <3>2. pc[w] # "off"
      BY <2>1 DEF RunInv, Busy, Publishing, Settling
    <3>3. queue'[r].age <= queue[r].age + 1 /\ queue'[r].age \in Nat
      BY <1>2, <1>6, <3>1, TypesSplit DEF SharedTypes, Row
    <3>. QED
      BY <2>1, <2>2, <3>1, <3>2, <3>3
  <2>6. pc'[w] \in Settling => queue'[cur'[w]].status \in {"posting", "posted", "failed"}
    BY <1>1, <1>5, <1>6, <2>1, Reads DEF RunInv
  <2>7. pc'[w] \in Publishing => PublishInv(w)'
    <3> SUFFICES ASSUME pc[w] \in Publishing PROVE PublishInv(w)'
      BY <1>5
    <3>1. PublishInv(w) /\ cur[w] \in Rows
      BY <1>1, <2>1, Reads DEF RunInv
    <3>. QED
      BY <1>5, <1>6, <3>1 DEF PublishInv, RootStage, ReplyStage
  <2>. QED
    BY <1>5, <2>1, <2>3, <2>4, <2>5, <2>6, <2>7 DEF RunInv
<1>. QED
  BY <1>2, <1>4, <1>7, <1>8 DEF IInv

LEMMA StartExitInv ==
  ASSUME IInv, NEW w \in Workers, StartRun(w) \/ Crash(w) \/ ListStale(w) \/ Peek(w)
  PROVE  IInv'
<1>1. LocalTypes /\ SharedTypes /\ RunInv(w)
  BY TypesSplit DEF IInv
<1>2. TypeOK'
  BY <1>1, ReclaimType, TypesSplit
<1>3. UNCHANGED <<queue, roots, copies>>
  BY DEF StartRun, Crash, ListStale, Peek, table, account
<1>4. \A s \in Rows : SameRow(s)
  BY <1>3 DEF SameRow
<1>5. CASE Exit(w)
  BY <1>1, <1>2, <1>4, <1>5, ExitInv, QuietStep
<1>6. CASE StartRun(w) \/ ListStale(w) \/ (Peek(w) /\ ~Exit(w))
  <2>1. /\ UNCHANGED <<phase, todo, mem, runAge>> /\ Others(w)
        /\ lag'[w] \in {lag[w], 0}
        /\ \/ pc[w] = "off" /\ pc'[w] = "list"
           \/ pc[w] = "list" /\ pc'[w] = "reclaim"
           \/ (pc[w] = "peek" \/ todo[w] = {}) /\ pc'[w] = "claim" /\ pc[w] \in {"peek", "reclaim"}
    <3>1. CASE StartRun(w)
      BY <1>1, <3>1 DEF StartRun, LocalTypes, Others, SameRun
    <3>2. CASE ListStale(w)
      BY <1>1, <3>2 DEF ListStale, LocalTypes, Others, SameRun
    <3>3. CASE Peek(w) /\ ~Exit(w)
      <4>1. /\ \E r \in Rows : cur' = [cur EXCEPT ![w] = r]
            /\ pc' = [pc EXCEPT ![w] = "claim"]
            /\ lag' = [lag EXCEPT ![w] = 0]
            /\ UNCHANGED <<phase, cand, todo, seen, mem, err, runAge>>
            /\ (pc[w] = "peek" \/ todo[w] = {}) /\ pc[w] \in {"peek", "reclaim"}
        BY <3>3 DEF Peek
      <4>. QED
        BY <1>1, <4>1 DEF LocalTypes, Others, SameRun
    <3>. QED
      BY <1>6, <3>1, <3>2, <3>3
  <2>2. todo[w] = {} \/ pc'[w] = "reclaim"
    BY <1>1, <2>1 DEF RunInv
  <2>3. todo[w] = {}
    BY <1>1, <2>1 DEF RunInv
  <2>4. Busy(w)' = {}
    BY <2>1, <2>3 DEF Busy, Publishing, Settling
  <2>5. lag'[w] <= runAge'[w] /\ runAge'[w] <= RunLimit
    <3>1. lag[w] \in Nat /\ runAge[w] \in Nat
      BY <1>1, Reads
    <3>. QED
      BY <1>1, <2>1, <3>1 DEF RunInv
  <2>6. RunInv(w)'
    BY <2>1, <2>3, <2>4, <2>5 DEF RunInv, Publishing, Settling
  <2>. QED
    BY <1>2, <1>4, <2>1, <2>4, <2>6, QuietStep
<1>. QED
  BY <1>5, <1>6 DEF Crash

LEMMA ReclaimRowInv ==
  ASSUME IInv, NEW w \in Workers, NEW r \in Rows, ReclaimRow(w, r)
  PROVE  IInv'
<1>1. LocalTypes /\ SharedTypes /\ RunInv(w) /\ RowInv(r)
  BY TypesSplit DEF IInv
<1>2. TypeOK'
  BY <1>1, ReclaimType, TypesSplit
<1>3. queue[r] \in Row /\ lag[w] \in Nat /\ runAge[w] \in Nat
  BY <1>1, Reads
<1>4. pc[w] = "reclaim" /\ UNCHANGED <<pc, phase, cur, runAge, lag, roots, copies>>
  BY DEF ReclaimRow, account
<1>5. Busy(w) = todo[w] /\ Busy(w)' = todo'[w]
  BY <1>4 DEF Busy, Publishing, Settling
<1>6. CASE ~Stale(r, lag[w])
  <2>1. UNCHANGED <<queue, todo, mem>>
    BY <1>6 DEF ReclaimRow
  <2>2. \A s \in Rows : SameRow(s)
    BY <1>4, <2>1 DEF SameRow
  <2>3. SameRun(w) /\ Others(w)
    BY <1>4, <2>1 DEF SameRun, Others
  <2>4. RunInv(w)' /\ Busy(w)' = Busy(w)
    BY <1>1, <2>2, <2>3, BusyRows, FrameRun
  <2>. QED
    BY <1>2, <2>2, <2>3, <2>4, QuietStep
<1>7. CASE Stale(r, lag[w])
  <2>1. /\ queue' = [queue EXCEPT ![r] = [queue[r] EXCEPT !.age = lag[w]]]
        /\ todo' = [todo EXCEPT ![w] = @ \cup {r}]
        /\ mem' = [mem EXCEPT ![w][r] = Progress(r)]
    BY <1>7 DEF ReclaimRow, Patch
  <2>2. /\ queue'[r].status = "posting" /\ queue'[r].age = lag[w]
        /\ queue'[r].main = queue[r].main /\ queue'[r].replies = queue[r].replies
        /\ queue'[r].attempts = queue[r].attempts
    BY <1>1, <1>3, <1>7, <2>1 DEF Stale, Row, SharedTypes
  <2>3. \A s \in Rows \ {r} : SameRow(s)
    BY <1>1, <1>4, <2>1 DEF SameRow, SharedTypes
  <2>4. Others(w)
    BY <1>1, <1>4, <2>1 DEF Others, SameRun, LocalTypes
  <2>5. \A v \in Workers : r \notin Busy(v)
    BY <1>3, <1>7, BusyNotStale
  <2>6. todo'[w] = todo[w] \cup {r} /\ mem'[w][r] = Progress(r)
        /\ \A s \in Rows \ {r} : mem'[w][s] = mem[w][s]
    BY <1>1, <2>1 DEF LocalTypes
  <2>7. RowInv(r)'
    BY <1>1, <1>4, <2>2 DEF RowInv
  <2>8. \A s \in todo'[w] : /\ queue'[s].status = "posting" /\ mem'[w][s] = Progress(s)'
                            /\ queue'[s].age <= runAge'[w]
    <3>1. queue'[r].status = "posting" /\ mem'[w][r] = Progress(r)' /\ queue'[r].age <= runAge'[w]
      BY <1>1, <1>3, <1>4, <2>2, <2>6 DEF Progress, RunInv
    <3>2. ASSUME NEW s \in todo[w], s # r
          PROVE  /\ queue'[s].status = "posting" /\ mem'[w][s] = Progress(s)'
                 /\ queue'[s].age <= runAge'[w]
      <4>1. s \in Rows /\ SameRow(s) /\ mem'[w][s] = mem[w][s]
        BY <1>1, <2>3, <2>6, <3>2, Reads
      <4>2. queue[s].status = "posting" /\ mem[w][s] = Progress(s) /\ queue[s].age <= runAge[w]
        BY <1>1, <1>5 DEF RunInv
      <4>. QED
        BY <1>4, <4>1, <4>2 DEF SameRow, Progress
    <3>. QED
      BY <2>6, <3>1, <3>2
  <2>9. RunInv(w)'
    BY <1>1, <1>4, <1>5, <2>8 DEF RunInv, Publishing, Settling
  <2>. QED
    BY <1>2, <1>5, <2>3, <2>4, <2>5, <2>6, <2>7, <2>9, NewRowStep
<1>. QED
  BY <1>6, <1>7

LEMMA ReclaimAbortsInv ==
  ASSUME IInv, NEW w \in Workers, ReclaimAborts(w)
  PROVE  IInv'
<1>1. LocalTypes /\ SharedTypes
  BY TypesSplit DEF IInv
<1>2. TypeOK'
  BY <1>1, ReclaimType, TypesSplit
<1>3. /\ pc' = [pc EXCEPT ![w] = "peek"] /\ todo' = [todo EXCEPT ![w] = {}]
      /\ mem' = [mem EXCEPT ![w] = [r \in Rows |-> Blank]]
      /\ lag' = [lag EXCEPT ![w] = 0]
      /\ UNCHANGED <<roots, copies, phase, cur, runAge>>
  BY DEF ReclaimAborts, account
<1>4. pc'[w] = "peek" /\ todo'[w] = {} /\ lag'[w] = 0 /\ Others(w)
  BY <1>1, <1>3 DEF LocalTypes, Others, SameRun
<1>5. Busy(w)' = {}
  BY <1>4 DEF Busy, Publishing, Settling
<1>6. RunInv(w)'
  <2>1. runAge[w] \in Nat /\ runAge[w] <= RunLimit
    BY <1>1, Reads DEF IInv, RunInv
  <2>. QED
    BY <1>3, <1>4, <1>5, <2>1 DEF RunInv, Publishing, Settling
<1>7. CASE UNCHANGED queue
  <2>1. \A s \in Rows : SameRow(s)
    BY <1>3, <1>7 DEF SameRow
  <2>. QED
    BY <1>2, <1>4, <1>5, <1>6, <2>1, QuietStep
<1>8. CASE \E r \in cand[w] : /\ Stale(r, lag[w])
                              /\ Patch(r, [queue[r] EXCEPT !.age = lag[w]])
  <2>1. PICK r \in Rows : /\ Stale(r, lag[w])
                          /\ queue' = [queue EXCEPT ![r] = [queue[r] EXCEPT !.age = lag[w]]]
    BY <1>1, <1>8, Reads DEF Patch
  <2>2. \A s \in Rows \ {r} : SameRow(s)
    BY <1>1, <1>3, <2>1 DEF SameRow, SharedTypes
  <2>3. \A v \in Workers : r \notin Busy(v)
    BY <1>1, <2>1, Reads, BusyNotStale
  <2>4. /\ queue'[r].status = queue[r].status /\ queue'[r].main = queue[r].main
        /\ queue'[r].replies = queue[r].replies /\ queue'[r].attempts = queue[r].attempts
    BY <1>1, <2>1, Reads DEF Row, SharedTypes
  <2>5. RowInv(r)'
    BY <1>3, <2>4 DEF IInv, RowInv
  <2>. QED
    BY <1>2, <1>4, <1>5, <1>6, <2>2, <2>3, <2>5, NewRowStep
<1>. QED
  BY <1>7, <1>8 DEF ReclaimAborts

LEMMA ResumeStaleInv ==
  ASSUME IInv, NEW w \in Workers, NEW r \in Rows, ResumeStale(w, r)
  PROVE  IInv'
<1>1. LocalTypes /\ SharedTypes /\ RunInv(w) /\ RowInv(r)
  BY TypesSplit DEF IInv
<1>2. TypeOK' /\ LocalTypes' /\ SharedTypes'
  BY <1>1, ReclaimType, TypesSplit
<1>3. /\ pc[w] = "reclaim" /\ r \in todo[w]
      /\ pc' = [pc EXCEPT ![w] = Entry(mem[w][r])] /\ phase' = [phase EXCEPT ![w] = "resume"]
      /\ cur' = [cur EXCEPT ![w] = r] /\ todo' = [todo EXCEPT ![w] = @ \ {r}]
      /\ mem' = [mem EXCEPT ![w][r] = mem[w][r]] /\ lag' = [lag EXCEPT ![w] = 0]
      /\ UNCHANGED <<queue, roots, copies, runAge>>
  BY DEF ResumeStale, Take, table, account
<1>4. /\ pc'[w] = Entry(mem[w][r]) /\ phase'[w] = "resume" /\ cur'[w] = r
      /\ todo'[w] = todo[w] \ {r} /\ mem'[w] = mem[w] /\ lag'[w] = 0
  BY <1>1, <1>3 DEF LocalTypes
<1>5. \A s \in Rows : SameRow(s)
  BY <1>3 DEF SameRow
<1>6. Others(w)
  BY <1>1, <1>3 DEF LocalTypes, Others, SameRun
<1>7. \A s \in todo[w] : /\ queue'[s].status = "posting" /\ mem'[w][s] = Progress(s)'
                         /\ queue'[s].age <= runAge'[w]
  BY <1>1, <1>3, <1>4 DEF RunInv, Progress, Busy
<1>8. Progress(cur[w])' = mem[w][r] /\ RowInv(cur[w])'
  BY <1>1, <1>3, <1>4, <1>5, <1>7, FrameRow
<1>9. pc'[w] \in Publishing \cup Settling /\ (pc'[w] \in Publishing => PublishInv(w)')
  BY <1>2, <1>3, <1>4, <1>7, <1>8, EntryInv
<1>10. Busy(w)' = todo[w] /\ Busy(w) = todo[w]
  BY <1>3, <1>4, <1>9 DEF Busy, Publishing, Settling
<1>11. runAge[w] \in Nat /\ runAge[w] <= RunLimit
  BY <1>1, Reads DEF RunInv
<1>12. RunInv(w)'
  BY <1>3, <1>4, <1>7, <1>9, <1>10, <1>11 DEF RunInv, Publishing, Settling
<1>. QED
  BY <1>2, <1>5, <1>6, <1>10, <1>12, QuietStep

LEMMA ClaimInv ==
  ASSUME IInv, NEW w \in Workers, Claim(w)
  PROVE  IInv'
<1>1. LocalTypes /\ SharedTypes /\ RunInv(w)
  BY TypesSplit DEF IInv
<1>. PICK r \in Rows : r = cur[w]
  BY <1>1, Reads
<1>. RowInv(r)
  BY DEF IInv
<1>2. TypeOK' /\ LocalTypes' /\ SharedTypes'
  BY <1>1, ReclaimType, TypesSplit
<1>3. pc[w] = "claim" /\ UNCHANGED <<roots, copies>>
  BY DEF Claim, account
<1>4. CASE Exit(w) /\ UNCHANGED queue
  <2>1. \A s \in Rows : SameRow(s)
    BY <1>3, <1>4 DEF SameRow
  <2>. QED
    BY <1>1, <1>2, <1>4, <2>1, ExitInv, QuietStep
<1>5. CASE /\ queue[r].status = "approved"
           /\ Patch(r, [queue[r] EXCEPT !.status = "posting", !.age = lag[w]])
           /\ Take(w, r, Progress(r), "claim")
           /\ UNCHANGED <<cand, todo, seen, runAge>>
  <2>1. /\ queue' = [queue EXCEPT ![r] = [queue[r] EXCEPT !.status = "posting", !.age = lag[w]]]
        /\ pc' = [pc EXCEPT ![w] = Entry(Progress(r))] /\ phase' = [phase EXCEPT ![w] = "claim"]
        /\ cur' = [cur EXCEPT ![w] = r] /\ mem' = [mem EXCEPT ![w][r] = Progress(r)]
        /\ lag' = [lag EXCEPT ![w] = 0]
        /\ UNCHANGED <<todo, runAge>>
    BY <1>5 DEF Patch, Take
  <2>2. /\ pc'[w] = Entry(Progress(r)) /\ phase'[w] = "claim" /\ cur'[w] = r
        /\ mem'[w][r] = Progress(r) /\ lag'[w] = 0
    BY <1>1, <2>1 DEF LocalTypes
  <2>3. /\ queue'[r].status = "posting" /\ queue'[r].age = lag[w]
        /\ queue'[r].main = queue[r].main /\ queue'[r].replies = queue[r].replies
        /\ queue'[r].attempts = queue[r].attempts
    BY <1>1, <2>1, Reads DEF SharedTypes, Row
  <2>4. \A s \in Rows \ {r} : SameRow(s)
    BY <1>1, <1>3, <2>1 DEF SameRow, SharedTypes
  <2>5. Others(w)
    BY <1>1, <2>1 DEF LocalTypes, Others, SameRun
  <2>6. \A v \in Workers : r \notin Busy(v)
    BY <1>5, BusyNotApproved
  <2>7. RowInv(r)'
    BY <1>3, <2>3 DEF RowInv
  <2>8. pc'[w] \in Publishing \cup Settling /\ (pc'[w] \in Publishing => PublishInv(w)')
    <3>1. Progress(r) = Progress(cur[w])' /\ RowInv(cur[w])'
      BY <2>2, <2>3, <2>7 DEF Progress
    <3>. QED
      BY <1>2, <2>2, <2>3, <3>1, EntryInv
  <2>9. todo'[w] = {} /\ runAge'[w] = runAge[w]
    BY <1>1, <1>3, <2>1 DEF RunInv
  <2>10. Busy(w)' = {r}
    BY <2>2, <2>8, <2>9 DEF Busy
  <2>11. runAge[w] \in Nat /\ runAge[w] <= RunLimit /\ lag[w] <= runAge[w]
    BY <1>1, Reads DEF RunInv
  <2>12. RunInv(w)'
    BY <2>2, <2>3, <2>8, <2>9, <2>10, <2>11 DEF RunInv, Publishing, Settling
  <2>. QED
    BY <1>1, <1>2, <2>4, <2>5, <2>6, <2>7, <2>10, <2>12, NewRowStep
<1>. QED
  BY <1>4, <1>5 DEF Claim

\* What is known of the row that a run publishes or settles.
LEMMA CurrentRow ==
  ASSUME IInv, NEW w \in Workers, NEW r, r = cur[w], pc[w] \in Publishing \cup Settling
  PROVE  /\ LocalTypes /\ SharedTypes /\ RunInv(w)
         /\ r \in Rows /\ r \in Busy(w) /\ queue[r] \in Row /\ mem[w][r] \in Memory
         /\ roots[r] \in Nat /\ copies[r] \in [1..Replies -> Nat] /\ runAge[w] \in Nat
         /\ RowInv(r) /\ queue[r].age <= runAge[w]
         /\ queue[r].status \in {"posting", "posted", "failed"}
         /\ pc[w] \in Publishing => PublishInv(w)
         /\ pc[w] \in {"gate", "reply"} => mem[w][r].replies < Replies
<1>1. LocalTypes /\ SharedTypes /\ RunInv(w)
  BY TypesSplit DEF IInv
<1>2. r \in Busy(w)
  BY DEF Busy
<1>3. /\ r \in Rows /\ queue[r] \in Row /\ mem[w][r] \in Memory
      /\ roots[r] \in Nat /\ copies[r] \in [1..Replies -> Nat] /\ runAge[w] \in Nat
  BY <1>1, Reads
<1>4. RowInv(r) /\ queue[r].age <= runAge[w]
  BY <1>1, <1>2, <1>3 DEF IInv, RunInv
<1>5. queue[r].status \in {"posting", "posted", "failed"}
  BY <1>2, BusyNotApproved
<1>6. pc[w] \in Publishing => PublishInv(w)
  BY <1>1 DEF RunInv
<1>7. pc[w] \in {"gate", "reply"} => mem[w][r].replies < Replies
  BY <1>6 DEF PublishInv, ReplyStage, Publishing
<1>. QED
  BY <1>1, <1>2, <1>3, <1>4, <1>5, <1>6, <1>7

LEMMA PatchFrame ==
  ASSUME SharedTypes, NEW r \in Rows, NEW q, MaybePatch(r, q), UNCHANGED <<roots, copies>>
  PROVE  /\ \A s \in Rows \ {r} : SameRow(s)
         /\ queue'[r] = queue[r] \/ (Patch(r, q) /\ queue'[r] = q)
BY DEF SharedTypes, MaybePatch, Patch, SameRow

\* The saved rows keep the rows' part of the invariant.
LEMMA SavedRow ==
  ASSUME IInv, NEW w \in Workers, NEW r, r = cur[w], pc[w] \in Publishing,
         UNCHANGED <<roots, copies>>
  PROVE  /\ pc[w] = "saveRoot" /\ queue'[r] = RootSaved(w) => RowInv(r)'
         /\ pc[w] \in {"verify", "saveReply"} /\ queue'[r] = RepliesSaved(w) => RowInv(r)'
         /\ pc[w] = "finish" /\ queue'[r] = Posted(w) => RowInv(r)'
<1>. DEFINE m == mem[w][r]
<1>1. /\ r \in Rows /\ queue[r] \in Row /\ m \in Memory /\ RowInv(r) /\ PublishInv(w)
      /\ roots[r] \in Nat /\ copies[r] \in [1..Replies -> Nat]
  BY CurrentRow
<1>2. /\ m.main \in Nat /\ m.replies \in 0..Replies
      /\ queue[r].main \in Nat /\ queue[r].replies \in 0..Replies
  BY <1>1 DEF Row, Memory
<1>3. CASE pc[w] = "saveRoot" /\ queue'[r] = RootSaved(w)
  <2>1. /\ queue'[r].main = m.main /\ queue'[r].replies = 0 /\ queue'[r].status = "posting"
        /\ queue'[r].attempts = queue[r].attempts
    BY <1>1, <1>3 DEF RootSaved, Row, PublishInv, RootStage
  <2>2. m.main = roots[r]
    BY <1>1, <1>3 DEF PublishInv, RootStage
  <2>. QED
    BY <1>1, <1>2, <1>3, <2>1, <2>2 DEF RowInv
<1>4. ASSUME pc[w] \in {"verify", "saveReply", "finish"}
      PROVE  /\ \A i \in 1..m.replies : copies[r][i] > 0
             /\ queue[r].main > 0
             /\ RepliesSaved(w) = [queue[r] EXCEPT !.replies = m.replies, !.age = 0]
  <2>1. m.replies = queue[r].replies \/ (m.replies = queue[r].replies + 1 /\ copies[r][m.replies] > 0)
    BY <1>1, <1>4 DEF PublishInv, ReplyStage
  <2>2. queue[r].main > 0
    BY <1>1, <1>4 DEF PublishInv, ReplyStage
  <2>3. \A i \in 1..m.replies : copies[r][i] > 0
    <3> SUFFICES ASSUME NEW i \in 1..m.replies PROVE copies[r][i] > 0
      OBVIOUS
    <3>1. i \in 1..queue[r].replies \/ (i = m.replies /\ copies[r][m.replies] > 0)
      BY <1>2, <2>1
    <3>. QED
      BY <1>1, <3>1 DEF RowInv
  <2>. QED
    BY <2>2, <2>3 DEF RepliesSaved
<1>5. CASE pc[w] \in {"verify", "saveReply"} /\ queue'[r] = RepliesSaved(w)
  <2>1. /\ queue'[r].main = queue[r].main /\ queue'[r].replies = m.replies
        /\ queue'[r].status = "posting" /\ queue'[r].attempts = queue[r].attempts
    BY <1>1, <1>4, <1>5, ZenonT(60) DEF Row, PublishInv
  <2>. QED
    BY <1>1, <1>2, <1>4, <1>5, <2>1 DEF RowInv
<1>6. CASE pc[w] = "finish" /\ queue'[r] = Posted(w)
  <2>1. /\ queue'[r].main = queue[r].main /\ queue'[r].replies = m.replies
        /\ queue'[r].attempts = queue[r].attempts
    BY <1>1, <1>4, <1>6, ZenonT(60) DEF Posted, Row
  <2>2. m.replies = Replies
    BY <1>1, <1>6 DEF PublishInv, ReplyStage
  <2>. QED
    BY <1>1, <1>2, <1>4, <1>6, <2>1, <2>2 DEF RowInv
<1>. QED
  BY <1>3, <1>5, <1>6

\* Only status, backoff and attempts of the row change, the latter within the cap.
LEMMA SettledRow ==
  ASSUME NEW r \in Rows, RowInv(r), queue[r] \in Row, UNCHANGED <<roots, copies>>,
         NEW q, queue'[r] = q,
         \/ q = Failed(r)
         \/ \E a \in Nat \ {0} : a < MaxAttempts /\ q = Requeued(r, a)
  PROVE  RowInv(r)'
<1>1. /\ queue'[r].main = queue[r].main /\ queue'[r].replies = queue[r].replies
      /\ queue'[r].status # "posted" /\ queue'[r].attempts < MaxAttempts
  <2>1. CASE q = Failed(r)
    BY <2>1 DEF Failed, Row, RowInv
  <2>2. CASE \E a \in Nat \ {0} : a < MaxAttempts /\ q = Requeued(r, a)
    BY <2>2 DEF Requeued, Row
  <2>. QED
    BY <2>1, <2>2
<1>. QED
  BY <1>1 DEF RowInv

\* The writes keep the row `posting` or make it posted or failed, and fresh.
LEMMA FreshRow ==
  ASSUME IInv, NEW w \in Workers, NEW r, r = cur[w], pc[w] \in Publishing \cup Settling,
         queue'[r] \in {queue[r], RootSaved(w), RepliesSaved(w), Posted(w), Failed(r)}
  PROVE  queue'[r].status \in {"posting", "posted", "failed"} /\ queue'[r].age <= runAge[w]
<1>1. /\ queue[r] \in Row /\ queue[r].age <= runAge[w] /\ runAge[w] \in Nat
      /\ queue[r].status \in {"posting", "posted", "failed"}
  BY CurrentRow
<1>2. CASE queue'[r] = RootSaved(w)
  BY <1>1, <1>2 DEF RootSaved, Row
<1>3. CASE queue'[r] \in {RepliesSaved(w), Posted(w)}
  <2>1. RepliesSaved(w).age = 0 /\ RepliesSaved(w).status = queue[r].status
    BY <1>1 DEF RepliesSaved, Row
  <2>2. RepliesSaved(w) \in Row
    BY CurrentRow, WrittenRows
  <2>3. Posted(w).age = 0 /\ Posted(w).status = "posted"
    BY <2>1, <2>2 DEF Posted, Row
  <2>. QED
    BY <1>1, <1>3, <2>1, <2>3
<1>4. CASE queue'[r] = Failed(r)
  BY <1>1, <1>4 DEF Failed, Row
<1>. QED
  BY <1>1, <1>2, <1>3, <1>4

LEMMA SaveFailsInv ==
  ASSUME IInv, NEW w \in Workers,
         SaveRootFails(w) \/ VerifyFails(w) \/ SaveReplyFails(w) \/ FinishFails(w) \/ ScanFails(w)
  PROVE  IInv'
<1>. PICK r : r = cur[w]
  OBVIOUS
<1>1. pc[w] \in {"scan", "saveRoot", "verify", "saveReply", "finish"} /\ UNCHANGED <<roots, copies>>
  BY DEF SaveRootFails, VerifyFails, SaveReplyFails, FinishFails, ScanFails, account
<1>2. pc[w] \in Publishing
  BY <1>1 DEF Publishing
<1>3. /\ LocalTypes /\ SharedTypes /\ RunInv(w) /\ r \in Rows /\ r \in Busy(w) /\ RowInv(r)
      /\ pc[w] \in {"gate", "reply"} => mem[w][r].replies < Replies
  BY <1>2, CurrentRow
<1>4. TypeOK'
  BY <1>3, PublishType, SettleType, TypesSplit
<1>5. PICK q : /\ MaybePatch(r, q)
               /\ \/ q = queue[r]
                  \/ pc[w] = "saveRoot" /\ q = RootSaved(w)
                  \/ pc[w] \in {"verify", "saveReply"} /\ q = RepliesSaved(w)
                  \/ pc[w] = "finish" /\ q = Posted(w)
  BY DEF SaveRootFails, VerifyFails, SaveReplyFails, FinishFails, ScanFails, MaybePatch
<1>6. (\A s \in Rows \ {r} : SameRow(s)) /\ (queue'[r] = queue[r] \/ queue'[r] = q)
  BY <1>1, <1>3, <1>5, PatchFrame
<1>7. RowInv(r)'
  <2>1. CASE queue'[r] = queue[r]
    BY <1>1, <1>3, <2>1 DEF RowInv
  <2>. QED
    BY <1>1, <1>2, <1>5, <1>6, <2>1, SavedRow
<1>8. queue'[r].status \in {"posting", "posted", "failed"} /\ queue'[r].age <= runAge[w]
  BY <1>2, <1>5, <1>6, FreshRow
<1>9. \E k : Raise(w, k)
  BY DEF SaveRootFails, VerifyFails, SaveReplyFails, FinishFails, ScanFails
<1>10. RunInv(w)' /\ Busy(w)' = Busy(w) /\ Others(w)
  BY <1>2, <1>3, <1>6, <1>8, <1>9, RaiseInv
<1>. QED
  BY <1>3, <1>4, <1>6, <1>7, <1>10, OwnRowStep

LEMMA RootStepsInv ==
  ASSUME IInv, NEW w \in Workers,
         ScanFeed(w) \/ PublishRoot(w) \/ PublishRootFails(w) \/ SaveRoot(w)
  PROVE  IInv'
<1>. PICK r : r = cur[w]
  OBVIOUS
<1>. DEFINE m == mem[w][r]
<1>1. pc[w] \in {"scan", "root", "saveRoot"}
  BY DEF ScanFeed, PublishRoot, PublishRootFails, SaveRoot
<1>2. pc[w] \in Publishing
  BY <1>1 DEF Publishing
<1>3. /\ LocalTypes /\ SharedTypes /\ RunInv(w) /\ r \in Rows /\ r \in Busy(w) /\ RowInv(r)
      /\ queue[r] \in Row /\ m \in Memory /\ roots[r] \in Nat /\ runAge[w] \in Nat
      /\ queue[r].age <= runAge[w] /\ PublishInv(w)
      /\ pc[w] \in {"gate", "reply"} => mem[w][r].replies < Replies
  BY <1>2, CurrentRow
<1>4. TypeOK'
  BY <1>3, PublishType, TypesSplit
<1>5. /\ queue[r].status = "posting" /\ queue[r].attempts = m.attempts
      /\ queue[r].main = 0 /\ queue[r].replies = 0 /\ m.replies = 0
      /\ pc[w] = "scan" => m.main = 0
      /\ pc[w] = "saveRoot" => m.main > 0 /\ m.main = roots[r]
  BY <1>1, <1>3 DEF PublishInv, RootStage
<1>6. {"scan", "root", "saveRoot", "gate", "finish"} \subseteq Publishing
  BY DEF Publishing
<1>7. CASE ScanFeed(w)
  <2>1. UNCHANGED <<queue, roots, copies>> /\ pc[w] = "scan"
    BY <1>7 DEF ScanFeed, account
  <2>2. \A s \in Rows : SameRow(s)
    BY <2>1 DEF SameRow
  <2>3. RunInv(w)' /\ Busy(w)' = Busy(w) /\ Others(w)
    <3>1. CASE roots[r] > 0
      <4>1. Advance(w, [m EXCEPT !.main = roots[r]], "saveRoot")
        BY <1>7, <3>1 DEF ScanFeed
      <4>2. [m EXCEPT !.main = roots[r]] \in Memory
        BY <1>3 DEF Memory
      <4>3. ASSUME pc'[w] = "saveRoot", mem'[w][cur[w]] = [m EXCEPT !.main = roots[r]],
                   cur'[w] = cur[w]
            PROVE  PublishInv(w)'
        BY <1>3, <1>5, <2>1, <3>1, <4>3 DEF PublishInv, RootStage, Memory
      <4>. QED
        BY <1>2, <1>3, <1>6, <2>1, <2>2, <4>1, <4>2, <4>3, AdvanceInv
    <3>2. CASE ~(roots[r] > 0)
      <4>1. Advance(w, m, "root") /\ roots[r] = 0
        BY <1>3, <1>7, <3>2 DEF ScanFeed
      <4>2. ASSUME pc'[w] = "root", mem'[w][cur[w]] = m, cur'[w] = cur[w]
            PROVE  PublishInv(w)'
        BY <1>5, <2>1, <4>1, <4>2 DEF PublishInv, RootStage
      <4>. QED
        BY <1>2, <1>3, <1>6, <2>1, <2>2, <4>1, <4>2, AdvanceInv
    <3>. QED
      BY <3>1, <3>2
  <2>. QED
    BY <1>4, <2>2, <2>3, QuietStep
<1>8. ASSUME roots' = [roots EXCEPT ![r] = @ + 1], UNCHANGED <<queue, copies>>
      PROVE  /\ \A s \in Rows \ {r} : SameRow(s)
             /\ roots'[r] = roots[r] + 1
             /\ RowInv(r)'
  <2>1. roots'[r] = roots[r] + 1
    BY <1>3, <1>8 DEF SharedTypes
  <2>2. \A s \in Rows \ {r} : SameRow(s)
    BY <1>3, <1>8 DEF SharedTypes, SameRow
  <2>3. RowInv(r)'
    BY <1>3, <1>8, <2>1 DEF RowInv, Row
  <2>. QED
    BY <2>1, <2>2, <2>3
<1>9. CASE PublishRoot(w)
  <2>1. /\ roots' = [roots EXCEPT ![r] = @ + 1] /\ UNCHANGED <<queue, copies>> /\ pc[w] = "root"
        /\ Advance(w, [m EXCEPT !.main = roots[r] + 1], "saveRoot")
    BY <1>9 DEF PublishRoot
  <2>2. [m EXCEPT !.main = roots[r] + 1] \in Memory
    BY <1>3 DEF Memory
  <2>3. ASSUME pc'[w] = "saveRoot", mem'[w][cur[w]] = [m EXCEPT !.main = roots[r] + 1],
               cur'[w] = cur[w]
        PROVE  PublishInv(w)'
    BY <1>3, <1>5, <1>8, <2>1, <2>3 DEF PublishInv, RootStage, Memory
  <2>4. RunInv(w)' /\ Busy(w)' = Busy(w) /\ Others(w)
    BY <1>2, <1>3, <1>6, <1>8, <2>1, <2>2, <2>3, AdvanceInv
  <2>. QED
    BY <1>3, <1>4, <1>8, <2>1, <2>4, OwnRowStep
<1>10. CASE PublishRootFails(w)
  <2>1. PICK k : Raise(w, k)
    BY <1>10 DEF PublishRootFails
  <2>2. UNCHANGED <<queue, copies>> /\ (UNCHANGED roots \/ roots' = [roots EXCEPT ![r] = @ + 1])
    BY <1>10 DEF PublishRootFails
  <2>3. (\A s \in Rows \ {r} : SameRow(s)) /\ RowInv(r)'
    <3>1. CASE UNCHANGED roots
      BY <1>3, <2>2, <3>1, FrameRow DEF SameRow
    <3>. QED
      BY <1>8, <2>2, <3>1
  <2>4. RunInv(w)' /\ Busy(w)' = Busy(w) /\ Others(w)
    BY <1>2, <1>3, <1>5, <2>1, <2>2, <2>3, RaiseInv
  <2>. QED
    BY <1>3, <1>4, <2>3, <2>4, OwnRowStep
<1>11. CASE SaveRoot(w)
  <2>1. /\ Patch(r, RootSaved(w)) /\ UNCHANGED <<roots, copies>> /\ pc[w] = "saveRoot"
        /\ Advance(w, m, NextSlot(m))
    BY <1>11 DEF SaveRoot, account
  <2>2. (\A s \in Rows \ {r} : SameRow(s)) /\ queue'[r] = RootSaved(w)
    BY <1>3, <2>1 DEF SharedTypes, Patch, SameRow
  <2>3. RowInv(r)'
    BY <1>2, <2>1, <2>2, SavedRow
  <2>4. /\ queue'[r].main = m.main /\ queue'[r].replies = 0 /\ queue'[r].age = 0
        /\ queue'[r].status = "posting" /\ queue'[r].attempts = m.attempts
    BY <1>3, <1>5, <2>2 DEF RootSaved, Row
  <2>5. NextSlot(m) \in Publishing
    BY <1>6 DEF NextSlot
  <2>6. ASSUME pc'[w] = NextSlot(m), mem'[w][cur[w]] = m, cur'[w] = cur[w]
        PROVE  PublishInv(w)'
    BY <1>3, <1>5, <2>1, <2>4, <2>6, CountsAssumption DEF PublishInv, ReplyStage, NextSlot
  <2>7. RunInv(w)' /\ Busy(w)' = Busy(w) /\ Others(w)
    BY <1>2, <1>3, <2>1, <2>2, <2>4, <2>5, <2>6, AdvanceInv
  <2>. QED
    BY <1>3, <1>4, <2>2, <2>3, <2>7, OwnRowStep
<1>. QED
  BY <1>7, <1>9, <1>10, <1>11

LEMMA ReplyStepsInv ==
  ASSUME IInv, NEW w \in Workers,
         \/ Verify(w) \/ VerifyBlind(w) \/ Gate(w) \/ GateBlind(w)
         \/ PublishReply(w) \/ PublishReplyFails(w) \/ SaveReply(w)
  PROVE  IInv'
<1>. PICK r : r = cur[w]
  OBVIOUS
<1>. DEFINE m == mem[w][r]
<1>1. pc[w] \in {"verify", "gate", "reply", "saveReply"}
  BY DEF Verify, VerifyBlind, Gate, GateBlind, PublishReply, PublishReplyFails, SaveReply
<1>2. pc[w] \in Publishing
  BY <1>1 DEF Publishing
<1>3. /\ LocalTypes /\ SharedTypes /\ RunInv(w) /\ r \in Rows /\ r \in Busy(w) /\ RowInv(r)
      /\ queue[r] \in Row /\ m \in Memory /\ copies[r] \in [1..Replies -> Nat] /\ runAge[w] \in Nat
      /\ queue[r].age <= runAge[w] /\ PublishInv(w)
      /\ pc[w] \in {"gate", "reply"} => m.replies < Replies
  BY <1>2, CurrentRow
<1>4. TypeOK'
  BY <1>3, PublishType, TypesSplit
<1>5. /\ queue[r].status = "posting" /\ queue[r].attempts = m.attempts
      /\ queue[r].main = m.main /\ queue[r].main > 0
      /\ pc[w] \in {"verify", "gate", "reply"} => m.replies = queue[r].replies
      /\ pc[w] = "reply" /\ m.replies > 0 => copies[r][m.replies + 1] = 0
  BY <1>1, <1>3 DEF PublishInv, ReplyStage
<1>6. {"verify", "gate", "reply", "saveReply", "finish"} \subseteq Publishing
  BY DEF Publishing
<1>7. m.replies \in 0..Replies /\ Replies \in Nat
  BY <1>3, CountsAssumption DEF Memory
<1>8. CASE Verify(w) \/ SaveReply(w)
  <2>1. /\ Patch(r, RepliesSaved(w)) /\ UNCHANGED <<roots, copies>>
        /\ pc[w] \in {"verify", "saveReply"} /\ Advance(w, m, NextSlot(m))
    BY <1>8 DEF Verify, SaveReply, account
  <2>2. (\A s \in Rows \ {r} : SameRow(s)) /\ queue'[r] = RepliesSaved(w)
    BY <1>3, <2>1 DEF SharedTypes, Patch, SameRow
  <2>3. RowInv(r)'
    BY <1>2, <2>1, <2>2, SavedRow
  <2>4. /\ queue'[r].main = m.main /\ queue'[r].replies = m.replies /\ queue'[r].age = 0
        /\ queue'[r].status = "posting" /\ queue'[r].attempts = m.attempts
    BY <1>3, <1>5, <2>2 DEF RepliesSaved, Row
  <2>5. NextSlot(m) \in Publishing
    BY <1>6 DEF NextSlot
  <2>6. ASSUME pc'[w] = NextSlot(m), mem'[w][cur[w]] = m, cur'[w] = cur[w]
        PROVE  PublishInv(w)'
    BY <1>5, <1>7, <2>4, <2>6 DEF PublishInv, ReplyStage, NextSlot
  <2>7. RunInv(w)' /\ Busy(w)' = Busy(w) /\ Others(w)
    BY <1>2, <1>3, <2>1, <2>2, <2>4, <2>5, <2>6, AdvanceInv
  <2>. QED
    BY <1>3, <1>4, <2>2, <2>3, <2>7, OwnRowStep
<1>9. ASSUME UNCHANGED <<queue, roots, copies>>, RunInv(w)' /\ Busy(w)' = Busy(w) /\ Others(w)
      PROVE  IInv'
  <2>1. \A s \in Rows : SameRow(s)
    BY <1>9 DEF SameRow
  <2>. QED
    BY <1>4, <1>9, <2>1, QuietStep
<1>10. ASSUME UNCHANGED <<queue, roots, copies>>
       PROVE  /\ \A s \in Rows \ {r} : SameRow(s)
              /\ queue'[r].status = "posting" /\ queue'[r].age <= runAge[w]
  BY <1>3, <1>5, <1>10 DEF SameRow
<1>11. CASE VerifyBlind(w)
  <2>1. /\ UNCHANGED <<queue, roots, copies>>
        /\ mem' = [mem EXCEPT ![w][cur[w]].blind = TRUE]
        /\ pc[w] = "verify"
        /\ UNCHANGED <<pc, phase, cur, todo, runAge, lag>>
    BY <1>11 DEF VerifyBlind, table, account
  <2>2. [m EXCEPT !.blind = TRUE] \in Memory
    BY <1>3 DEF Memory
  <2>3. /\ mem' = [mem EXCEPT ![w][cur[w]] = [m EXCEPT !.blind = TRUE]]
        /\ pc' = [pc EXCEPT ![w] = "verify"]
    BY <1>3, <2>1 DEF LocalTypes
  <2>4. PublishInv(w)'
    <3>1. mem'[w][r] = [m EXCEPT !.blind = TRUE]
      BY <1>3, <2>3 DEF LocalTypes
    <3>2. mem'[w][r].main = m.main /\ mem'[w][r].replies = m.replies /\ mem'[w][r].attempts = m.attempts
      BY <1>3, <3>1 DEF Memory
    <3>. QED
      BY <1>5, <2>1, <3>2 DEF PublishInv, ReplyStage
  <2>. QED
    BY <1>2, <1>3, <1>6, <1>9, <1>10, <2>1, <2>2, <2>3, <2>4, StayInv
<1>12. CASE Gate(w)
  <2>1. UNCHANGED <<queue, roots, copies>> /\ pc[w] = "gate"
    BY <1>12 DEF Gate, account
  <2>2. CASE copies[r][m.replies + 1] > 0 /\ Advance(w, [m EXCEPT !.replies = @ + 1], "saveReply")
    <3>1. [m EXCEPT !.replies = @ + 1] \in Memory
      BY <1>3, <2>1, NextReply
    <3>2. ASSUME pc'[w] = "saveReply", mem'[w][cur[w]] = [m EXCEPT !.replies = @ + 1],
                 cur'[w] = cur[w]
          PROVE  PublishInv(w)'
      <4>1. mem'[w][r].main = m.main /\ mem'[w][r].replies = m.replies + 1
            /\ mem'[w][r].attempts = m.attempts
        BY <1>3, <3>2 DEF Memory
      <4>. QED
        BY <1>5, <2>1, <2>2, <3>2, <4>1 DEF PublishInv, ReplyStage
    <3>. QED
      BY <1>2, <1>3, <1>6, <1>9, <1>10, <2>1, <2>2, <3>1, <3>2, AdvanceInv
  <2>3. CASE copies[r][m.replies + 1] = 0 /\ Advance(w, m, "reply")
    <3>1. ASSUME pc'[w] = "reply", mem'[w][cur[w]] = m, cur'[w] = cur[w]
          PROVE  PublishInv(w)'
      BY <1>3, <1>5, <2>1, <2>3, <3>1 DEF PublishInv, ReplyStage
    <3>. QED
      BY <1>2, <1>3, <1>6, <1>9, <1>10, <2>1, <2>3, <3>1, AdvanceInv
  <2>4. CASE Raise(w, "final")
    BY <1>2, <1>3, <1>9, <1>10, <2>1, <2>4, RaiseInv
  <2>. QED
    BY <1>12, <2>2, <2>3, <2>4 DEF Gate
<1>13. CASE GateBlind(w)
  <2>1. UNCHANGED <<queue, roots, copies>> /\ pc[w] = "gate"
    BY <1>13 DEF GateBlind, account
  <2>2. CASE Raise(w, "final")
    BY <1>2, <1>3, <1>9, <1>10, <2>1, <2>2, RaiseInv
  <2>3. CASE /\ ~(m.replies > 0)
             /\ mem' = [mem EXCEPT ![w][r].blind = TRUE]
             /\ pc' = [pc EXCEPT ![w] = "reply"]
             /\ UNCHANGED <<moves, phase, cur, cand, todo, seen, err, runAge, lag>>
    <3>1. [m EXCEPT !.blind = TRUE] \in Memory
      BY <1>3 DEF Memory
    <3>2. mem' = [mem EXCEPT ![w][cur[w]] = [m EXCEPT !.blind = TRUE]]
      BY <1>3, <2>3 DEF LocalTypes
    <3>3. pc'[w] = "reply" /\ mem'[w][r] = [m EXCEPT !.blind = TRUE] /\ cur'[w] = r
      <4>1. pc'[w] = "reply" /\ cur'[w] = r
        BY <1>3, <2>3 DEF LocalTypes
      <4>2. mem'[w][r] = [m EXCEPT !.blind = TRUE]
        BY <1>3, <3>2 DEF LocalTypes
      <4>. QED
        BY <4>1, <4>2
    <3>4. mem'[w][r].main = m.main /\ mem'[w][r].replies = m.replies /\ mem'[w][r].attempts = m.attempts
      BY <1>3, <3>3 DEF Memory
    <3>5. PublishInv(w)'
      BY <1>3, <1>5, <2>1, <2>3, <3>3, <3>4 DEF PublishInv, ReplyStage
    <3>. QED
      BY <1>2, <1>3, <1>6, <1>9, <1>10, <2>1, <2>3, <3>1, <3>2, <3>5, StayInv
  <2>. QED
    BY <1>13, <2>2, <2>3 DEF GateBlind
<1>14. ASSUME pc[w] = "reply", copies' = [copies EXCEPT ![r][m.replies + 1] = @ + 1],
              UNCHANGED <<queue, roots>>
       PROVE  /\ \A s \in Rows \ {r} : SameRow(s)
              /\ copies'[r][m.replies + 1] > 0
              /\ RowInv(r)'
  <2>1. m.replies + 1 \in 1..Replies
    BY <1>3, <1>7, <1>14
  <2>2. \A s \in Rows \ {r} : SameRow(s)
    BY <1>3, <1>14 DEF SharedTypes, SameRow
  <2>3. /\ copies'[r][m.replies + 1] = copies[r][m.replies + 1] + 1
        /\ \A i \in 1..Replies : i # m.replies + 1 => copies'[r][i] = copies[r][i]
    BY <1>3, <1>14, <2>1 DEF SharedTypes
  <2>4. \A i \in 1..Replies : copies[r][i] \in Nat
    BY <1>3
  <2>5. \A i \in 1..queue[r].replies : copies'[r][i] > 0
    <3> SUFFICES ASSUME NEW i \in 1..queue[r].replies PROVE copies'[r][i] > 0
      OBVIOUS
    <3>1. copies[r][i] > 0
      BY <1>3 DEF RowInv
    <3>2. i \in 1..Replies /\ i # m.replies + 1
      BY <1>5, <1>7, <1>14
    <3>. QED
      BY <2>3, <3>1, <3>2
  <2>6. \A i \in 2..Replies : copies'[r][i] <= 1
    <3> SUFFICES ASSUME NEW i \in 2..Replies PROVE copies'[r][i] <= 1
      OBVIOUS
    <3>1. CASE i = m.replies + 1
      <4>1. m.replies > 0 /\ i \in 1..Replies
        BY <1>7, <3>1
      <4>2. copies[r][i] = 0
        BY <1>5, <1>14, <3>1, <4>1
      <4>3. copies'[r][i] = copies[r][i] + 1
        BY <2>3, <3>1
      <4>. QED
        BY <4>2, <4>3
    <3>2. CASE i # m.replies + 1
      <4>1. copies[r][i] <= 1
        BY <1>3 DEF RowInv
      <4>2. i \in 1..Replies
        BY <1>7
      <4>. QED
        BY <2>3, <3>2, <4>1, <4>2
    <3>. QED
      BY <3>1, <3>2
  <2>7. RowInv(r)'
    BY <1>3, <1>14, <2>5, <2>6 DEF RowInv
  <2>. QED
    BY <2>1, <2>2, <2>3, <2>4, <2>7
<1>15. CASE PublishReply(w)
  <2>1. /\ pc[w] = "reply" /\ copies' = [copies EXCEPT ![r][m.replies + 1] = @ + 1]
        /\ UNCHANGED <<queue, roots>>
        /\ Advance(w, [m EXCEPT !.replies = @ + 1], "saveReply")
    BY <1>15 DEF PublishReply
  <2>2. [m EXCEPT !.replies = @ + 1] \in Memory
    BY <1>3, <2>1, NextReply
  <2>3. ASSUME pc'[w] = "saveReply", mem'[w][cur[w]] = [m EXCEPT !.replies = @ + 1],
               cur'[w] = cur[w]
        PROVE  PublishInv(w)'
    <3>1. mem'[w][r].main = m.main /\ mem'[w][r].replies = m.replies + 1
          /\ mem'[w][r].attempts = m.attempts
      BY <1>3, <2>3 DEF Memory
    <3>. QED
      BY <1>5, <1>14, <2>1, <2>3, <3>1 DEF PublishInv, ReplyStage
  <2>4. RunInv(w)' /\ Busy(w)' = Busy(w) /\ Others(w)
    BY <1>2, <1>3, <1>6, <1>14, <2>1, <2>2, <2>3, AdvanceInv
  <2>. QED
    BY <1>3, <1>4, <1>14, <2>1, <2>4, OwnRowStep
<1>16. CASE PublishReplyFails(w)
  <2>1. PICK k : Raise(w, k)
    BY <1>16 DEF PublishReplyFails
  <2>2. /\ UNCHANGED <<queue, roots>> /\ pc[w] = "reply"
        /\ UNCHANGED copies \/ copies' = [copies EXCEPT ![r][m.replies + 1] = @ + 1]
    BY <1>16 DEF PublishReplyFails
  <2>3. (\A s \in Rows \ {r} : SameRow(s)) /\ RowInv(r)'
    <3>1. CASE UNCHANGED copies
      BY <1>3, <2>2, <3>1, FrameRow DEF SameRow
    <3>. QED
      BY <1>14, <2>2, <3>1
  <2>4. RunInv(w)' /\ Busy(w)' = Busy(w) /\ Others(w)
    BY <1>2, <1>3, <1>5, <2>1, <2>2, <2>3, RaiseInv
  <2>. QED
    BY <1>3, <1>4, <2>3, <2>4, OwnRowStep
<1>. QED
  BY <1>8, <1>11, <1>12, <1>13, <1>15, <1>16

LEMMA LeaveRowInv ==
  ASSUME IInv, TypeOK', NEW w \in Workers, pc[w] \in Publishing \cup Settling,
         NEW r, r = cur[w], NEW q, MaybePatch(r, q), UNCHANGED <<roots, copies>>,
         AfterRow(w) \/ Exit(w),
         queue'[r] = q => RowInv(r)'
  PROVE  IInv'
<1>1. LocalTypes /\ SharedTypes /\ RunInv(w) /\ r \in Rows /\ r \in Busy(w) /\ RowInv(r)
  BY CurrentRow
<1>2. (\A s \in Rows \ {r} : SameRow(s)) /\ (queue'[r] = queue[r] \/ queue'[r] = q)
  BY <1>1, PatchFrame
<1>3. RowInv(r)'
  <2>1. CASE queue'[r] = queue[r]
    BY <1>1, <2>1 DEF RowInv
  <2>. QED
    BY <1>2, <2>1
<1>4. RunInv(w)' /\ Busy(w)' \subseteq Busy(w) /\ Others(w)
  BY <1>1, <1>2, AfterRowInv, ExitInv
<1>. QED
  BY <1>1, <1>2, <1>3, <1>4, OwnRowStep

LEMMA FinishInv ==
  ASSUME IInv, NEW w \in Workers, Finish(w)
  PROVE  IInv'
<1>. PICK r : r = cur[w]
  OBVIOUS
<1>1. pc[w] = "finish" /\ MaybePatch(r, Posted(w)) /\ UNCHANGED <<roots, copies>> /\ AfterRow(w)
  BY DEF Finish, MaybePatch, account
<1>2. pc[w] \in Publishing
  BY <1>1 DEF Publishing
<1>3. TypeOK'
  BY <1>2, CurrentRow, SettleType, TypesSplit
<1>4. queue'[r] = Posted(w) => RowInv(r)'
  BY <1>1, <1>2, SavedRow
<1>. QED
  BY <1>1, <1>2, <1>3, <1>4, LeaveRowInv

LEMMA MarkFailedInv ==
  ASSUME IInv, NEW w \in Workers, MarkFailed(w) \/ MarkFailedLost(w)
  PROVE  IInv'
<1>. PICK r : r = cur[w]
  OBVIOUS
<1>1. /\ pc[w] = "markFailed" /\ MaybePatch(r, Failed(r)) /\ UNCHANGED <<roots, copies>>
      /\ AfterFailure(w)
  BY DEF MarkFailed, MarkFailedLost, MaybePatch, account
<1>2. pc[w] \in Publishing \cup Settling
  BY <1>1 DEF Settling
<1>3. /\ LocalTypes /\ SharedTypes /\ RunInv(w) /\ r \in Rows /\ r \in Busy(w) /\ RowInv(r)
      /\ queue[r] \in Row
  BY <1>2, CurrentRow
<1>4. TypeOK'
  BY <1>3, SettleType, TypesSplit
<1>5. queue'[r] = Failed(r) => RowInv(r)'
  BY <1>1, <1>3, SettledRow
<1>6. CASE AfterRow(w)
  BY <1>1, <1>2, <1>4, <1>5, <1>6, LeaveRowInv
<1>7. CASE /\ pc' = [pc EXCEPT ![w] = "settle"]
           /\ UNCHANGED <<phase, cur, cand, todo, seen, mem, err, runAge, lag>>
  <2>1. (\A s \in Rows \ {r} : SameRow(s)) /\ (queue'[r] = queue[r] \/ queue'[r] = Failed(r))
    BY <1>1, <1>3, PatchFrame
  <2>2. RowInv(r)'
    <3>1. CASE queue'[r] = queue[r]
      BY <1>1, <1>3, <3>1 DEF RowInv
    <3>. QED
      BY <1>5, <2>1, <3>1
  <2>3. pc'[w] = "settle" /\ Others(w)
    BY <1>3, <1>7 DEF LocalTypes, Others, SameRun
  <2>4. Busy(w)' = Busy(w)
    BY <1>2, <1>7, <2>3 DEF Busy, Settling
  <2>5. queue'[r].status \in {"posting", "posted", "failed"} /\ queue'[r].age <= runAge[w]
    BY <1>2, <2>1, FreshRow
  <2>6. \A s \in todo[w] : SameRow(s) /\ mem'[w][s] = mem[w][s]
    BY <1>2, <1>3, <1>7, <2>1 DEF LocalTypes, RunInv
  <2>7. \A s \in todo'[w] : /\ queue'[s].status = "posting" /\ mem'[w][s] = Progress(s)'
                            /\ queue'[s].age <= runAge'[w]
    BY <1>3, <1>7, <2>6, KeptRows
  <2>8. RunInv(w)'
    BY <1>2, <1>3, <1>7, <2>3, <2>5, <2>7 DEF RunInv, Busy, Publishing, Settling
  <2>. QED
    BY <1>3, <1>4, <2>1, <2>2, <2>3, <2>4, <2>8, OwnRowStep
<1>. QED
  BY <1>1, <1>6, <1>7 DEF AfterFailure

LEMMA SettleInv ==
  ASSUME IInv, NEW w \in Workers, Settle(w) \/ SettleUncounted(w) \/ RequeueLost(w)
  PROVE  IInv'
<1>. PICK r : r = cur[w]
  OBVIOUS
<1>1. pc[w] = "settle" /\ UNCHANGED <<roots, copies>>
  BY DEF Settle, SettleUncounted, RequeueLost, account
<1>2. pc[w] \in Publishing \cup Settling
  BY <1>1 DEF Settling
<1>3. /\ LocalTypes /\ SharedTypes /\ RunInv(w) /\ r \in Rows /\ RowInv(r) /\ queue[r] \in Row
  BY <1>2, CurrentRow
<1>4. TypeOK'
  BY <1>3, SettleType, TypesSplit
<1>5. queue[r].attempts + 1 \in Nat \ {0} /\ 0 + 1 \in Nat \ {0}
  BY <1>3 DEF Row
<1>6. PICK q : /\ MaybePatch(r, q)
               /\ \/ q = Failed(r)
                  \/ \E a \in Nat \ {0} : a < MaxAttempts /\ q = Requeued(r, a)
  <2>1. CASE RequeueLost(w)
    BY <1>5, <2>1 DEF RequeueLost, Retryable, MaybePatch
  <2>2. CASE Settle(w) \/ SettleUncounted(w)
    <3>1. PICK prior \in {0, queue[r].attempts} : Decide(w, prior)
      BY <2>2 DEF Settle, SettleUncounted
    <3>2. prior + 1 \in Nat \ {0}
      BY <1>5, <3>1
    <3>. QED
      BY <3>1, <3>2 DEF Decide, Retryable, MaybePatch
  <2>. QED
    BY <2>1, <2>2
<1>7. AfterRow(w) \/ Exit(w)
  BY DEF Settle, SettleUncounted, RequeueLost, Decide
<1>8. queue'[r] = q => RowInv(r)'
  BY <1>1, <1>3, <1>6, SettledRow
<1>. QED
  BY <1>1, <1>2, <1>4, <1>6, <1>7, <1>8, LeaveRowInv

LEMMA NextInv == IInv /\ [Next]_vars => IInv'
<1> SUFFICES ASSUME IInv, [Next]_vars PROVE IInv'
  OBVIOUS
<1>1. CASE UNCHANGED vars
  <2>1. \A r \in Rows : SameRow(r) /\ RowInv(r)
    BY <1>1 DEF vars, table, account, SameRow, IInv
  <2>2. TypeOK' /\ UNCHANGED runs
    BY <1>1 DEF IInv, TypeOK, vars, table, account, runs
  <2>3. \A v \in Workers : Busy(v) \subseteq Rows
    BY BusyRows, TypesSplit DEF IInv
  <2>. QED
    BY <2>1, <2>2, <2>3, FrameRow, RowsStep
<1>2. CASE \E r \in Rows : WriterStep(r)
  BY <1>2, WriterInv
<1>3. CASE \E w \in Workers : StartRun(w) \/ RunStep(w) \/ RunUpset(w)
  <2>1. PICK w \in Workers : StartRun(w) \/ RunStep(w) \/ RunUpset(w)
    BY <1>3
  <2>2. CASE StartRun(w) \/ RunStep(w)
    BY <2>2, StartExitInv, ReclaimRowInv, ResumeStaleInv, ClaimInv, RootStepsInv, ReplyStepsInv,
       FinishInv, MarkFailedInv, SettleInv DEF RunStep
  <2>3. CASE RunUpset(w)
    BY <2>3, StartExitInv, ReclaimAbortsInv, SaveFailsInv, RootStepsInv, ReplyStepsInv,
       MarkFailedInv, SettleInv DEF RunUpset
  <2>. QED
    BY <2>1, <2>2, <2>3
<1>4. CASE Tick
  BY <1>4, TickInv
<1>. QED
  BY <1>1, <1>2, <1>3, <1>4 DEF Next

\* The inductive invariant holds in every reachable state: it holds initially and
\* every step of a run, a writer or the clock preserves it.
THEOREM Inductive == Spec => []IInv
<1>. QED
  BY InitInv, NextInv, PTL DEF Spec

-----------------------------------------------------------------------------
(***************************************************************************)
(* The properties that the runs check.                                     *)
(***************************************************************************)

\* Every reachable state is well typed.
THEOREM TypeCorrect == Spec => []TypeOK
<1>1. IInv => TypeOK
  BY DEF IInv
<1>. QED
  BY <1>1, Inductive, PTL

\* However many runs are alive, no two are responsible for the same row.
THEOREM MutualExclusion == Spec => []OnePublisher
<1>1. IInv => OnePublisher
  BY DEF IInv
<1>. QED
  BY <1>1, Inductive, PTL

\* While a run publishes a row nobody else changes it, so that the run's
\* unconditional writes by row id are safe.
THEOREM Ownership == Spec => []PublisherOwnsRow
<1>1. ASSUME IInv, NEW w \in Workers, pc[w] \in Publishing
      PROVE  /\ queue[cur[w]].status = "posting"
             /\ queue[cur[w]].age <= runAge[w]
             /\ queue[cur[w]].attempts = mem[w][cur[w]].attempts
             /\ queue[cur[w]].main \in {0, mem[w][cur[w]].main}
             /\ queue[cur[w]].replies <= mem[w][cur[w]].replies
  <2>1. PublishInv(w) /\ queue[cur[w]].age <= runAge[w]
    BY <1>1, CurrentRow
  <2>2. queue[cur[w]].replies \in Nat
    BY <1>1, CurrentRow, CountsAssumption DEF Row
  <2>. QED
    BY <1>1, <2>1, <2>2 DEF PublishInv, RootStage, ReplyStage, Publishing
<1>2. IInv => PublisherOwnsRow
  BY <1>1 DEF PublisherOwnsRow
<1>. QED
  BY <1>2, Inductive, PTL

\* What a row records is live.
THEOREM Checkpoints == Spec => []CheckpointIsLive
<1>1. IInv => CheckpointIsLive
  BY DEF IInv, RowInv, CheckpointIsLive
<1>. QED
  BY <1>1, Inductive, PTL

\* A posted row has its root and all its replies.
THEOREM Completeness == Spec => []PostedIsComplete
<1>1. IInv => PostedIsComplete
  BY DEF IInv, RowInv, PostedIsComplete
<1>. QED
  BY <1>1, Inductive, PTL

\* The attempt budget is never exceeded.
THEOREM BoundedRetry == Spec => []AttemptsCapped
<1>1. IInv => AttemptsCapped
  BY DEF IInv, RowInv, AttemptsCapped
<1>. QED
  BY <1>1, Inductive, PTL

\* No reply after the first is ever published twice.
THEOREM RepliesAtMostOnce == Spec => []LaterRepliesOnce
<1>1. IInv => LaterRepliesOnce
  BY DEF IInv, RowInv, LaterRepliesOnce
<1>. QED
  BY <1>1, Inductive, PTL

\* What one step may do to the progress of a row.
Kept(r) ==
  /\ queue[r].main > 0 => queue'[r].main = queue[r].main /\ roots'[r] = roots[r]
  /\ queue'[r].replies >= queue[r].replies
  /\ roots[r] > 0 /\ roots'[r] > roots[r] => queue[r].attempts = 0

LEMMA SameIsKept ==
  ASSUME LocalTypes, SharedTypes, NEW r \in Rows, SameRow(r)
  PROVE  Kept(r)
<1>1. queue[r].replies \in Nat /\ roots[r] \in Nat
  BY Reads, CountsAssumption DEF Row
<1>. QED
  BY <1>1 DEF SameRow, Kept

LEMMA WriterKeeps ==
  ASSUME IInv, NEW r \in Rows, WriterStep(r) \/ Tick
  PROVE  \A s \in Rows : Kept(s)
<1>1. LocalTypes /\ SharedTypes
  BY TypesSplit DEF IInv
<1>2. SUFFICES ASSUME NEW s \in Rows PROVE Kept(s)
  OBVIOUS
<1>3. queue[s] \in Row /\ roots[s] \in Nat /\ queue[s].replies \in Nat
  BY <1>1, Reads, CountsAssumption DEF Row
<1>4. UNCHANGED <<roots, copies>>
  BY DEF WriterStep, EnqueueDraft, EnqueueApproved, PromoteDraft, RescheduleRead,
         RescheduleWrite, ManualRequeue, Tick, account
<1>5. queue'[s].main = queue[s].main /\ queue'[s].replies = queue[s].replies
  <2>1. CASE Tick
    <3>1. queue'[s] = [queue[s] EXCEPT !.backoff = Countdown(@), !.wait = Countdown(@),
                         !.age = IF queue[s].status = "posting" THEN Older(@, MaxAge) ELSE @]
      BY <2>1 DEF Tick
    <3>. QED
      BY <1>3, <3>1 DEF Row
  <2>2. CASE \E d \in Delays : EnqueueDraft(r, d) \/ EnqueueApproved(r, d) \/ PromoteDraft(r, d)
    <3>1. PICK x, y : Patch(r, [queue[r] EXCEPT !.status = x, !.wait = y])
      BY <2>2 DEF EnqueueDraft, EnqueueApproved, PromoteDraft
    <3>2. \/ queue'[s] = queue[s]
          \/ queue'[s] = [queue[s] EXCEPT !.status = x, !.wait = y]
      BY <1>1, <3>1 DEF Patch, SharedTypes
    <3>. QED
      BY <1>3, <3>2 DEF Row
  <2>3. CASE ManualRequeue(r) \/ \E d \in MoveTo : RescheduleWrite(r, d)
    <3>1. PICK x : \/ Patch(r, [queue[r] EXCEPT !.status = x])
                   \/ Patch(r, [queue[r] EXCEPT !.wait = x])
      BY <2>3 DEF ManualRequeue, RescheduleWrite
    <3>2. \/ queue'[s] = queue[s]
          \/ queue'[s] = [queue[s] EXCEPT !.status = x]
          \/ queue'[s] = [queue[s] EXCEPT !.wait = x]
      BY <1>1, <3>1 DEF Patch, SharedTypes
    <3>. QED
      BY <1>3, <3>2 DEF Row
  <2>4. CASE \E d \in MoveTo : RescheduleRead(r, d)
    BY <2>4 DEF RescheduleRead
  <2>. QED
    BY <2>1, <2>2, <2>3, <2>4 DEF WriterStep
<1>. QED
  BY <1>3, <1>4, <1>5 DEF Kept

LEMMA ReclaimKeeps ==
  ASSUME IInv, NEW w \in Workers,
         \/ StartRun(w) \/ Crash(w) \/ ListStale(w) \/ ReclaimAborts(w)
         \/ \E r \in Rows : ReclaimRow(w, r)
         \/ \E r \in Rows : ResumeStale(w, r)
         \/ Peek(w) \/ Claim(w)
  PROVE  \A s \in Rows : Kept(s)
<1>1. LocalTypes /\ SharedTypes
  BY TypesSplit DEF IInv
<1>2. SUFFICES ASSUME NEW s \in Rows PROVE Kept(s)
  OBVIOUS
<1>3. queue[s] \in Row /\ roots[s] \in Nat /\ queue[s].replies \in Nat /\ cur[w] \in Rows
  BY <1>1, Reads, CountsAssumption DEF Row
<1>4. UNCHANGED <<roots, copies>>
  BY DEF StartRun, Crash, ListStale, ReclaimAborts, ReclaimRow, ResumeStale, Peek, Claim,
         table, account
<1>5. \/ UNCHANGED queue
      \/ \E r : Patch(r, [queue[r] EXCEPT !.age = lag[w]])
      \/ Patch(cur[w], [queue[cur[w]] EXCEPT !.status = "posting", !.age = lag[w]])
  BY DEF StartRun, Crash, ListStale, ReclaimAborts, ReclaimRow, ResumeStale, Peek, Claim, table
<1>6. \/ queue'[s] = queue[s]
      \/ queue'[s] = [queue[s] EXCEPT !.age = lag[w]]
      \/ queue'[s] = [queue[s] EXCEPT !.status = "posting", !.age = lag[w]]
  BY <1>1, <1>5 DEF Patch, SharedTypes
<1>7. queue'[s].main = queue[s].main /\ queue'[s].replies = queue[s].replies
  BY <1>3, <1>6 DEF Row
<1>. QED
  BY <1>3, <1>4, <1>7 DEF Kept

LEMMA PublishKeeps ==
  ASSUME IInv, NEW w \in Workers,
         \/ ScanFeed(w) \/ ScanFails(w) \/ PublishRoot(w) \/ PublishRootFails(w)
         \/ SaveRoot(w) \/ SaveRootFails(w) \/ Verify(w) \/ VerifyBlind(w) \/ VerifyFails(w)
         \/ Gate(w) \/ GateBlind(w) \/ PublishReply(w) \/ PublishReplyFails(w)
         \/ SaveReply(w) \/ SaveReplyFails(w) \/ Finish(w) \/ FinishFails(w)
  PROVE  \A s \in Rows : Kept(s)
<1>. PICK r : r = cur[w]
  OBVIOUS
<1>. DEFINE m == mem[w][r]
<1>1. pc[w] \in Publishing
  BY DEF ScanFeed, ScanFails, PublishRoot, PublishRootFails, SaveRoot, SaveRootFails, Verify,
     VerifyBlind, VerifyFails, Gate, GateBlind, PublishReply, PublishReplyFails, SaveReply,
     SaveReplyFails, Finish, FinishFails, Publishing
<1>2. /\ LocalTypes /\ SharedTypes /\ r \in Rows /\ queue[r] \in Row /\ m \in Memory
      /\ roots[r] \in Nat /\ PublishInv(w)
  BY <1>1, CurrentRow
<1>3. /\ queue[r].main \in Nat /\ m.replies \in Nat /\ queue[r].replies \in Nat
  BY <1>2, CountsAssumption DEF Row, Memory
<1>4. CASE PublishRoot(w) \/ PublishRootFails(w)
  <2>1. /\ pc[w] = "root" /\ UNCHANGED <<queue, copies>>
        /\ UNCHANGED roots \/ roots' = [roots EXCEPT ![r] = @ + 1]
    BY <1>4 DEF PublishRoot, PublishRootFails
  <2>2. queue[r].main = 0 /\ (roots[r] = 0 \/ queue[r].attempts = 0)
    BY <1>2, <2>1 DEF PublishInv, RootStage
  <2>3. Kept(r)
    BY <1>3, <2>1, <2>2 DEF Kept
  <2>4. \A s \in Rows \ {r} : SameRow(s)
    BY <1>2, <2>1 DEF SameRow, SharedTypes
  <2>. QED
    BY <1>2, <2>3, <2>4, SameIsKept
<1>5. CASE ~(PublishRoot(w) \/ PublishRootFails(w))
  <2>1. UNCHANGED roots
    BY <1>5 DEF ScanFeed, ScanFails, SaveRoot, SaveRootFails, Verify,
       VerifyBlind, VerifyFails, Gate, GateBlind, PublishReply, PublishReplyFails, SaveReply,
       SaveReplyFails, Finish, FinishFails, account
  <2>2. PICK q : /\ MaybePatch(r, q)
                 /\ \/ q = queue[r]
                    \/ pc[w] = "saveRoot" /\ q = RootSaved(w)
                    \/ pc[w] \in {"verify", "saveReply"} /\ q = RepliesSaved(w)
                    \/ pc[w] = "finish" /\ q = Posted(w)
    <3>1. CASE ScanFeed(w) \/ ScanFails(w) \/ VerifyBlind(w) \/ Gate(w) \/ GateBlind(w)
               \/ PublishReply(w) \/ PublishReplyFails(w)
      BY <3>1 DEF ScanFeed, ScanFails, VerifyBlind, Gate, GateBlind, PublishReply,
         PublishReplyFails, MaybePatch, table
    <3>2. CASE SaveRoot(w) \/ SaveRootFails(w) \/ Verify(w) \/ VerifyFails(w)
               \/ SaveReply(w) \/ SaveReplyFails(w) \/ Finish(w) \/ FinishFails(w)
      BY <3>2 DEF SaveRoot, SaveRootFails, Verify, VerifyFails, SaveReply, SaveReplyFails,
         Finish, FinishFails, MaybePatch
    <3>. QED
      BY <1>5, <3>1, <3>2
  <2>3. \A s \in Rows \ {r} : queue'[s] = queue[s]
    BY <1>2, <2>2 DEF MaybePatch, Patch, SharedTypes
  <2>4. queue'[r] = queue[r] \/ queue'[r] = q
    BY <1>2, <2>2 DEF MaybePatch, Patch, SharedTypes
  <2>5. /\ queue[r].main > 0 => queue'[r].main = queue[r].main
        /\ queue'[r].replies >= queue[r].replies
    <3>1. CASE queue'[r] = queue[r]
      BY <1>3, <3>1
    <3>2. CASE pc[w] = "saveRoot" /\ queue'[r] = RootSaved(w)
      <4>1. queue[r].main = 0 /\ RootSaved(w).replies = queue[r].replies
        BY <1>2, <3>2 DEF PublishInv, RootStage, RootSaved, Row
      <4>. QED
        BY <1>3, <3>2, <4>1
    <3>3. CASE pc[w] \in {"verify", "saveReply", "finish"} /\ queue'[r] \in {RepliesSaved(w), Posted(w)}
      <4>1. m.replies >= queue[r].replies
        BY <1>2, <1>3, <3>3 DEF PublishInv, ReplyStage
      <4>2. RepliesSaved(w).main = queue[r].main /\ RepliesSaved(w).replies = m.replies
        BY <1>2 DEF RepliesSaved, Row
      <4>3. Posted(w).main = RepliesSaved(w).main /\ Posted(w).replies = RepliesSaved(w).replies
        <5>1. RepliesSaved(w) \in Row
          BY <1>2, WrittenRows
        <5>. QED
          BY <5>1 DEF Posted, Row
      <4>. QED
        BY <1>3, <3>3, <4>1, <4>2, <4>3
    <3>. QED
      BY <2>2, <2>4, <3>1, <3>2, <3>3
  <2>6. \A s \in Rows : roots[s] \in Nat /\ queue[s].replies \in Nat
    BY <1>2, Reads, CountsAssumption DEF Row
  <2>. QED
    BY <1>2, <2>1, <2>3, <2>5, <2>6 DEF Kept
<1>. QED
  BY <1>4, <1>5

LEMMA SettleKeeps ==
  ASSUME IInv, NEW w \in Workers,
         MarkFailed(w) \/ MarkFailedLost(w) \/ Settle(w) \/ SettleUncounted(w) \/ RequeueLost(w)
  PROVE  \A s \in Rows : Kept(s)
<1>. PICK r : r = cur[w]
  OBVIOUS
<1>1. LocalTypes /\ SharedTypes /\ r \in Rows
  BY TypesSplit, Reads DEF IInv
<1>2. UNCHANGED <<roots, copies>>
  BY DEF MarkFailed, MarkFailedLost, Settle, SettleUncounted, RequeueLost, account
<1>3. \E q : MaybePatch(r, q) /\ (q = Failed(r) \/ \E a : q = Requeued(r, a))
  BY DEF MarkFailed, MarkFailedLost, Settle, SettleUncounted, RequeueLost, Decide, MaybePatch
<1>4. SUFFICES ASSUME NEW s \in Rows PROVE Kept(s)
  OBVIOUS
<1>5. \/ queue'[s] = queue[s]
      \/ queue'[s] = Failed(s)
      \/ \E a : queue'[s] = Requeued(s, a)
  BY <1>1, <1>3 DEF MaybePatch, Patch, SharedTypes
<1>6. queue[s] \in Row /\ roots[s] \in Nat /\ queue[s].replies \in Nat
  BY <1>1, Reads, CountsAssumption DEF Row
<1>7. queue'[s].main = queue[s].main /\ queue'[s].replies = queue[s].replies
  BY <1>5, <1>6 DEF Failed, Requeued, Row
<1>. QED
  BY <1>2, <1>6, <1>7 DEF Kept

LEMMA NextKeeps == IInv /\ [Next]_vars => \A r \in Rows : Kept(r)
<1> SUFFICES ASSUME IInv, [Next]_vars PROVE \A r \in Rows : Kept(r)
  OBVIOUS
<1>1. CASE UNCHANGED vars
  <2>1. \A r \in Rows : SameRow(r)
    BY <1>1 DEF vars, table, account, SameRow
  <2>. QED
    BY <2>1, SameIsKept, TypesSplit DEF IInv
<1>2. CASE (\E r \in Rows : WriterStep(r)) \/ Tick
  BY <1>2, WriterKeeps, CountsAssumption
<1>3. CASE \E w \in Workers : StartRun(w) \/ RunStep(w) \/ RunUpset(w)
  BY <1>3, ReclaimKeeps, PublishKeeps, SettleKeeps DEF RunStep, RunUpset
<1>. QED
  BY <1>1, <1>2, <1>3 DEF Next

\* Once a root id is saved, it stays and no other root is created.
THEOREM RootOnce == Spec => RootNeverRecreated
<1>1. IInv /\ [Next]_vars =>
        [\A r \in Rows : queue[r].main > 0 =>
           queue'[r].main = queue[r].main /\ roots'[r] = roots[r]]_<<queue, roots>>
  BY NextKeeps DEF Kept
<1>. QED
  BY <1>1, Inductive, PTL DEF Spec, RootNeverRecreated

\* Recorded replies are never forgotten.
THEOREM Monotone == Spec => ProgressNeverLost
<1>1. IInv /\ [Next]_vars => [\A r \in Rows : queue'[r].replies >= queue[r].replies]_queue
  BY NextKeeps DEF Kept
<1>. QED
  BY <1>1, Inductive, PTL DEF Spec, ProgressNeverLost

\* A second root needs a row that no attempt was counted for.
THEOREM SecondRoot == Spec => SecondRootOnlyUncounted
<1>1. IInv /\ [Next]_vars =>
        [\A r \in Rows : roots[r] > 0 /\ roots'[r] > roots[r] => queue[r].attempts = 0]_roots
  BY NextKeeps DEF Kept
<1>. QED
  BY <1>1, Inductive, PTL DEF Spec, SecondRootOnlyUncounted

-----------------------------------------------------------------------------
(***************************************************************************)
(* The refinement: what a step of the queue is to ThreadPromise.           *)
(***************************************************************************)

SameAccount(r) == roots'[r] = roots[r] /\ copies'[r] = copies[r]
SameRecord(r) == queue'[r].main = queue[r].main /\ queue'[r].replies = queue[r].replies
SameStatus(r) == queue'[r].status = queue[r].status
SameView(r) == SameStatus(r) /\ SameRecord(r) /\ SameAccount(r)

PostsRoot(r) ==
  /\ SameStatus(r) /\ SameRecord(r)
  /\ queue[r].status = "posting" /\ queue[r].main = 0
  /\ roots'[r] = roots[r] + 1 /\ copies'[r] = copies[r]

PostsReply(r) ==
  LET i == queue[r].replies + 1 IN
  /\ SameStatus(r) /\ SameRecord(r)
  /\ queue[r].status = "posting" /\ queue[r].main > 0 /\ queue[r].replies < Replies
  /\ copies[r][i] = 0 \/ queue[r].replies = 0
  /\ roots'[r] = roots[r] /\ copies'[r] = [copies[r] EXCEPT ![i] = @ + 1]

RecordsRoot(r) ==
  /\ SameStatus(r) /\ SameAccount(r)
  /\ queue[r].status = "posting" /\ queue[r].main = 0 /\ roots[r] > 0
  /\ queue'[r].main > 0 /\ queue'[r].replies = 0

RecordsReply(r) ==
  LET i == queue[r].replies + 1 IN
  /\ SameStatus(r) /\ SameAccount(r)
  /\ queue[r].status = "posting" /\ queue[r].main > 0 /\ queue[r].replies < Replies
  /\ copies[r][i] > 0
  /\ queue'[r].main = queue[r].main /\ queue'[r].replies = i

Completes(r) ==
  /\ SameRecord(r) /\ SameAccount(r)
  /\ queue[r].status = "posting" /\ queue[r].main > 0 /\ queue[r].replies = Replies
  /\ queue'[r].status = "posted"

Moved(r) ==
  /\ SameRecord(r) /\ SameAccount(r)
  /\ queue'[r].status \in {"draft", "approved", "posting", "failed"}
  /\ <<queue[r].status, queue'[r].status>> \in Thread!Moves

Turn(r) ==
  \/ SameView(r) \/ PostsRoot(r) \/ PostsReply(r) \/ RecordsRoot(r) \/ RecordsReply(r)
  \/ Completes(r) \/ Moved(r)

\* A step that turns one row and leaves the others is a step of ThreadPromise.
LEMMA OneTurn ==
  ASSUME SharedTypes, NEW r \in Rows, Turn(r), \A s \in Rows \ {r} : SameView(s)
  PROVE  [Thread!TNext]_(Thread!tvars)
<1>. DEFINE A == [s \in Rows |-> queue[s].status]
            B == [s \in Rows |-> Live(s)]
            C == [s \in Rows |-> Saved(s)]
<1>1. /\ queue[r] \in Row /\ roots[r] \in Nat /\ copies[r] \in [1..Replies -> Nat]
      /\ queue[r].replies \in 0..Replies /\ queue[r].main \in Nat /\ Replies \in Nat
  BY CountsAssumption DEF SharedTypes, Row
<1>2. ASSUME NEW s \in Rows, SameAccount(s)
      PROVE  Live(s)' = Live(s)
  BY <1>2 DEF SameAccount, Live
<1>3. ASSUME NEW s \in Rows, SameRecord(s)
      PROVE  Saved(s)' = Saved(s)
  BY <1>3 DEF SameRecord, Saved
<1>4. \A s \in Rows \ {r} : /\ queue'[s].status = queue[s].status
                            /\ Live(s)' = Live(s) /\ Saved(s)' = Saved(s)
  BY <1>2, <1>3 DEF SameView, SameStatus
<1>5. A' = [A EXCEPT ![r] = queue'[r].status]
  BY <1>4
<1>6. B' = [B EXCEPT ![r] = Live(r)']
  BY <1>4
<1>7. C' = [C EXCEPT ![r] = Saved(r)']
  BY <1>4
<1>8. /\ SameStatus(r) => A' = A
      /\ SameAccount(r) => B' = B
      /\ SameRecord(r) => C' = C
  BY <1>2, <1>3, <1>5, <1>6, <1>7 DEF SameStatus
<1>9. CASE SameView(r)
  BY <1>8, <1>9 DEF SameView, Thread!tvars
<1>10. ASSUME SameStatus(r), SameRecord(r), queue[r].status = "posting",
              Saved(r) \in Thread!Slots,
              Live(r)[Saved(r)] = 0 \/ Saved(r) \in Thread!PostedTwice,
              Live(r)' = [Live(r) EXCEPT ![Saved(r)] = @ + 1]
       PROVE  Thread!Post(r)
  BY <1>6, <1>8, <1>10 DEF Thread!Post
<1>11. ASSUME SameStatus(r), SameAccount(r), queue[r].status = "posting",
              Saved(r) \in Thread!Slots, Live(r)[Saved(r)] > 0, Saved(r)' = Saved(r) + 1
       PROVE  Thread!Record(r)
  BY <1>7, <1>8, <1>11 DEF Thread!Record
<1>12. CASE PostsRoot(r)
  <2>1. Saved(r) = 0 /\ Live(r)[0] = roots[r]
    BY <1>1, <1>12 DEF PostsRoot, Saved, Live
  <2>2. Live(r)' = [Live(r) EXCEPT ![0] = @ + 1]
    BY <1>1, <1>12 DEF PostsRoot, Live
  <2>. QED
    BY <1>1, <1>10, <1>12, <2>1, <2>2 DEF PostsRoot, Thread!Slots, Thread!PostedTwice, Thread!TNext
<1>13. CASE PostsReply(r)
  <2>. DEFINE i == queue[r].replies + 1
  <2>1. Saved(r) = i /\ i \in 1..Replies /\ Live(r)[i] = copies[r][i]
    BY <1>1, <1>13 DEF PostsReply, Saved, Live
  <2>2. Live(r)' = [Live(r) EXCEPT ![i] = @ + 1]
    <3>1. /\ Live(r) = [k \in 0..Replies |-> IF k = 0 THEN roots[r] ELSE copies[r][k]]
          /\ Live(r)' = [k \in 0..Replies |-> IF k = 0 THEN roots[r] ELSE copies'[r][k]]
      BY <1>13 DEF PostsReply, Live
    <3>2. \A k \in 1..Replies :
            copies'[r][k] = IF k = i THEN copies[r][k] + 1 ELSE copies[r][k]
      BY <1>1, <1>13 DEF PostsReply
    <3>3. [Live(r) EXCEPT ![i] = @ + 1] =
            [k \in 0..Replies |-> IF k = i THEN Live(r)[k] + 1 ELSE Live(r)[k]]
      BY <3>1
    <3>4. ASSUME NEW k \in 0..Replies
          PROVE  (IF k = 0 THEN roots[r] ELSE copies'[r][k]) =
                 (IF k = i THEN Live(r)[k] + 1 ELSE Live(r)[k])
      BY <1>1, <2>1, <3>1, <3>2
    <3>. QED
      BY <3>1, <3>3, <3>4
  <2>3. copies[r][i] = 0 \/ i = 1
    BY <1>13, <1>1 DEF PostsReply
  <2>4. i \in Thread!Slots /\ (Live(r)[i] = 0 \/ i \in Thread!PostedTwice)
    BY <1>1, <2>1, <2>3 DEF Thread!Slots, Thread!PostedTwice
  <2>. QED
    BY <1>10, <1>13, <2>1, <2>2, <2>4 DEF PostsReply, Thread!TNext
<1>14. CASE RecordsRoot(r)
  <2>1. Saved(r) = 0 /\ Live(r)[0] = roots[r] /\ Saved(r)' = 1
    BY <1>1, <1>14 DEF RecordsRoot, Saved, Live
  <2>2. 0 \in Thread!Slots
    BY <1>1 DEF Thread!Slots
  <2>3. Thread!Record(r)
    BY <1>11, <1>14, <2>1, <2>2 DEF RecordsRoot
  <2>. QED
    BY <2>3 DEF Thread!TNext
<1>15. CASE RecordsReply(r)
  <2>. DEFINE i == queue[r].replies + 1
  <2>1. Saved(r) = i /\ i \in 1..Replies /\ Live(r)[i] = copies[r][i] /\ Saved(r)' = i + 1
    <3>1. i \in 1..Replies
      BY <1>1, <1>15 DEF RecordsReply
    <3>2. Saved(r) = i /\ Saved(r)' = i + 1
      BY <1>1, <1>15 DEF RecordsReply, Saved
    <3>3. Live(r)[i] = copies[r][i]
      BY <1>1, <3>1 DEF Live
    <3>. QED
      BY <3>1, <3>2, <3>3
  <2>2. i \in Thread!Slots
    BY <2>1 DEF Thread!Slots
  <2>3. Thread!Record(r)
    BY <1>1, <1>11, <1>15, <2>1, <2>2 DEF RecordsReply
  <2>. QED
    BY <2>3 DEF Thread!TNext
<1>16. CASE Completes(r)
  <2>1. Saved(r) = Replies + 1
    BY <1>1, <1>16 DEF Completes, Saved
  <2>2. Thread!Complete(r)
    BY <1>5, <1>8, <1>16, <2>1 DEF Completes, Thread!Complete
  <2>. QED
    BY <2>2 DEF Thread!TNext
<1>17. CASE Moved(r)
  <2>1. PICK to \in {"draft", "approved", "posting", "failed"} : to = queue'[r].status
    BY <1>17 DEF Moved
  <2>2. Thread!Move(r, to)
    BY <1>5, <1>8, <1>17, <2>1 DEF Moved, Thread!Move
  <2>. QED
    BY <2>2 DEF Thread!TNext
<1>. QED
  BY <1>9, <1>12, <1>13, <1>14, <1>15, <1>16, <1>17 DEF Turn

OneTurns == \E r \in Rows : Turn(r) /\ \A s \in Rows \ {r} : SameView(s)

LEMMA QuietTurn == (\A s \in Rows : SameView(s)) => OneTurns
  BY CountsAssumption DEF OneTurns, Turn

\* A write of one row that leaves the account alone.
LEMMA PatchTurn ==
  ASSUME SharedTypes, NEW r \in Rows, NEW q, MaybePatch(r, q), UNCHANGED <<roots, copies>>
  PROVE  /\ \A s \in Rows \ {r} : SameView(s)
         /\ SameView(r) \/ queue'[r] = q
         /\ SameAccount(r)
BY DEF SharedTypes, MaybePatch, Patch, SameView, SameStatus, SameRecord, SameAccount

LEMMA WriterTurns ==
  ASSUME IInv, NEW r \in Rows, WriterStep(r) \/ Tick
  PROVE  OneTurns
<1>1. SharedTypes /\ \A s \in Rows : queue[s] \in Row
  BY TypesSplit DEF IInv, SharedTypes
<1>2. UNCHANGED <<roots, copies>>
  BY DEF WriterStep, EnqueueDraft, EnqueueApproved, PromoteDraft, RescheduleRead,
         RescheduleWrite, ManualRequeue, Tick, account
<1>3. CASE Tick
  <2>1. ASSUME NEW s \in Rows PROVE SameView(s)
    <3>1. queue'[s] = [queue[s] EXCEPT !.backoff = Countdown(@), !.wait = Countdown(@),
                         !.age = IF queue[s].status = "posting" THEN Older(@, MaxAge) ELSE @]
      BY <1>3 DEF Tick
    <3>. QED
      BY <1>1, <1>2, <3>1 DEF Row, SameView, SameStatus, SameRecord, SameAccount
  <2>. QED
    BY <2>1, QuietTurn
<1>4. ASSUME NEW x, NEW y, Patch(r, [queue[r] EXCEPT !.status = x, !.wait = y]),
             <<queue[r].status, x>> \in Thread!Moves, x \in {"draft", "approved"}
      PROVE  OneTurns
  <2>1. (\A s \in Rows \ {r} : SameView(s)) /\ SameAccount(r)
    BY <1>1, <1>2, <1>4, PatchTurn DEF MaybePatch
  <2>2. queue'[r] = [queue[r] EXCEPT !.status = x, !.wait = y]
    BY <1>1, <1>4 DEF Patch, SharedTypes
  <2>3. queue'[r].status = x /\ SameRecord(r)
    BY <1>1, <2>2 DEF Row, SameRecord
  <2>. QED
    BY <1>4, <2>1, <2>3 DEF OneTurns, Turn, Moved
<1>5. CASE \E d \in Delays : EnqueueDraft(r, d) \/ EnqueueApproved(r, d) \/ PromoteDraft(r, d)
  BY <1>4, <1>5 DEF EnqueueDraft, EnqueueApproved, PromoteDraft, Thread!Moves
<1>6. CASE ManualRequeue(r)
  <2>1. queue[r].wait = queue[r].wait /\ queue[r].status = "failed"
    BY <1>6 DEF ManualRequeue
  <2>2. [queue[r] EXCEPT !.status = "approved"]
          = [queue[r] EXCEPT !.status = "approved", !.wait = queue[r].wait]
    BY <1>1 DEF Row
  <2>. QED
    BY <1>4, <1>6, <2>1, <2>2 DEF ManualRequeue, Thread!Moves
<1>7. CASE \E d \in MoveTo : RescheduleWrite(r, d)
  <2>1. PICK d : Patch(r, [queue[r] EXCEPT !.wait = d])
    BY <1>7 DEF RescheduleWrite
  <2>2. queue'[r] = [queue[r] EXCEPT !.wait = d]
    BY <1>1, <2>1 DEF Patch, SharedTypes
  <2>3. SameView(r)
    BY <1>1, <1>2, <2>2 DEF Row, SameView, SameStatus, SameRecord, SameAccount
  <2>. QED
    BY <1>1, <1>2, <2>1, <2>3, PatchTurn, QuietTurn DEF MaybePatch
<1>8. CASE \E d \in MoveTo : RescheduleRead(r, d)
  BY <1>2, <1>8, QuietTurn DEF RescheduleRead, SameView, SameStatus, SameRecord, SameAccount
<1>. QED
  BY <1>3, <1>5, <1>6, <1>7, <1>8 DEF WriterStep

LEMMA ReclaimTurns ==
  ASSUME IInv, NEW w \in Workers,
         \/ StartRun(w) \/ Crash(w) \/ ListStale(w) \/ ReclaimAborts(w)
         \/ \E r \in Rows : ReclaimRow(w, r)
         \/ \E r \in Rows : ResumeStale(w, r)
         \/ Peek(w) \/ Claim(w)
  PROVE  OneTurns
<1>1. /\ SharedTypes /\ cur[w] \in Rows /\ cand[w] \subseteq Rows
      /\ \A s \in Rows : queue[s] \in Row
  BY TypesSplit DEF IInv, SharedTypes, LocalTypes
<1>2. UNCHANGED <<roots, copies>>
  BY DEF StartRun, Crash, ListStale, ReclaimAborts, ReclaimRow, ResumeStale, Peek, Claim,
         table, account
<1>3. CASE UNCHANGED queue
  BY <1>2, <1>3, QuietTurn DEF SameView, SameStatus, SameRecord, SameAccount
<1>4. CASE \E r \in Rows : Patch(r, [queue[r] EXCEPT !.age = lag[w]])
  <2>1. PICK r \in Rows : Patch(r, [queue[r] EXCEPT !.age = lag[w]])
    BY <1>4
  <2>2. queue'[r] = [queue[r] EXCEPT !.age = lag[w]]
    BY <1>1, <2>1 DEF Patch, SharedTypes
  <2>3. SameView(r)
    BY <1>1, <1>2, <2>2 DEF Row, SameView, SameStatus, SameRecord, SameAccount
  <2>. QED
    BY <1>1, <1>2, <2>1, <2>3, PatchTurn, QuietTurn DEF MaybePatch
<1>5. CASE queue[cur[w]].status = "approved"
           /\ Patch(cur[w], [queue[cur[w]] EXCEPT !.status = "posting", !.age = lag[w]])
  <2>1. PICK r \in Rows : r = cur[w]
    BY <1>1
  <2>2. queue'[r] = [queue[r] EXCEPT !.status = "posting", !.age = lag[w]]
    BY <1>1, <1>5, <2>1 DEF Patch, SharedTypes
  <2>3. queue'[r].status = "posting" /\ SameRecord(r)
    BY <1>1, <2>2 DEF Row, SameRecord
  <2>4. (\A s \in Rows \ {r} : SameView(s)) /\ SameAccount(r)
    BY <1>1, <1>2, <1>5, <2>1, PatchTurn DEF MaybePatch
  <2>5. Moved(r)
    BY <1>5, <2>1, <2>3, <2>4 DEF Moved, Thread!Moves
  <2>. QED
    BY <2>4, <2>5 DEF OneTurns, Turn
<1>. QED
  BY <1>1, <1>3, <1>4, <1>5 DEF StartRun, Crash, ListStale, ReclaimAborts, ReclaimRow,
     ResumeStale, Peek, Claim, table

LEMMA SettleTurns ==
  ASSUME IInv, NEW w \in Workers,
         MarkFailed(w) \/ MarkFailedLost(w) \/ Settle(w) \/ SettleUncounted(w) \/ RequeueLost(w)
  PROVE  OneTurns
<1>. PICK r : r = cur[w]
  OBVIOUS
<1>1. pc[w] \in Settling
  BY DEF MarkFailed, MarkFailedLost, Settle, SettleUncounted, RequeueLost, Settling
<1>2. /\ SharedTypes /\ r \in Rows /\ queue[r] \in Row
      /\ queue[r].status \in {"posting", "posted", "failed"}
  BY <1>1, CurrentRow
<1>3. UNCHANGED <<roots, copies>>
  BY DEF MarkFailed, MarkFailedLost, Settle, SettleUncounted, RequeueLost, account
<1>4. PICK q : /\ MaybePatch(r, q)
               /\ q = Failed(r) \/ (CanRequeue(r) /\ \E a : q = Requeued(r, a))
  BY DEF MarkFailed, MarkFailedLost, Settle, SettleUncounted, RequeueLost, Decide, MaybePatch
<1>5. /\ \A s \in Rows \ {r} : SameView(s)
      /\ SameView(r) \/ queue'[r] = q
      /\ SameAccount(r)
  BY <1>2, <1>3, <1>4, PatchTurn
<1>6. CASE queue'[r] = Failed(r)
  <2>1. queue'[r].status = "failed" /\ SameRecord(r)
    BY <1>2, <1>6 DEF Failed, Row, SameRecord
  <2>2. SameView(r) \/ Moved(r)
    BY <1>2, <1>5, <2>1 DEF Moved, Thread!Moves, SameView, SameStatus
  <2>. QED
    BY <1>2, <1>5, <2>2 DEF OneTurns, Turn
<1>7. CASE CanRequeue(r) /\ \E a : queue'[r] = Requeued(r, a)
  <2>1. queue'[r].status = "approved" /\ SameRecord(r)
    BY <1>2, <1>7 DEF Requeued, Row, SameRecord
  <2>2. Moved(r)
    BY <1>5, <1>7, <2>1 DEF Moved, CanRequeue, Thread!Moves
  <2>. QED
    BY <1>2, <1>5, <2>2 DEF OneTurns, Turn
<1>. QED
  BY <1>2, <1>4, <1>5, <1>6, <1>7 DEF OneTurns, Turn

\* A run posts the first slot that its row has no record of.
LEMMA PostTurns ==
  ASSUME IInv, NEW w \in Workers,
         PublishRoot(w) \/ PublishRootFails(w) \/ PublishReply(w) \/ PublishReplyFails(w)
  PROVE  OneTurns
<1>. PICK r : r = cur[w]
  OBVIOUS
<1>. DEFINE m == mem[w][r]
<1>1. pc[w] \in {"root", "reply"} /\ pc[w] \in Publishing
  BY DEF PublishRoot, PublishRootFails, PublishReply, PublishReplyFails, Publishing
<1>2. /\ SharedTypes /\ r \in Rows /\ queue[r] \in Row /\ m \in Memory
      /\ roots[r] \in Nat /\ copies[r] \in [1..Replies -> Nat] /\ PublishInv(w)
  BY <1>1, CurrentRow
<1>3. UNCHANGED queue /\ \A s \in Rows : SameStatus(s) /\ SameRecord(s)
  BY DEF PublishRoot, PublishRootFails, PublishReply, PublishReplyFails, SameStatus, SameRecord
<1>4. CASE UNCHANGED <<roots, copies>>
  BY <1>3, <1>4, QuietTurn DEF SameView, SameAccount
<1>5. CASE pc[w] = "root" /\ UNCHANGED copies /\ roots' = [roots EXCEPT ![r] = @ + 1]
  <2>1. queue[r].status = "posting" /\ queue[r].main = 0
    BY <1>2, <1>5 DEF PublishInv, RootStage
  <2>2. PostsRoot(r) /\ \A s \in Rows \ {r} : SameView(s)
    BY <1>2, <1>3, <1>5, <2>1 DEF PostsRoot, SameView, SameAccount, SharedTypes
  <2>. QED
    BY <1>2, <2>2 DEF OneTurns, Turn
<1>6. CASE pc[w] = "reply" /\ UNCHANGED roots
           /\ copies' = [copies EXCEPT ![r][m.replies + 1] = @ + 1]
  <2>1. /\ queue[r].status = "posting" /\ queue[r].main > 0
        /\ m.replies = queue[r].replies /\ m.replies < Replies
        /\ m.replies > 0 => copies[r][m.replies + 1] = 0
    BY <1>2, <1>6 DEF PublishInv, ReplyStage
  <2>2. m.replies \in Nat
    BY <1>2, CountsAssumption DEF Memory
  <2>3. copies'[r] = [copies[r] EXCEPT ![m.replies + 1] = @ + 1]
        /\ \A s \in Rows \ {r} : copies'[s] = copies[s]
    BY <1>2, <1>6 DEF SharedTypes
  <2>4. copies[r][queue[r].replies + 1] = 0 \/ queue[r].replies = 0
    BY <2>1, <2>2
  <2>5. copies'[r] = [copies[r] EXCEPT ![queue[r].replies + 1] = @ + 1] /\ roots'[r] = roots[r]
    BY <1>6, <2>1, <2>3
  <2>6. PostsReply(r)
    BY <1>2, <1>3, <2>1, <2>4, <2>5, Zenon DEF PostsReply
  <2>7. \A s \in Rows \ {r} : SameView(s)
    BY <1>3, <1>6, <2>3 DEF SameView, SameAccount
  <2>. QED
    BY <1>2, <2>6, <2>7 DEF OneTurns, Turn
<1>. QED
  BY <1>4, <1>5, <1>6 DEF PublishRoot, PublishRootFails, PublishReply, PublishReplyFails

\* A run records the slot that it posted or adopted, and completes the row when
\* none is left.
LEMMA SaveTurns ==
  ASSUME IInv, NEW w \in Workers,
         \/ ScanFeed(w) \/ ScanFails(w) \/ VerifyBlind(w) \/ Gate(w) \/ GateBlind(w)
         \/ SaveRoot(w) \/ SaveRootFails(w) \/ Verify(w) \/ VerifyFails(w)
         \/ SaveReply(w) \/ SaveReplyFails(w) \/ Finish(w) \/ FinishFails(w)
  PROVE  OneTurns
<1>. PICK r : r = cur[w]
  OBVIOUS
<1>. DEFINE m == mem[w][r]
<1>1. pc[w] \in Publishing
  BY DEF ScanFeed, ScanFails, VerifyBlind, Gate, GateBlind, SaveRoot, SaveRootFails, Verify,
     VerifyFails, SaveReply, SaveReplyFails, Finish, FinishFails, Publishing
<1>2. /\ SharedTypes /\ r \in Rows /\ queue[r] \in Row /\ m \in Memory /\ PublishInv(w)
      /\ queue[r].status = "posting"
  BY <1>1, CurrentRow DEF PublishInv
<1>3. UNCHANGED <<roots, copies>>
  BY DEF ScanFeed, ScanFails, VerifyBlind, Gate, GateBlind, SaveRoot, SaveRootFails, Verify,
     VerifyFails, SaveReply, SaveReplyFails, Finish, FinishFails, account, table
<1>4. PICK q : /\ MaybePatch(r, q)
               /\ \/ q = queue[r]
                  \/ pc[w] = "saveRoot" /\ q = RootSaved(w)
                  \/ pc[w] \in {"verify", "saveReply"} /\ q = RepliesSaved(w)
                  \/ pc[w] = "finish" /\ q = Posted(w)
  <2>1. CASE ScanFeed(w) \/ ScanFails(w) \/ VerifyBlind(w) \/ Gate(w) \/ GateBlind(w)
    BY <2>1 DEF ScanFeed, ScanFails, VerifyBlind, Gate, GateBlind, MaybePatch, table
  <2>2. CASE SaveRoot(w) \/ SaveRootFails(w) \/ Verify(w) \/ VerifyFails(w)
             \/ SaveReply(w) \/ SaveReplyFails(w) \/ Finish(w) \/ FinishFails(w)
    BY <2>2 DEF SaveRoot, SaveRootFails, Verify, VerifyFails, SaveReply, SaveReplyFails,
       Finish, FinishFails, MaybePatch
  <2>. QED
    BY <2>1, <2>2
<1>5. /\ \A s \in Rows \ {r} : SameView(s)
      /\ SameView(r) \/ queue'[r] = q
      /\ SameAccount(r)
  BY <1>2, <1>3, <1>4, PatchTurn
<1>6. CASE queue'[r] = queue[r]
  BY <1>5, <1>6, QuietTurn DEF SameView, SameStatus, SameRecord
<1>7. CASE pc[w] = "saveRoot" /\ queue'[r] = RootSaved(w)
  <2>1. queue[r].main = 0 /\ queue[r].replies = 0 /\ m.main > 0 /\ m.main = roots[r]
    BY <1>2, <1>7 DEF PublishInv, RootStage
  <2>2. queue'[r].main = m.main /\ queue'[r].replies = queue[r].replies /\ SameStatus(r)
    BY <1>2, <1>7 DEF RootSaved, Row, SameStatus
  <2>3. RecordsRoot(r)
    BY <1>2, <1>5, <2>1, <2>2 DEF RecordsRoot
  <2>. QED
    BY <1>2, <1>5, <2>3 DEF OneTurns, Turn
<1>8. RepliesSaved(w) = [queue[r] EXCEPT !.replies = m.replies, !.age = 0]
      /\ RepliesSaved(w).main = queue[r].main /\ RepliesSaved(w).replies = m.replies
      /\ RepliesSaved(w).status = queue[r].status /\ RepliesSaved(w) \in Row
  BY <1>2, CountsAssumption DEF RepliesSaved, Row, Memory
<1>9. CASE pc[w] = "verify" /\ queue'[r] = RepliesSaved(w)
  <2>1. m.replies = queue[r].replies
    BY <1>2, <1>9 DEF PublishInv, ReplyStage
  <2>2. SameView(r)
    BY <1>5, <1>8, <1>9, <2>1 DEF SameView, SameStatus, SameRecord
  <2>. QED
    BY <1>5, <2>2, QuietTurn
<1>10. CASE pc[w] = "saveReply" /\ queue'[r] = RepliesSaved(w)
  <2>1. /\ queue[r].main > 0 /\ m.replies = queue[r].replies + 1
        /\ copies[r][m.replies] > 0
    BY <1>2, <1>10 DEF PublishInv, ReplyStage
  <2>2. queue[r].replies < Replies
    BY <1>2, <2>1, CountsAssumption DEF Row, Memory
  <2>3. RecordsReply(r)
    BY <1>2, <1>5, <1>8, <1>10, <2>1, <2>2 DEF RecordsReply, SameStatus
  <2>. QED
    BY <1>2, <1>5, <2>3 DEF OneTurns, Turn
<1>11. CASE pc[w] = "finish" /\ queue'[r] = Posted(w)
  <2>1. queue[r].main > 0 /\ m.replies = queue[r].replies /\ m.replies = Replies
    BY <1>2, <1>11 DEF PublishInv, ReplyStage
  <2>2. queue'[r].status = "posted" /\ queue'[r].main = queue[r].main
        /\ queue'[r].replies = m.replies
    BY <1>8, <1>11 DEF Posted, Row
  <2>3. Completes(r)
    BY <1>2, <1>5, <2>1, <2>2 DEF Completes, SameRecord
  <2>. QED
    BY <1>2, <1>5, <2>3 DEF OneTurns, Turn
<1>. QED
  BY <1>4, <1>5, <1>6, <1>7, <1>9, <1>10, <1>11, QuietTurn

LEMMA StartsUnwritten == Init => Thread!TInit
<1> SUFFICES ASSUME Init PROVE Thread!TInit
  OBVIOUS
<1>1. \A r \in Rows : queue[r].status = "absent" /\ Saved(r) = 0
  BY DEF Init, NoRow, Saved
<1>2. \A r \in Rows : Live(r) = [i \in 0..Replies |-> 0]
  BY DEF Init, Live
<1>. QED
  BY <1>1, <1>2 DEF Thread!TInit, Thread!Slots

LEMMA StepImplements == IInv /\ [Next]_vars => [Thread!TNext]_(Thread!tvars)
<1> SUFFICES ASSUME IInv, [Next]_vars PROVE OneTurns
  BY OneTurn, TypesSplit DEF IInv, OneTurns
<1>1. CASE UNCHANGED vars
  BY <1>1, QuietTurn DEF vars, table, account, SameView, SameStatus, SameRecord, SameAccount
<1>2. CASE (\E r \in Rows : WriterStep(r)) \/ Tick
  BY <1>2, WriterTurns, CountsAssumption
<1>3. CASE \E w \in Workers : StartRun(w) \/ RunStep(w) \/ RunUpset(w)
  BY <1>3, ReclaimTurns, PostTurns, SaveTurns, SettleTurns DEF RunStep, RunUpset
<1>. QED
  BY <1>1, <1>2, <1>3 DEF Next

\* Threads are written in order and recorded as they are written: the queue,
\* with any number of overlapping, dying and resuming runs, implements the
\* promise of ThreadPromise.
THEOREM QueueImplements == Spec => ImplementsThread
<1>1. IInv /\ [Next]_vars => [Thread!TNext]_(Thread!tvars)
  BY StepImplements
<1>. QED
  BY Inductive, StartsUnwritten, <1>1, PTL DEF Spec, ImplementsThread, Thread!TSpec

=============================================================================
