----------------------------- MODULE PublishQueue -----------------------------
(***************************************************************************)
(* The publish queue: rows of the table threads_publish_queue, the cron    *)
(* runs of `publish-worker` (publish_next_with_recovery) that publish them *)
(* and the part of the Threads account those runs change.                  *)
(*                                                                         *)
(* Every action is one request to Supabase or to the Threads API together  *)
(* with the Python up to the next request, so runs of the same account     *)
(* interleave between any two requests and a run may die at any of them.   *)
(*                                                                         *)
(* A post is a copy number (the k-th live root carrying the row's text), a *)
(* chain of replies is its length.  Time is relative: ages since a stamp   *)
(* and countdowns to one, so that the model has no last tick.              *)
(***************************************************************************)
EXTENDS Naturals, FiniteSets, Sequences

CONSTANTS
  Workers,        (* cron runs that can be alive at the same time            *)
  Rows,           (* queue rows of one account                               *)
  Replies,        (* number of reply_texts of a row                          *)
  MaxAttempts,    (* DEFAULT_MAX_PERSISTED_ATTEMPTS                          *)
  MaxRowsPerRun,  (* DEFAULT_MAX_ROWS_PER_RUN                                *)
  Backoff,        (* PERSISTED_BACKOFF_SECONDS, in ticks                     *)
  StaleAfter,     (* DEFAULT_STALE_HEARTBEAT_SECONDS, in ticks               *)
  RunLimit,       (* the cron wrapper's subprocess timeout, in ticks         *)
  Delays,         (* delays to scheduled_at that an insert may ask for       *)
  MoveTo,         (* delays that a reschedule of an approved row may ask for *)
  MaxUpsets       (* bound on crashes, failed calls and manual requeues      *)

ASSUME CountsAssumption ==
  /\ Rows # {}
  /\ Replies \in Nat /\ MaxUpsets \in Nat
  /\ MaxAttempts \in Nat \ {0} /\ MaxRowsPerRun \in Nat \ {0}
ASSUME TimesAssumption ==
  /\ Backoff \in Seq(Nat) /\ Backoff # <<>>
  /\ Delays \subseteq Nat /\ MoveTo \subseteq Nat
\* The wrapper kills a run after 600 s and a claim goes stale after 600 s
\* without a heartbeat: the lease outlives its holder.
ASSUME LeaseAssumption ==
  /\ StaleAfter \in Nat /\ RunLimit \in Nat /\ RunLimit <= StaleAfter

VARIABLES
  queue,   (* the rows of threads_publish_queue                              *)
  roots,   (* live root posts carrying the text of each row                  *)
  copies,  (* live posts carrying the text of each reply slot of each row    *)
  pc,      (* what each run does next                                        *)
  phase,   (* whether a run handles a reclaimed row or one it claimed        *)
  cur,     (* the row a run is publishing                                    *)
  cand,    (* stale ids a run has listed and not tried to reclaim yet        *)
  todo,    (* rows a run has reclaimed and not resumed yet                   *)
  seen,    (* seen_ids: rows this run has handled                            *)
  mem,     (* the run's in-memory copy of the progress of its rows           *)
  err,     (* class of the error that ended the current publish_next         *)
  runAge,  (* time since the run started                                     *)
  lag,     (* time since the `now` that the current store call captured      *)
  moves,   (* reschedules whose status check is done and write is not        *)
  upsets   (* crashes, failed calls and manual requeues so far               *)

table == <<queue, moves>>
account == <<roots, copies>>
runs == <<pc, phase, cur, cand, todo, seen, mem, err, runAge, lag>>
vars == <<table, account, runs, upsets>>

Statuses == {"absent", "draft", "approved", "posting", "posted", "failed"}
Publishing == {"scan", "root", "saveRoot", "verify", "gate", "reply", "saveReply", "finish"}
Settling == {"markFailed", "settle"}
Steps == {"off", "list", "reclaim", "peek", "claim"} \cup Publishing \cup Settling

\* How the worker classifies the error string of a failed publish_next.
ErrorKinds == {"transient", "rate", "permanent", "final"}
StoreErrors == {"transient", "final"}

\* A heartbeat older than this is stale for every run, whenever it looked.
MaxAge == StaleAfter + RunLimit + 1

NoRow == [status |-> "absent", main |-> 0, replies |-> 0, attempts |-> 0,
          backoff |-> 0, wait |-> 0, age |-> 0]
Blank == [main |-> 0, replies |-> 0, attempts |-> 0, blind |-> FALSE]

Init ==
  /\ queue = [r \in Rows |-> NoRow]
  /\ roots = [r \in Rows |-> 0]
  /\ copies = [r \in Rows |-> [i \in 1..Replies |-> 0]]
  /\ pc = [w \in Workers |-> "off"]
  /\ phase = [w \in Workers |-> "claim"]
  /\ cur = [w \in Workers |-> CHOOSE r \in Rows : TRUE]
  /\ cand = [w \in Workers |-> {}]
  /\ todo = [w \in Workers |-> {}]
  /\ seen = [w \in Workers |-> {}]
  /\ mem = [w \in Workers |-> [r \in Rows |-> Blank]]
  /\ err = [w \in Workers |-> "final"]
  /\ runAge = [w \in Workers |-> 0]
  /\ lag = [w \in Workers |-> 0]
  /\ moves = {}
  /\ upsets = 0

Upset == upsets < MaxUpsets /\ upsets' = upsets + 1
Calm == UNCHANGED upsets

-----------------------------------------------------------------------------
(***************************************************************************)
(* Rows, as the store's requests see them.                                 *)
(***************************************************************************)

\* A PATCH of row r, and its two ways to fail: the request never applied, or
\* it applied and the answer was lost.
Patch(r, row) == queue' = [queue EXCEPT ![r] = row]
MaybePatch(r, row) == UNCHANGED queue \/ Patch(r, row)

Due(r) ==
  queue[r].status = "approved" /\ queue[r].wait = 0 /\ queue[r].backoff = 0

\* Mutants: any row that is being posted counts as stale; none ever does.
StaleDespiteHeartbeat(r, sinceNow) == queue[r].status = "posting" /\ sinceNow >= 0
StaleNever(r, sinceNow) == queue[r].status = "posting" /\ queue[r].age > MaxAge + sinceNow

\* The reclaim filter compares the heartbeat with a cutoff computed when the
\* call began, lag[w] ago.
Stale(r, sinceNow) ==
  queue[r].status = "posting" /\ queue[r].age > StaleAfter + sinceNow

Progress(r) ==
  [main |-> queue[r].main, replies |-> queue[r].replies,
   attempts |-> queue[r].attempts, blind |-> FALSE]

Delay(attempt) ==
  Backoff[IF attempt <= Len(Backoff) THEN attempt ELSE Len(Backoff)]

\* Mutant: a root is not searched for.
EntryUnscanned(m) ==
  IF m.main = 0 THEN "root"
  ELSE IF m.replies > 0 THEN "verify" ELSE IF Replies > 0 THEN "gate" ELSE "finish"

\* The first thing publish_next does with a row whose progress is m.
Entry(m) ==
  CASE m.main = 0 /\ m.replies > 0 -> "markFailed"
    [] m.main = 0 /\ m.replies = 0 /\ m.attempts > 0 -> "scan"
    [] m.main = 0 /\ m.replies = 0 /\ m.attempts = 0 -> "root"
    [] m.main # 0 /\ m.replies > 0 -> "verify"
    [] m.main # 0 /\ m.replies = 0 -> IF Replies > 0 THEN "gate" ELSE "finish"

\* Mutant: off by one.
NextSlotShort(m) == IF m.replies + 1 < Replies THEN "gate" ELSE "finish"

NextSlot(m) == IF m.replies < Replies THEN "gate" ELSE "finish"

-----------------------------------------------------------------------------
(***************************************************************************)
(* The rows' other writers.                                                *)
(***************************************************************************)

EnqueueDraft(r, d) ==
  /\ queue[r].status = "absent"
  /\ Patch(r, [queue[r] EXCEPT !.status = "draft", !.wait = d])
  /\ Calm /\ UNCHANGED <<moves, account, runs>>

EnqueueApproved(r, d) ==
  /\ queue[r].status = "absent"
  /\ Patch(r, [queue[r] EXCEPT !.status = "approved", !.wait = d])
  /\ Calm /\ UNCHANGED <<moves, account, runs>>

PromoteDraft(r, d) ==
  /\ queue[r].status = "draft"
  /\ Patch(r, [queue[r] EXCEPT !.status = "approved", !.wait = d])
  /\ Calm /\ UNCHANGED <<moves, account, runs>>

\* Scheduling a candidate again whose queue row is already approved reads the
\* row's status and then writes scheduled_at with no condition on it.
RescheduleRead(r, d) ==
  /\ queue[r].status = "approved"
  /\ moves' = moves \cup {<<r, d>>}
  /\ Calm /\ UNCHANGED <<queue, account, runs>>

RescheduleWrite(r, d) ==
  /\ <<r, d>> \in moves
  /\ moves' = moves \ {<<r, d>>}
  /\ Patch(r, [queue[r] EXCEPT !.wait = d])
  /\ Calm /\ UNCHANGED <<account, runs>>

-----------------------------------------------------------------------------
(***************************************************************************)
(* A run: start, reclaim stale rows, claim due rows.                       *)
(***************************************************************************)

\* Rows a live run is responsible for.
Busy(w) ==
  todo[w] \cup (IF pc[w] \in Publishing \cup Settling THEN {cur[w]} ELSE {})

\* A person sets a failed row back to approved, after the alert that is sent
\* once the run is done with the row.
ManualRequeue(r) ==
  /\ queue[r].status = "failed"
  /\ \A w \in Workers : r \notin Busy(w)
  /\ Patch(r, [queue[r] EXCEPT !.status = "approved"])
  /\ Upset /\ UNCHANGED <<moves, account, runs>>

StartRun(w) ==
  /\ pc[w] = "off"
  /\ pc' = [pc EXCEPT ![w] = "list"]
  /\ Calm /\ UNCHANGED <<table, account, phase, cur, cand, todo, seen, mem, err, runAge, lag>>

\* The process is gone, with everything it held in memory.
Exit(w) ==
  /\ pc' = [pc EXCEPT ![w] = "off"]
  /\ phase' = [phase EXCEPT ![w] = "claim"]
  /\ cand' = [cand EXCEPT ![w] = {}]
  /\ todo' = [todo EXCEPT ![w] = {}]
  /\ seen' = [seen EXCEPT ![w] = {}]
  /\ mem' = [mem EXCEPT ![w] = [r \in Rows |-> Blank]]
  /\ err' = [err EXCEPT ![w] = "final"]
  /\ runAge' = [runAge EXCEPT ![w] = 0]
  /\ lag' = [lag EXCEPT ![w] = 0]
  /\ UNCHANGED cur

\* Killed by the wrapper's timeout, the host, or an exception nobody catches.
Crash(w) ==
  /\ pc[w] # "off"
  /\ Exit(w)
  /\ Upset /\ UNCHANGED <<table, account>>

\* At most max(1, max_rows_per_run) candidates are read; which ones when there
\* are more (claimed_at, id order) is left open.
ListStale(w) ==
  /\ pc[w] = "list"
  /\ LET stale == {r \in Rows : Stale(r, 0)} IN
     \E some \in SUBSET stale :
       /\ Cardinality(some) <= MaxRowsPerRun
       /\ some # stale => Cardinality(some) = MaxRowsPerRun
       /\ cand' = [cand EXCEPT ![w] = some]
  /\ pc' = [pc EXCEPT ![w] = "reclaim"]
  /\ Calm
  /\ UNCHANGED <<table, account, phase, cur, todo, seen, mem, err, runAge, lag>>

\* Mutant: the row is taken because it was listed, without a compare-and-swap.
ReclaimListed(w, r) ==
  /\ pc[w] = "reclaim" /\ r \in cand[w]
  /\ cand' = [cand EXCEPT ![w] = @ \ {r}]
  /\ Patch(r, [queue[r] EXCEPT !.age = lag[w]])
  /\ todo' = [todo EXCEPT ![w] = @ \cup {r}]
  /\ mem' = [mem EXCEPT ![w][r] = Progress(r)]
  /\ Calm
  /\ UNCHANGED <<moves, account, pc, phase, cur, seen, err, runAge, lag>>

\* One compare-and-swap PATCH and, if it won, the fetch of the full row.
ReclaimRow(w, r) ==
  /\ pc[w] = "reclaim" /\ r \in cand[w]
  /\ cand' = [cand EXCEPT ![w] = @ \ {r}]
  /\ IF Stale(r, lag[w])
       THEN /\ Patch(r, [queue[r] EXCEPT !.age = lag[w]])
            /\ todo' = [todo EXCEPT ![w] = @ \cup {r}]
            /\ mem' = [mem EXCEPT ![w][r] = Progress(r)]
       ELSE UNCHANGED <<queue, todo, mem>>
  /\ Calm
  /\ UNCHANGED <<moves, account, pc, phase, cur, seen, err, runAge, lag>>

\* Any exception in the reclaim, even after a PATCH landed, empties stale_rows.
ReclaimAborts(w) ==
  /\ pc[w] \in {"list", "reclaim"}
  /\ \/ UNCHANGED queue
     \/ \E r \in cand[w] : /\ Stale(r, lag[w])
                           /\ Patch(r, [queue[r] EXCEPT !.age = lag[w]])
  /\ seen[w] = {}
  /\ cand' = [cand EXCEPT ![w] = {}]
  /\ todo' = [todo EXCEPT ![w] = {}]
  /\ mem' = [mem EXCEPT ![w] = [r \in Rows |-> Blank]]
  /\ pc' = [pc EXCEPT ![w] = "peek"]
  /\ lag' = [lag EXCEPT ![w] = 0]
  /\ Upset /\ UNCHANGED <<moves, account, phase, cur, seen, err, runAge>>

\* publish_next takes over row r with the progress m it has read.
Take(w, r, m, how) ==
  /\ cur' = [cur EXCEPT ![w] = r]
  /\ phase' = [phase EXCEPT ![w] = how]
  /\ mem' = [mem EXCEPT ![w][r] = m]
  /\ err' = [err EXCEPT ![w] = "final"]
  /\ pc' = [pc EXCEPT ![w] = Entry(m)]
  /\ lag' = [lag EXCEPT ![w] = 0]

ResumeStale(w, r) ==
  /\ pc[w] = "reclaim" /\ cand[w] = {} /\ r \in todo[w]
  /\ Take(w, r, mem[w][r], "resume")
  /\ todo' = [todo EXCEPT ![w] = @ \ {r}]
  /\ seen' = [seen EXCEPT ![w] = @ \cup {r}]
  /\ Calm /\ UNCHANGED <<table, account, cand, runAge>>

\* peek_due_post; the row is picked by (scheduled_at, id), left open here.
Peek(w) ==
  /\ \/ pc[w] = "peek"
     \/ pc[w] = "reclaim" /\ cand[w] = {} /\ todo[w] = {}
  /\ \/ /\ Cardinality(seen[w]) < MaxRowsPerRun
        /\ \E r \in Rows :
             /\ Due(r)
             /\ cur' = [cur EXCEPT ![w] = r]
        /\ pc' = [pc EXCEPT ![w] = "claim"]
        /\ lag' = [lag EXCEPT ![w] = 0]
        /\ UNCHANGED <<phase, cand, todo, seen, mem, err, runAge>>
     \/ /\ Cardinality(seen[w]) >= MaxRowsPerRun \/ \A r \in Rows : ~Due(r)
        /\ Exit(w)
  /\ Calm /\ UNCHANGED <<table, account>>

\* The claim is a compare-and-swap on the status alone; the row is returned by
\* the same request.  A lost race reads as an idle queue and ends the run.
Claim(w) ==
  LET r == cur[w] IN
  /\ pc[w] = "claim"
  /\ \/ /\ queue[r].status = "approved"
        /\ Patch(r, [queue[r] EXCEPT !.status = "posting", !.age = lag[w]])
        /\ Take(w, r, Progress(r), "claim")
        /\ UNCHANGED <<cand, todo, seen, runAge>>
     \/ /\ queue[r].status # "approved"
        /\ Exit(w)
        /\ UNCHANGED queue
  /\ Calm /\ UNCHANGED <<moves, account>>

-----------------------------------------------------------------------------
(***************************************************************************)
(* publish_next on the row a run holds.                                    *)
(***************************************************************************)

\* The step succeeded: the run remembers progress m and goes on at `next`.
Advance(w, m, next) ==
  /\ mem' = [mem EXCEPT ![w][cur[w]] = m]
  /\ pc' = [pc EXCEPT ![w] = next]
  /\ Calm
  /\ UNCHANGED <<moves, phase, cur, cand, todo, seen, err, runAge, lag>>

\* The step raised: the exception of class k is caught, the row is to be failed.
Raise(w, k) ==
  /\ err' = [err EXCEPT ![w] = k]
  /\ pc' = [pc EXCEPT ![w] = "markFailed"]
  /\ UNCHANGED <<moves, phase, cur, cand, todo, seen, mem, runAge, lag>>

\* find_root_by_text: before a row that was attempted gets a root, the feed is
\* searched for a live one, newest first.
ScanFeed(w) ==
  LET r == cur[w] IN
  /\ pc[w] = "scan"
  /\ IF roots[r] > 0
       THEN Advance(w, [mem[w][r] EXCEPT !.main = roots[r]], "saveRoot")
       ELSE Advance(w, mem[w][r], "root")
  /\ UNCHANGED <<queue, account>>

ScanFails(w) ==
  /\ pc[w] = "scan"
  /\ Raise(w, "final")
  /\ Upset /\ UNCHANGED <<queue, account>>

PublishRoot(w) ==
  LET r == cur[w] IN
  /\ pc[w] = "root"
  /\ roots' = [roots EXCEPT ![r] = @ + 1]
  /\ Advance(w, [mem[w][r] EXCEPT !.main = roots[r] + 1], "saveRoot")
  /\ UNCHANGED <<queue, copies>>

\* A call that fails, by an error answer or because the answer is lost, may have
\* created its post.
PublishRootFails(w) ==
  /\ pc[w] = "root"
  /\ \E k \in ErrorKinds : Raise(w, k)
  /\ UNCHANGED roots \/ roots' = [roots EXCEPT ![cur[w]] = @ + 1]
  /\ Upset /\ UNCHANGED <<queue, copies>>

\* mark_post_main_published, after a publish and after an adoption.
RootSaved(w) == [queue[cur[w]] EXCEPT !.main = mem[w][cur[w]].main, !.age = 0]

SaveRoot(w) ==
  /\ pc[w] = "saveRoot"
  /\ Patch(cur[w], RootSaved(w))
  /\ Advance(w, mem[w][cur[w]], NextSlot(mem[w][cur[w]]))
  /\ UNCHANGED account

SaveRootFails(w) ==
  /\ pc[w] = "saveRoot"
  /\ MaybePatch(cur[w], RootSaved(w))
  /\ \E k \in StoreErrors : Raise(w, k)
  /\ Upset /\ UNCHANGED account

\* Mutant: the slot to come is recorded with the ones that are live.
RepliesSavedAhead(w) ==
  [queue[cur[w]] EXCEPT !.replies = mem[w][cur[w]].replies + 1, !.age = 0]

\* mark_post_reply_progress: the ordered reply ids and a heartbeat.
RepliesSaved(w) == [queue[cur[w]] EXCEPT !.replies = mem[w][cur[w]].replies, !.age = 0]

\* _verified_prefix: no reply is deleted in this model, so the checkpoint is
\* confirmed, or trusted when the account cannot be read (blind).
Verify(w) ==
  LET m == mem[w][cur[w]] IN
  /\ pc[w] = "verify"
  /\ Patch(cur[w], RepliesSaved(w))
  /\ Advance(w, m, NextSlot(m))
  /\ UNCHANGED account

VerifyBlind(w) ==
  /\ pc[w] = "verify" /\ ~mem[w][cur[w]].blind
  /\ mem' = [mem EXCEPT ![w][cur[w]].blind = TRUE]
  /\ Upset
  /\ UNCHANGED <<table, account, pc, phase, cur, cand, todo, seen, err, runAge, lag>>

VerifyFails(w) ==
  /\ pc[w] = "verify"
  /\ MaybePatch(cur[w], RepliesSaved(w))
  /\ \E k \in StoreErrors : Raise(w, k)
  /\ Upset /\ UNCHANGED account

\* The idempotence gate of one reply slot: adopt a live reply with the slot's
\* text, or go on to publish; once a read has failed in this call, a slot after
\* the first is not published.
Gate(w) ==
  LET r == cur[w]  m == mem[w][r] IN
  /\ pc[w] = "gate"
  /\ \/ /\ copies[r][m.replies + 1] > 0
        /\ Advance(w, [m EXCEPT !.replies = @ + 1], "saveReply")
     \/ /\ copies[r][m.replies + 1] = 0
        /\ ~(m.blind /\ m.replies > 0)
        /\ Advance(w, m, "reply")
     \/ /\ copies[r][m.replies + 1] = 0
        /\ m.blind /\ m.replies > 0
        /\ Raise(w, "final") /\ Calm
  /\ UNCHANGED <<queue, account>>

\* Mutant: a slot that cannot be read counts as free.
GateOpen(w) ==
  /\ pc[w] = "gate"
  /\ pc' = [pc EXCEPT ![w] = "reply"]
  /\ Upset
  /\ UNCHANGED <<table, account, phase, cur, cand, todo, seen, mem, err, runAge, lag>>

\* The replies of the parent cannot be read.
GateBlind(w) ==
  LET r == cur[w]  m == mem[w][r] IN
  /\ pc[w] = "gate"
  /\ IF m.replies > 0
       THEN Raise(w, "final")
       ELSE /\ mem' = [mem EXCEPT ![w][r].blind = TRUE]
            /\ pc' = [pc EXCEPT ![w] = "reply"]
            /\ UNCHANGED <<moves, phase, cur, cand, todo, seen, err, runAge, lag>>
  /\ Upset /\ UNCHANGED <<queue, account>>

PublishReply(w) ==
  LET r == cur[w]  m == mem[w][r] IN
  /\ pc[w] = "reply"
  /\ copies' = [copies EXCEPT ![r][m.replies + 1] = @ + 1]
  /\ Advance(w, [m EXCEPT !.replies = @ + 1], "saveReply")
  /\ UNCHANGED <<queue, roots>>

PublishReplyFails(w) ==
  LET r == cur[w]  m == mem[w][r] IN
  /\ pc[w] = "reply"
  /\ \E k \in ErrorKinds : Raise(w, k)
  /\ UNCHANGED copies \/ copies' = [copies EXCEPT ![r][m.replies + 1] = @ + 1]
  /\ Upset /\ UNCHANGED <<queue, roots>>

SaveReply(w) ==
  LET m == mem[w][cur[w]] IN
  /\ pc[w] = "saveReply"
  /\ Patch(cur[w], RepliesSaved(w))
  /\ Advance(w, m, NextSlot(m))
  /\ UNCHANGED account

SaveReplyFails(w) ==
  /\ pc[w] = "saveReply"
  /\ MaybePatch(cur[w], RepliesSaved(w))
  /\ \E k \in StoreErrors : Raise(w, k)
  /\ Upset /\ UNCHANGED account

-----------------------------------------------------------------------------
(***************************************************************************)
(* The end of one row: posted, or failed and then maybe requeued.          *)
(***************************************************************************)

\* What the run does after a row: the next reclaimed row, the next due row, or,
\* when it had handled this row before, nothing more.
AfterRow(w) ==
  IF phase[w] = "claim" /\ cur[w] \in seen[w]
    THEN Exit(w)
    ELSE /\ pc' = [pc EXCEPT ![w] = IF phase[w] = "resume" THEN "reclaim" ELSE "peek"]
         /\ seen' = [seen EXCEPT ![w] = @ \cup {cur[w]}]
         /\ mem' = [mem EXCEPT ![w][cur[w]] = Blank]
         /\ err' = [err EXCEPT ![w] = "final"]
         /\ UNCHANGED <<phase, cur, cand, todo, runAge, lag>>

\* mark_post_posted and mark_post_failed are unconditional writes by row id.
Posted(w) ==
  [RepliesSaved(w) EXCEPT !.status = "posted", !.backoff = 0]

Failed(r) ==
  [queue[r] EXCEPT !.status = "failed", !.backoff = 0]

Finish(w) ==
  /\ pc[w] = "finish"
  /\ Patch(cur[w], Posted(w))
  /\ AfterRow(w)
  /\ Calm /\ UNCHANGED <<moves, account>>

FinishFails(w) ==
  /\ pc[w] = "finish"
  /\ MaybePatch(cur[w], Posted(w))
  /\ \E k \in StoreErrors : Raise(w, k)
  /\ Upset /\ UNCHANGED account

\* A reclaimed row that fails again is left to the alert; only rows the run
\* claimed itself reach the retry policy.
AfterFailure(w) ==
  IF phase[w] = "resume"
    THEN AfterRow(w)
    ELSE /\ pc' = [pc EXCEPT ![w] = "settle"]
         /\ UNCHANGED <<phase, cur, cand, todo, seen, mem, err, runAge, lag>>

MarkFailed(w) ==
  /\ pc[w] = "markFailed"
  /\ Patch(cur[w], Failed(cur[w]))
  /\ AfterFailure(w)
  /\ Calm /\ UNCHANGED <<moves, account>>

MarkFailedLost(w) ==
  /\ pc[w] = "markFailed"
  /\ MaybePatch(cur[w], Failed(cur[w]))
  /\ AfterFailure(w)
  /\ Upset /\ UNCHANGED <<moves, account>>

\* requeue_failed_row, a compare-and-swap on failed or posting.
Requeued(r, attempt) ==
  [queue[r] EXCEPT !.status = "approved", !.attempts = attempt, !.backoff = Delay(attempt)]
CanRequeue(r) == queue[r].status \in {"failed", "posting"}
Retryable(w, attempt) == err[w] \in {"transient", "rate"} /\ attempt < MaxAttempts

\* The retry policy of _process_one_row; `prior` is the attempt count it read.
Decide(w, prior) ==
  LET r == cur[w] IN
  \/ /\ err[w] = "permanent" \/ prior + 1 >= MaxAttempts
     /\ Patch(r, Failed(r))
     /\ AfterRow(w)
  \/ /\ Retryable(w, prior + 1) /\ CanRequeue(r)
     /\ Patch(r, Requeued(r, prior + 1))
     /\ IF err[w] = "rate" THEN Exit(w) ELSE AfterRow(w)
  \/ /\ Retryable(w, prior + 1) /\ ~CanRequeue(r)
     /\ UNCHANGED queue
     /\ AfterRow(w)
  \/ /\ err[w] = "final" /\ prior + 1 < MaxAttempts
     /\ UNCHANGED queue
     /\ AfterRow(w)

Settle(w) ==
  /\ pc[w] = "settle"
  /\ Decide(w, queue[cur[w]].attempts)
  /\ Calm /\ UNCHANGED <<moves, account>>

\* The attempt count cannot be read and is taken to be zero.
SettleUncounted(w) ==
  /\ pc[w] = "settle"
  /\ Decide(w, 0)
  /\ Upset /\ UNCHANGED <<moves, account>>

\* The requeue itself fails and the failure stands.
RequeueLost(w) ==
  LET r == cur[w]  attempt == queue[r].attempts + 1 IN
  /\ pc[w] = "settle"
  /\ Retryable(w, attempt)
  /\ \/ UNCHANGED queue
     \/ CanRequeue(r) /\ Patch(r, Requeued(r, attempt))
  /\ AfterRow(w)
  /\ Upset /\ UNCHANGED <<moves, account>>

-----------------------------------------------------------------------------
(***************************************************************************)
(* Time.  A run still alive at RunLimit is killed before time goes on.     *)
(***************************************************************************)

Countdown(n) == IF n = 0 THEN 0 ELSE n - 1
Older(n, limit) == IF n < limit THEN n + 1 ELSE limit

Tick ==
  /\ \A w \in Workers : pc[w] # "off" => runAge[w] < RunLimit
  /\ queue' = [r \in Rows |->
       [queue[r] EXCEPT !.backoff = Countdown(@),
                        !.wait = Countdown(@),
                        !.age = IF queue[r].status = "posting" THEN Older(@, MaxAge) ELSE @]]
  /\ runAge' = [w \in Workers |-> IF pc[w] = "off" THEN 0 ELSE runAge[w] + 1]
  /\ lag' = [w \in Workers |-> IF pc[w] \in {"reclaim", "claim"} THEN lag[w] + 1 ELSE 0]
  /\ Calm
  /\ UNCHANGED <<moves, account, pc, phase, cur, cand, todo, seen, mem, err>>

-----------------------------------------------------------------------------

WriterStep(r) ==
  \/ \E d \in Delays : EnqueueDraft(r, d)
  \/ \E d \in Delays : EnqueueApproved(r, d)
  \/ \E d \in Delays : PromoteDraft(r, d)
  \/ \E d \in MoveTo : RescheduleRead(r, d)
  \/ \E d \in MoveTo : RescheduleWrite(r, d)
  \/ ManualRequeue(r)

\* The steps of a run that meets no failure.
RunStep(w) ==
  \/ ListStale(w)
  \/ \E r \in Rows : ReclaimRow(w, r)
  \/ \E r \in Rows : ResumeStale(w, r)
  \/ Peek(w) \/ Claim(w)
  \/ ScanFeed(w) \/ PublishRoot(w) \/ SaveRoot(w)
  \/ Verify(w) \/ Gate(w) \/ PublishReply(w) \/ SaveReply(w)
  \/ Finish(w) \/ MarkFailed(w) \/ Settle(w)

RunUpset(w) ==
  \/ Crash(w) \/ ReclaimAborts(w)
  \/ ScanFails(w) \/ PublishRootFails(w) \/ SaveRootFails(w)
  \/ VerifyBlind(w) \/ VerifyFails(w) \/ GateBlind(w)
  \/ PublishReplyFails(w) \/ SaveReplyFails(w) \/ FinishFails(w)
  \/ MarkFailedLost(w) \/ SettleUncounted(w) \/ RequeueLost(w)

Next ==
  \/ \E r \in Rows : WriterStep(r)
  \/ \E w \in Workers : StartRun(w) \/ RunStep(w) \/ RunUpset(w)
  \/ Tick

Spec == Init /\ [][Next]_vars

\* Cron starts a run at every tick, a run that nothing kills keeps going, and
\* time passes.  Nothing makes a person write a row, and nothing makes a call
\* fail.
Fairness ==
  /\ \A w \in Workers : WF_vars(StartRun(w)) /\ WF_vars(RunStep(w))
  /\ WF_vars(Tick)

FairSpec == Spec /\ Fairness

-----------------------------------------------------------------------------
(***************************************************************************)
(* Correctness.                                                            *)
(***************************************************************************)

\* The type of every variable: the row's columns as the migrations declare
\* them, the program counter of a run, what it remembers of each row.
TypeOK ==
  /\ queue \in [Rows -> [status : Statuses, main : Nat, replies : 0..Replies,
                         attempts : Nat, backoff : Nat, wait : Nat, age : Nat]]
  /\ roots \in [Rows -> Nat]
  /\ copies \in [Rows -> [1..Replies -> Nat]]
  /\ pc \in [Workers -> Steps]
  /\ phase \in [Workers -> {"resume", "claim"}]
  /\ cur \in [Workers -> Rows]
  /\ cand \in [Workers -> SUBSET Rows]
  /\ todo \in [Workers -> SUBSET Rows]
  /\ seen \in [Workers -> SUBSET Rows]
  /\ mem \in [Workers -> [Rows -> [main : Nat, replies : 0..Replies,
                                   attempts : Nat, blind : BOOLEAN]]]
  /\ err \in [Workers -> ErrorKinds]
  /\ runAge \in [Workers -> Nat]
  /\ lag \in [Workers -> Nat]
  /\ moves \in SUBSET (Rows \X MoveTo)
  /\ upsets \in Nat

\* No two live runs are responsible for the same row: the claim's and the
\* reclaim's compare-and-swap, and the lease being longer than the longest run,
\* keep a row with one publisher (reclaim_stale_posting_rows: "healthy,
\* actively-beating rows are never stolen").
OnePublisher ==
  \A v, w \in Workers : v # w => Busy(v) \cap Busy(w) = {}

\* While a run publishes a row the row is `posting` with a fresh heartbeat and
\* holds the progress that the run started from, so that the unconditional
\* mark_* writes never overwrite what another process wrote.
PublisherOwnsRow ==
  \A w \in Workers : pc[w] \in Publishing =>
    /\ queue[cur[w]].status = "posting"
    /\ queue[cur[w]].age <= runAge[w]
    /\ queue[cur[w]].attempts = mem[w][cur[w]].attempts
    /\ queue[cur[w]].main \in {0, mem[w][cur[w]].main}
    /\ queue[cur[w]].replies <= mem[w][cur[w]].replies

\* Every id in a row is the id of a live post, and replies are only recorded
\* under a recorded root: what a resume continues from is really there.
CheckpointIsLive ==
  \A r \in Rows :
    /\ queue[r].main <= roots[r]
    /\ \A i \in 1..queue[r].replies : copies[r][i] > 0
    /\ queue[r].replies > 0 => queue[r].main > 0

\* A row marked posted has a root and all its replies.
PostedIsComplete ==
  \A r \in Rows : queue[r].status = "posted" =>
    queue[r].main > 0 /\ queue[r].replies = Replies

\* Retrying is bounded: no row is requeued with an exhausted attempt budget.
AttemptsCapped ==
  \A r \in Rows : queue[r].attempts < MaxAttempts

\* Only the first reply of a thread can ever exist twice: every later slot is
\* adopted when it is live and left alone when that cannot be known.
LaterRepliesOnce ==
  \A r \in Rows : \A i \in 2..Replies : copies[r][i] <= 1

\* "The root is never recreated while threads_main_post_id is set"
\* (publisher.py), and the saved id itself never changes.
RootNeverRecreated ==
  [][\A r \in Rows : queue[r].main > 0 =>
       queue'[r].main = queue[r].main /\ roots'[r] = roots[r]]_<<queue, roots>>

\* Recorded replies are never forgotten.
ProgressNeverLost ==
  [][\A r \in Rows : queue'[r].replies >= queue[r].replies]_queue

\* A second root can only be created from a row whose attempt count is zero: a row
\* with a counted attempt is searched for in the feed first.
SecondRootOnlyUncounted ==
  [][\A r \in Rows : roots[r] > 0 /\ roots'[r] > roots[r] => queue[r].attempts = 0]_roots

\* A thread is written in order and recorded as it is written, across runs,
\* crashes and retries: the queue implements the promise of ThreadPromise.  No
\* reply is posted under an unrecorded one, no record precedes its post, and a
\* row is posted when its root and all its replies are recorded.
Live(r) == [i \in 0..Replies |-> IF i = 0 THEN roots[r] ELSE copies[r][i]]
Saved(r) == IF queue[r].main = 0 THEN 0 ELSE 1 + queue[r].replies

Thread == INSTANCE ThreadPromise WITH
  life <- [r \in Rows |-> queue[r].status],
  live <- [r \in Rows |-> Live(r)],
  saved <- [r \in Rows |-> Saved(r)]

ImplementsThread == Thread!TSpec

\* A row that is due is published or given up, whatever the runs that handle
\* it meet: dead runs are taken over, failed rows do not block the others.
Resolved(r) == queue[r].status \in {"posted", "failed"}
EveryRowResolves ==
  \A r \in Rows : queue[r].status \in {"approved", "posting"} ~> Resolved(r)

-----------------------------------------------------------------------------
(***************************************************************************)
(* What the documentation says and the code does not do.                   *)
(***************************************************************************)

\* publisher.py: "a resume with no saved root id first scans the account feed
\* for a live post with the exact root text", so that a run that resumes a row
\* is never about to publish a root that is already live.
ResumeFindsRoot ==
  \A w \in Workers : pc[w] = "root" /\ phase[w] = "resume" => roots[cur[w]] = 0

\* docs/publish-queue-worker.md: if a partially published thread cannot be
\* reconciled "the publisher fails closed before publishing anything", so that
\* no reply is published twice.
ReplyCreatedOnce == \A r \in Rows : \A i \in 1..Replies : copies[r][i] <= 1

\* docs/publish-queue-worker.md: "a posted row is never re-claimed".
PostedNeverReclaimed ==
  \A r \in Rows : [](queue[r].status = "posted" => [](queue[r].status # "posting"))

\* docs/publish-queue-worker.md: "Rows are never posted early - selection
\* requires scheduled_at <= now()".
NeverPostedEarly ==
  [][\A r \in Rows : queue[r].status = "approved" /\ queue'[r].status = "posting"
       => queue[r].wait = 0]_queue

=============================================================================
