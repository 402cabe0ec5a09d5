# Formal verification of threads-operator

`threads-operator` runs a Threads account for its owner: cron jobs collect
insights, discover trends and replies, put cards in front of a person in
Telegram, and publish what the person approved. Every process is short-lived.
The only things that last are rows in Supabase (reached over PostgREST), the
posts in the Threads account and a few JSON files on the host, and there are no
transactions: a step is one HTTP request, a lock is a compare-and-swap
`PATCH ... WHERE status = ...`, and a process can die between any two of them.
What the program must get right is therefore a protocol question: which request
sees which state, and what is left when a run dies. This directory models those
protocols in TLA+, checks them with TLC and proves the central results with
TLAPS.

## 1. Inventory

| Component | State | Operations | What makes it hard | What makes it correct |
|---|---|---|---|---|
| **Publish queue** (`publisher.py`, `publish_worker.py`, queue half of `supabase_store.py`) | a row per thread: `status`, `threads_main_post_id`, `threads_reply_ids`, `attempt_count`, `next_retry_at`, `scheduled_at`, `heartbeat_at`; a run's copy of its row; the live posts | enqueue, promote, reschedule; reclaim, claim, resume, publish root and replies, checkpoint, mark posted or failed, requeue | overlapping runs, death between a publish and its checkpoint, lost answers, leases, backoff | one publisher per row; the checkpoint only names live posts; nothing is created twice; retry is bounded; every due row ends posted or failed |
| **Threads client** (`threads_api.py`) | the container being published | create container, poll, publish, one retry with a fresh container | a 5xx that landed, a timeout after the request | one call creates at most one post; what to repeat, requeue or give up is decided consistently |
| **Error classification** (`publish_worker.py`) | none | permanent, transient, rate-limited | the formatted message and the regular expressions that read it back are two sides of one protocol | a class for every Meta error, permanent wins |
| **Workflow A: trend candidates** (`trend_engagement.py`, `workflow_telegram.py`, CLI) | candidate row: `status`, `approval_sent_at`, message reference, `used_in_queue_id` | draft, send card, approve, edit, skip, backlog, refresh, discard, schedule, cancel, time out | two taps, a tap against a timeout, a crash between the card and the promotion, unguarded writes | an approved candidate has exactly one live queue row; a rejected one has none |
| **Workflow B: own replies** (`own_replies.py`, CLI) | reply row: `status`, `attempt_count` | discover, decide, edit, publish | publish and its record are two requests | a reply is answered at most once |
| **DM opportunities and send** (`dm_opportunity.py`, `dm_send.py`) | opportunity row: `status`, `expires_at` | detect, draft, approve, send, reconcile, expire | expiry against a send in flight, an uncertain send | nothing is sent unapproved or twice |
| **Engagement queue** (`engagement_queue.py`, `engagement_telegram.py`) | row: `status` | draft, approve, execute, fail | execute's own failure path | one execution per approval |
| **Slot recommendation** (`scheduling.py`) | none; reads history and queue rows | score, recommend, fall back, parse a typed time | calendar arithmetic, a queue read before the insert | the slot is the best free one, posts keep their distance, a typed time is the next one |
| **Edit sessions** (`engagement_sessions.py`, dispatchers of `workflow_telegram.py` and `engagement_telegram.py`) | one JSON file of pending edits | begin, take, cancel, expire, confirm a time | one file for all dispatchers, handlers that wait for the command line | a text is taken only where one was asked for, a later request survives an earlier answer |
| **Alerts** (`publish_alerts.py`) | JSON state file | send once per row and attempt | read-modify-write without a lock | no alert is dropped |
| **Insights, follows, enrichment** | append-only tables | collect, match, insert | partial batches | idempotent inserts |
| **Text functions, gateways, deployment** | none | generation rules, intent, browser, configuration | | |

### How they interact

A person's tap in Telegram starts a CLI command of Workflow A, which ends in a
row of the publish queue (`enqueue_approved`, `promote_draft_to_approved` or a
write of `scheduled_at`). The queue's cron run claims that row and calls the
Threads client. Workflow B, the DM flow and the engagement queue have queues of
their own and call the client or the browser directly. The workflows share the
edit-session file and the Telegram callback dispatcher. Nothing calls back: a
component learns what another one did by reading its row.

## 2. Modules

| Module | Role |
|---|---|
| `PublishQueue` | the publish queue: rows, account, cron runs, people who write rows, crashes, lost answers, time |
| `MCPublishQueue` | the instance TLC checks: a backoff table of two entries |
| `ThreadPromise` | the abstract promise of the queue: the slots of a thread are posted and recorded in order, and a row is posted when all are recorded |
| `PublishCall` | one call of `publish_text` with its containers and retries, the two readings of an error answer, the worker's verdict |
| `DmOpportunity` | direct-message opportunities up to their approval: rows, watchdog passes, a person's taps, expiry |
| `DmSend`, `MCDmSend` | `DmOpportunity` composed with the browser jobs that send and reconcile; the detailed specification of the DM flow; the instance with its symmetry and its bound on processes at work |
| `DmAuthority` | the abstract promise of the DM flow: an approval grants an authority, a claim arms it, a delivery spends it |
| `TrendWorkflow`, `MCTrendWorkflow` | Workflow A: a trend candidate from its discovery to its row of the publish queue; the instance with candidates found one after the other |
| `Scheduling`, `MCScheduling` | the times Workflow A gives those rows: the recommended slot, a typed time, the present; the instance with its small calendar and histories |
| `OwnReply` | Workflow B: a reply from its discovery to our published answer, and its link to a DM opportunity |
| `EngagementQueue` | replies to other accounts' posts, with the execute command step by step |
| `EditSessions`, `MCEditSessions` | the session file shared by the Telegram dispatchers; the instance with two workflows whose rows share a number |
| `PublishQueue_proofs`, `PublishCall_proofs`, `DmSend_proofs`, `TrendWorkflow_proofs`, `Scheduling_proofs`, `OwnReply_proofs`, `EngagementQueue_proofs`, `EditSessions_proofs` | the theorems; those of `DmOpportunity` and of the refinement of `DmAuthority` are in `DmSend_proofs` |

How the modules meet: `PublishQueue` implements `ThreadPromise`; `DmSend` extends
`DmOpportunity` and implements `DmAuthority`. `TrendWorkflow` ends where `PublishQueue` begins, so it keeps of the
queue the status of a row and lets `Publish` settle an approved row in one step;
`PublishQueue` has the detail behind that step and `Scheduling` the time the row
carries. `PublishQueue` in turn takes a `publish_text` as one step with the
outcomes of `PublishCall`. `OwnReply` and `EngagementQueue` use the same call without
the worker around it. `EditSessions` is the front door of the edits that the
other modules start with a text.

Several properties read *history variables*, which no guard does: counters of
posts, cards and answers on the outside, texts a person has seen, rows whose
command was killed. They are listed as such in each module.

### PublishQueue

*State.* `queue[r]` holds the columns of row `r` that the code reads:
`status`, `main` (`threads_main_post_id`), `replies` (length of
`threads_reply_ids`), `attempts`, and three relative times: `backoff` is the
time until `next_retry_at`, `wait` the time until `scheduled_at`, `age` the time
since `heartbeat_at`. `roots[r]` and `copies[r][i]` count the live posts that
carry the row's root text and its i-th reply text: a root id is the number of
its copy, a list of reply ids is its length, and "created twice" is a count of
two. A run is a program counter `pc` with what the Python process remembers:
`mem[w][r]` (the row as fetched or returned by the claim, advanced as posts are
made; `blind` is `_Reconciler.failed`), `cand` and `todo` (phase 0: listed and
reclaimed rows), `seen` (`seen_ids`), `cur`, `phase`, `err` and `lag`, the time since
the current store call computed its `now`.

*Actions.* One action is one request with the Python that follows it up to
the next request:

| Code | Actions |
|---|---|
| `reclaim_stale_posting_rows` and the `except` around it | `ListStale`, `ReclaimRow`, `ReclaimAborts` |
| the phase-0 and phase-1 loops of `publish_next_with_recovery` | `ResumeStale`, `Peek`, `AfterRow` |
| `peek_due_post`, `claim_due_post` | `Peek`, `Claim` |
| `publish_next`: feed scan, root, verified prefix, gate, reply, end | `ScanFeed`, `PublishRoot`, `SaveRoot`, `Verify`, `Gate`, `PublishReply`, `SaveReply`, `Finish` |
| its reads and writes failing, the `except` branch | `ScanFails`, `...Fails`, `VerifyBlind`, `GateBlind`, `MarkFailed`, `MarkFailedLost` |
| `_process_one_row`, `requeue_failed_row` | `Settle`, `SettleUncounted`, `RequeueLost` |
| `enqueue_*`, `promote_draft_to_approved`, `_ensure_approved_queue_row` | `EnqueueDraft`, `EnqueueApproved`, `PromoteDraft`, `RescheduleRead`, `RescheduleWrite` |
| the person's repair described in the queue's documentation | `ManualRequeue` |
| `publish_queue_worker_hermes.py` (`timeout=600`), host failures, uncaught exceptions | `StartRun`, `Crash`, `Tick` |

A failing request is a separate action. A failing write has two outcomes: it was
not applied, or it was applied and the answer was lost (`MaybePatch`). A
failing publish, whatever class its error gets, may have created its post. An
exception of the store that no handler catches ends the process and is `Crash`.

*Time.* `Tick` moves ages up and countdowns down together. Two runs may overlap
because the cron wrapper starts one without looking for another; a run still
alive after `RunLimit` (the wrapper's 600 s) is killed, which the model says by
not letting time pass until it has crashed or ended. `LeaseAssumption` states
what the constants of the repository satisfy, `RunLimit <= StaleAfter` (600 s
and 600 s): the lease outlives its holder. Every ownership result rests on it.

*Abstractions.* The order in which rows are picked (`scheduled_at`, `claimed_at`,
`id`) is left open, so the results hold for every order. The CAS that reclaims
a row and the fetch of that row are one step. Rows have distinct root texts.
Posts are not deleted and no parent turns into a ghost, so `_verified_prefix`
confirms its prefix and the hop is not reached; one `publish_text` creates at
most one post (`PublishCall` says when that is so). A PATCH sent by a process that is then killed lands before the
kill or not at all. A person requeues a failed row after the run that failed it
has finished with it, which is when the alert asks for it. The one-shot
`publish` command, which runs without the wrapper's timeout, and the fallbacks
for a table without migrations 008 and 009 are not modelled.

*Bounds.* `MaxUpsets` bounds crashes, failed calls and manual requeues;
`MaxAge` caps an age above which every comparison has the same answer.
Everything else is bounded by the code itself (attempt cap, rows per run).

### DmOpportunity and DmSend

*State.* `opp[o]` is a row of `threads_dm_opportunities`: `status`, `draft`
(`dm_draft_text`), `approved` (`dm_approved_text`), `carded`
(`approval_message_ref` is set). `stale` holds the rows past `expires_at`,
`shown[o]` the texts a person has seen, on a card or typed into an edit that was
taken. A command (`Watchdogs`, `Taps`) has a program counter and the text it
holds between two requests. `DmSend` adds `target` (rows with a recipient), the
browser jobs (`step`, `job`, `words`), what exists on Threads (`delivered`,
`texts`) and `blind[o]`, the number of reconciliations that put the row back
while a message existed; `blind` is a history variable.

| Code | Actions |
|---|---|
| `create_dm_opportunity`, `is_expired`, `expire_stale_opportunities` | `Create`, `PassDeadline`, `Expire` |
| `run_dm_approval_pass`: `dm draft`, card, `dm card-sent` | `BeginCard`, `ReadForDraft`, `SaveDraft`, `Await`, `SendCard`, `Stamp` |
| `dm approve`, `dm edit`, `dm reject` | `BeginApprove`, `SaveApproval`; `BeginEdit`, `SaveEdit`; `Reject` |
| `run_dm_send_pass`, `dm send-next`, `dm send` | `BeginPass`, `BeginSend` |
| `check_eligibility`, `claim_dm_opportunity` | `Check`, `Claim` |
| `send_dm_opportunity` before Enter | `Refuse` (every `SendAborted`), `Compose` |
| `click_send`, `confirm_latest_outgoing` | `Click`, `Confirm` |
| `_mark_sent`, `_mark_uncertain`, `_mark_failed` | `MarkSent`, `MarkUncertain`, `MarkFailed` |
| `reconcile_dm_opportunity` | `BeginReconcile`, `Look`, `Found`, `Absent` |
| a killed process or a raising store call; a `BrowserCDPError` of the page | `Crash`, `JobCrash`; `PageFails` |

*The page is outside the program.* Enter may or may not be taken, a
confirmation may miss a message or see one where there is none, and a search on
a fresh page may find or miss anything; a page error at the click leaves both
outcomes open.

*Abstractions.* A read and the compare-and-swap behind it are one step where the
read carries no value into the write (rejection, creation, the listing of one
row). `target_threads_username` is written by no code of the repository, so
`FillTarget` may come at any time; `expire_stale_opportunities` has no caller in the
repository and is allowed at any time too. Which conversation the page shows has
no identity in the model: `send_dm_opportunity` ignores the `None` that
`open_conversation` returns for an ambiguous match (`dm_send.py:289`,
`dm_browser.py:315-316`), and a model of it would only restate that. Left out: the link from
the own-reply row, the Telegram notices, `claim_id`, `attempt_count` and the
audit columns, none of which a decision reads.

*Bounds.* `MaxUpsets` bounds failures and `UpsetKinds` names which are
considered. `MaxBlind` bounds how often a reconciliation may be started for a row
that one has misjudged already.

### PublishCall

*State.* `pc` is the next request of the call, `containers` and `attempts` count
what the loop of `publish_text` counts, `raised` is the exception as the worker
reads it (a status line, an optional code, or the name of the exception's class),
`verdict` and `runs` are the row's. `posts` counts what the call created,
`hidden` those of them behind an error answer.

| Code | Actions |
|---|---|
| `create_text_container` | `CreateContainer`, `CreateRejected`, `CreateRaises` |
| `publish_container` and the loops around it | `PublishAccepted`, `PublishRejected`, `PublishRaises` |
| `_is_non_retryable_publish_error`, `_is_transient_publish_error` | `NonRetryable`, `Transient`, `Stops` |
| `_format_error_payload`, then `extract_meta_error`, `is_permanent_content_rejection`, `is_rate_limited_publish_result`, `is_transient_publish_result` | `StatusLine`, then `Permanent`, `RateLimited`, `Retryable` |
| `_process_one_row`, `requeue_failed_row` | `Judge`, `NextRun` |

*Abstractions.* An error answer is a status and what its payload says, by class:
type, code and message, in every combination, a 5xx that says "limit" included. The
payload's prose is left out, and with it a "429" that `"429" in error` could find
inside some other number of the message. That a request which got an error answer
may have been carried out all the same (`Landed`) is the outside's choice, bounded by
`MaxHidden`; a request that got no answer may or may not have landed. The call does not
repeat a request that got no answer, which is why `OnePostPerCall` can hold.
The two readings agree on a part of the answers only, which `PlainLimit` and
`NamedRefusal` delimit: `LimitYields` speaks of limits that both know for one,
`RefusalIsFinal` says of every refusal that it ends the call and of one in words
that it ends the row. `PublishQueue`'s "one call creates one post at most" is this property with
`MaxHidden = 0`; a 5xx to a request that was carried out is the case it leaves
out.

### TrendWorkflow

*State.* `cand[c]` holds the columns a decision reads: `status`, the draft in
`raw_metadata`, whether `approval_sent_at` is set and `used_in_queue_id`.
`queue[q]` is a publish-queue row with its candidate, text and status. A command has a
program counter, the candidate it was started for, the row as it read it (`saw`) and
the text it holds.

| Code | Actions |
|---|---|
| `insert_trend_candidate`; rows older than the stamp; rows a former version linked to a draft | `Insert`; `InsertUnstamped`; `InsertLinked` |
| `_run_trendeng_draft` | `BeginDraft`, `Irrelevant`, `Stage`, `Claim`, `SendCard`, `CardFails`, `Release`, `Promote` |
| `_merge_trend_candidate_approval_ref` | `RefRead`, `RefWrite` |
| `_run_trendeng_telegram_send` | `BeginResend` with the same claim and card |
| `_run_trendeng_schedule_approve`, `_run_trendeng_use` | `BeginApprove`, `BeginUse`, `SaveDecision` |
| `_trendeng_set_status` (reject, skip, discard) | `Refuse` |
| `_run_trendeng_edit`, `_run_trendeng_refresh` | `BeginEdit`, `BeginRefresh`, `SaveDraft` |
| `update_trend_candidate_evidence`, `..._provenance` | `BeginRaw`, `RawWrite` |
| `_run_trendeng_timeout`, `_run_trendeng_backlog` | `TimeOut`, `ShowBacklog` |
| `_run_trendeng_schedule_best`, `_now`, `_time` | `BeginSchedule`, `PromoteRow`, `FetchRow`, `InsertRow`, `Finalize` |
| `_run_trendeng_schedule_cancel` | `BeginCancel`, `CancelRow` |
| a killed process; the queue's worker | `Crash`; `Publish` |

*What is atomic.* A compare-and-swap and the read that only decides whether to try it
are one step. A read whose *value* is written back is a step of its own: the draft that
an approval confirms, the whole `raw_metadata` that an edit, a refresh, an enrichment
or the card reference rewrites, the row a scheduling command links. `drafted`,
`skipped` (by the relevance check) and `queued` are written by id alone, and the model
writes them over whatever the row has become.

*What a pass takes.* `draft --limit 5` lists the discovered rows, then the drafted
ones, each newest first, and takes the first five (`ListedBefore`, `InWindow`;
`Found` is `discovered_at`, `DraftLimit` the five). A draft asked for by its id takes any
row, so `BeginDraft` does not ask for the window; the fairness does.

*Abstractions.* Text and topic are one value, scores and evidence are left out, a
posting row of the queue counts as approved until `Publish` settles it.

### Scheduling

The clock ticks in parts of an hour. The calendar is a parameter (`Hour`,
`DayHours`, `WeekDays`, `YearDays`), so wrap-around of days, weeks and years
is within reach of a small instance; months and leap years are not modelled. A
history is a set of captures of posts; `Latest`, `Samples`, `Trusted` and `Above`
are the steps of `score_time_buckets`, with rates compared as fractions.
`Recommended` is `recommend_slot` with `Free`, `Windows` and `LeadSlots` for its
three stages, `Parsed` is `parse_custom_time` on a typed time reduced to its day
word, its date and its clock time. A command is `ScheduleBest` (the read and the choice)
and `InsertBest` (the insert), one step each since another row may come between them;
`ScheduleNow`; or `TypeTime`, `TypeAgain`, `Confirm`. `PostDue` takes a row out.
`SlotIsBest` restates the recommendation without loops and
stages: among all times of the lookahead, the first occurrence of the best bucket that
is free. The named assumptions say what a calendar is (lengths are positive, a day has
more than one hour, Malaysian time is not behind UTC), that the knobs of
`SchedulingConfig` are natural numbers, that the queue is finite, and that a
typed text has one of the five day words, a time of day and, if it names a date,
a day of the year.

### OwnReply

*State.* A row's `status`, `proposed`, `attempts`, `intent`, `linked`, and `opps`, the
replies with a DM opportunity of their author and post. `gone` holds the replies
that newer ones have pushed out of the lists a scan reads. A scan or a publisher has a
program counter, its row, the attempt count it read or wrote and whether the error it
caught is transient. `nameless` holds the replies for which the Graph API gave no
username, fixed from the start: `create_dm_opportunity` refuses them each time and
their row is never linked. Its other refusals (another account, no root post, no
row) cannot meet a row that a scan has just read, with the post it was found under.

| Code | Actions |
|---|---|
| `discover_new_replies`, `upsert_own_reply` | `Discover`, `Unlist`, `BeginScan` |
| `_run_ownreply_scan` per reply, and its backfill | `Classify`, `Create`, `Link`, `ClassifyFails`, `Propose`, `ProposeFails`; `BeginBackfill` |
| `send_card` of the watchdog | `SendCard` |
| `_run_ownreply_decision`, `_run_ownreply_edit` | `Decide`, `Edit` |
| `_run_ownreply_publish` | `BeginPublish`, `Claim`, `ClaimLost`, `Publish`, `PublishFails`, `Record`, `RecordFails`, `GiveUp` |
| a killed command | `Crash` |

Each failing request has two outcomes, not carried out and carried out without an
answer. The language model, the author of a reply and the content of a post are
inputs: `Classify` and `Propose` choose.

### EngagementQueue

*State.* A row's `status` and `proposed` text; an execute command's program counter,
row and text. Proposal and decisions (`ProposeReply`, `EditPendingReply`,
`ApproveReply`, `RejectReply`) are one guarded PATCH each. `execute` is
`BeginExecute`, `ClaimReply` (`ClaimLost`), `Known` or `Unknown` (`get_media`),
`PublishReply` (`PublishFails`), `MarkReplyPosted` (`MarkPostedFails`),
`MarkReplyFailed`, and `Killed` for the bridge's 60 seconds or the host.
The branch for actions other than a reply cannot be reached, since a proposal
accepts no other, and is left out; `expires_at` of these rows is read by nothing.

### EditSessions

*State.* The file as a set of sessions, each with the number it was written under, so
that the order of the file is the order of the numbers (`Oldest`); the rows that can still be
edited; per handler what it asked the command line. `Create`, `First`, `Close` and
`Expire` are the store. Handlers run in one asyncio process, so a handler is
atomic up to its `await` of the command line: `SendText` takes the text
and `EditAnswered` or `EditFails` follows later, and `TapConfirm` is followed by
`ConfirmAnswered` or `ConfirmDies`. Which dispatcher the gateway asks first is not in
the repository: any of them may take a text. A file that cannot be read or
written is left out.

## 3. Runs

| Run | Instance | Question and answer |
|---|---|---|
| `queue_safety` | 2 runs, 1 row, 2 replies, 3 attempts, 3 upsets | One publisher, its row its own, a checkpoint of live posts, no duplicate of a later reply, a second root only for an uncounted row, every step one of `ThreadPromise`? Yes, over about 755,000 states. Two replies are the fewest with a slot "after the first"; three upsets allow a crash after a publish, a lost save and a blind read in one history |
| `queue_resolves` | 1 worker slot, 2 rows, one row per run, 2 upsets, fair | Does every due row end posted or failed? Yes: a row left in `posting` by a dead run is taken over by the next one, and a row in backoff does not starve the other |
| `publish_call` | 4 requests per container, 1 fresh container, 2 runs, 1 hidden post | Does a call create one post at most (and one more per error answer to a request that was carried out), does a limit both readings know end the call and never the row before its attempts do, and a refusal in words never requeue? Yes, over about 38,000 states |
| `call_classes` | 2 requests, 1 fresh container, 2 runs | Violated: a timeout ends its row, see the findings |
| `dm_safety` | 2 browser jobs, 2 passes, 2 taps, 1 row, 2 texts, 2 failures, 1 blind requeue, 3 processes at work at once | Was every approved text shown unless two passes crossed, is an approval final, does a row without a card stay in the list, is only the approved text sent, no duplicate without a blind requeue, no message behind a failed row, refinement of `DmAuthority`? Yes, over about 1,040,000 states; processes and texts are symmetric |
| `trend_schedule` | 1 candidate of any origin, 1 pass, 2 taps, 2 texts, 2 rows, 1 upset | Does a decision exclude the other, was what is scheduled seen, does a candidate only move along the documented edges, is there one live row per candidate, each up to the overlap that is named? Yes, over about 2.8 million states |
| `trend_cards` | 2 candidates, 2 passes, a window of one, 1 text, 2 upsets, fair | Does the stamp let one command send the card, does each candidate get its card or close, unless it or what fills the window is stuck? Yes, over about 437,000 states. One candidate may starve behind the other, and two upsets are the fewest that leave two drafted rows |
| `own_reply` | 1 reply, with or without a username, 2 scans, 2 publishers, 2 texts, 2 attempts, 2 faults of any kind, fair | Is every answer accounted for, is it the approved text, are attempts bounded, is there one card, is a lead noticed, is an approved row resolved? Yes, over about 435,000 states |
| `engagement` | 2 posts, 2 texts, 2 executes, 2 faults | One reply, with the approved text, per post; a row in executing is held or stranded; an outcome is final? Yes |
| `sessions` | 2 senders, 2 workflows, 3 sessions, 2 handlers, 1 time, 1 fault | Is a text taken only where its sender was asked, a confirmed time shown before, a later session left alone? Yes, over about 1.15 million states; senders and handlers are symmetric |
| `scheduling` | 2 candidates, 5 histories, 3 queues; 2 ticks an hour, 3 hours a day, 2 days a week, 4 days a year | Is the slot the best one, is the gap kept, is a typed time the next that fits? Yes, over about 310,000 states |
| `tonight` | the same | Violated: "tonight" with a time just over is refused, see the findings |

Instances are small on purpose. Two runs, passes, publishers or executes are the fewest
that compete for a row, and all that can under the schedules (a third is reached with
crashes, since a slot restarts). One tick of the queue stands for the lease and for the
longest run; attempt caps of two and three reach the cap, one below it and the end of
the backoff table. Two texts are the fewest an edit can tell apart, two rows
sharing a number the fewest that two workflows can confuse. Workflow A needs two
queue rows for a duplicate and two candidates with two upsets for one that starves, but
not both in one history, which is why it has two instances. `MaxBusy` lets any three of
the six processes of the DM flow be at work at once: two that compete and one that
comes between them. The
calendar of `scheduling` wraps a day, a week and a year between `Start` and
`MaxNow`. Workers, texts and candidates are model values; rows whose order of
creation matters are numbers. Two rows of a table share nothing but a run's
budget, which is what `queue_resolves` exercises; that the safety results hold
for any number of rows is proved.

*Exceptions named by a property.* Where the code leaves a window open, the property
names it with a history variable and says that this window is the only
one: `outdated` (a candidate written by a command whose reading was outdated),
`twins` (overlapping or killed scheduling commands), `lost` (a card delivered behind
an error), `orphans` (a holder that was killed), `unsure` (a publish or record that
failed or lost its answer), `unaware` (a slot recommended without sight of another
row), `crossed` (a DM row that two approval passes drafted at once), `cardless`,
`stale`, `stranded`, `blind`, `hidden`; `gone`, `nameless` and `Stuck` do the same for
the liveness properties. An exception covers the hazard's own window, so what such a
property shows is that the window is the only one, not that it is closed. Each property is
false without its exception and has been checked to be.

*Fairness.* `FairSpec` of `PublishQueue` assumes weak fairness of `StartRun` and
`RunStep` of each worker and of `Tick`: cron fires again, a process the scheduler
does not kill continues, time passes. The watchdogs are cron jobs too, each pass in a
process of its own, while taps and other jobs come and go; the steps of a started
process are weakly fair. A row the next pass would take may be taken away and given
back between two passes, so beginning a pass is strongly fair where the pass
looks through all rows (`BeginScan` or `BeginBackfill`, `BeginPublish` of
`OwnReply`). The drafting pass does not: it takes the first rows of its list, so
`WatchdogFairness` of `TrendWorkflow` promises a turn only to a candidate that from some
time on stays among them (`InWindow`). Nothing is assumed of the model's verdict: one
that finds a draft irrelevant each time is one of the two ways to be `Stuck`. The DM
flow has no fairness: `dm send-next` takes one row, and what is checked of the
cards is that no row is lost from the list they are sent from. No fairness is assumed
of failures, crashes or people.
Failures are finite because of the upset bounds: what the liveness runs show is that
once calls stop failing, every row resolves, gets its card or its classification. The
lists of `OwnReply` have limits too (`gone`); that an approved row could be pushed out
of the list of `publish-approved` is left out.

*Deadlock.* The queue's runs check it: cron can always start again. The other runs
have `CHECK_DEADLOCK FALSE` because their flows end: when every row is sent, posted,
rejected or failed, or the clock reaches its bound, there is nothing left to do.

### Findings

*A timeout ends a row.* The docstring of `is_transient_publish_result` says
"network, timeout, 429, 5xx, and non-OAuth 400 are transient". The code looks for
`networkerror`, `timeoutexception` and `connecterror` in the lower-cased name of the
exception's class (`publish_worker.py:171`). The first two are base classes in httpx:
what it raises is a `ReadTimeout`, a `ConnectTimeout` or a `ReadError`, and none of
these matches, so the row is failed for good after the first one. Run
`call_classes`.

*"Tonight" has no grace.* The docstring of `parse_custom_time` says `tonight` is "today
(+6h grace)", and a comment at `scheduling.py:407` that a slightly past "tonight 9pm" is
allowed. The function computes that time and then rejects every time in the past
(`scheduling.py:411`). Run `tonight`; `TypedTimeIsNext` states what the code does: what it
accepts is the next time that fits.

### Observations

What follows was met while modelling. Where a definition is named, the module still
states it as the documentation does; listing it in the module's cfg makes TLC
print the history. The properties of section 3 say what holds instead.

*Publish queue.*
- The feed is scanned only when `attempt_count > 0`; a run that dies between
  `publish_text` and `mark_post_main_published` leaves the count at zero, and the run
  that reclaims the row publishes the root again (`publisher.py:251`,
  `ResumeFindsRoot`). A root that landed behind an error which ends the row does the
  same after a manual requeue, as the count is still zero. Theorem `SecondRoot`: a
  second root needs a count of zero.
- The gate before a reply fails closed for `index > 0` only, so the first reply can be
  published twice (`publisher.py:296`, `ReplyCreatedOnce`). Theorem
  `RepliesAtMostOnce`: every other slot is safe.
- If the answer to `mark_post_posted` is lost, `mark_post_failed` overwrites the row
  by id and the retry policy requeues it (`publisher.py:340`, `PostedNeverReclaimed`);
  its replies are all recorded, so nothing is published again.
- `scheduled_at` is written by id after a status check, and the claim checks the status
  only: a row moved between peek and claim is published before its new time
  (`operator_cli.py:1306`, `NeverPostedEarly`).

*Publish call.*
- `code=24` is looked for in a JSON form (`publish_worker.py:70-71`) that the client's
  status line never has (`threads_api.py:400-416`); the test builds the JSON form
  itself (`tests/test_publish_queue_retry.py:224`). An answer with code 24 is therefore
  never taken for a permanent rejection by the worker.
- A 5xx is repeated inside the call whatever it says (`threads_api.py:425`), a rate limit
  included, against the comment at `threads_api.py:420-422`; with status 500 the word
  "limit" reads as the length limit, and the row ends as a manual case.
- A refusal marked by its code alone (10, 190, 200) ends the call, but the worker reads
  no word of a refusal and requeues the row (`publish_worker.py:164-174`), while its
  docstrings call authorization and permission errors terminal
  (`publish_worker.py:10-11`, `:152`).
- An error at the creation of a container drops the answer's body, so an authorization
  refusal there is retried; one at the publish ends the row.

*DM flow.*
- `send-next` takes the first row of a listing ordered newest first, although its
  docstring says oldest first; a row that is not eligible is taken again by every
  pass (`operator_cli.py:2195`; `OldestIsTried` states the docstring, and would need
  fairness to be refuted).
- Reconciliation searches a fresh page without opening the conversation; its "not
  there" returns the row to `approved` (`dm_send.py:394`, `SentOnce`). Theorem
  `ResendNeedsBlindRequeue`: the only way.
- Only `SendAborted` is caught around the page: a `BrowserCDPError` after the claim
  leaves the row in `sending` (`dm_send.py:316`, `SendingIsHeld`).
- A pass that dies between the card and its stamp sends a second card. When two passes
  draft a row at once, the card of the one that lost the move shows its own draft
  while the row holds the other's (`crossed`, `ApprovedWasSeen`).

*Workflow A.*
- Two overlapping schedule commands insert two queue rows for one candidate
  (`operator_cli.py:1314`, `OneRowPerCandidate`, against
  `docs/two-engagement-workflows.md:136-138`).
- `TREND_EVIDENCE_COLUMNS` lacks `approval_sent_at`, so the early checks for an earlier
  card never fire; the compare-and-swap alone prevents a second card.
- A text overwritten by an older `raw_metadata` can be approved (`outdated`).
- A drafted row whose claim died with its command, or whose draft the model finds
  irrelevant each time (`operator_cli.py:1060`), keeps its place among the rows a pass
  takes; five of them starve what is listed behind (`Attended`).

*Slots.*
- A failed read of the queue drops the collision check without a word. Typed and
  immediate times are never compared with other rows, and Confirm does not look at the
  clock again.
- A date without a year that is today, at a time that is over, means next year.

*Workflow B.*
- A retry after a publish that raised, or a lost posted write, can answer a reply twice
  (`operator_cli.py:2511`, `AnsweredOnce`, against
  `docs/two-engagement-workflows.md:139`). `AnswersAccounted`: the only way.
- A lead whose reply has no username never gets a DM opportunity, and the backfill
  classifies its row again in every scan (`nameless`).
- A lost card is never sent again; a lead approved before the backfill saw it is never
  classified; the backfill reads the newest ten rows.

*Engagement queue and sessions.*
- A failing `get_media` answers `status: approved` while the row stays in `executing`
  (`operator_cli.py:785`).
- The sender's oldest session wins (`engagement_sessions.py:68`), whichever card was
  tapped last; a text can reach the row of another workflow with the same number, and
  Confirm may schedule the time of another candidate. `TextsAreAskedFor` and
  `ConfirmedTimeWasShown` hold at the level of numbers and senders.

## 4. Proofs

`PublishQueue_proofs` proves for every number of runs, rows, replies, attempts and
upsets and every admissible choice of times:

| Theorem | States |
|---|---|
| `TypeCorrect` | `[]TypeOK` |
| `MutualExclusion` | `[]OnePublisher` |
| `Ownership` | `[]PublisherOwnsRow` |
| `Checkpoints` | `[]CheckpointIsLive` |
| `Completeness` | `[]PostedIsComplete`: a posted row has its root and all its replies |
| `BoundedRetry` | `[]AttemptsCapped`: retries stop at the cap |
| `RepliesAtMostOnce` | `[]LaterRepliesOnce` |
| `RootOnce`, `Monotone`, `SecondRoot` | the three action properties |
| `QueueImplements` | `Spec => ImplementsThread`, the refinement of `ThreadPromise` |

All follow from one inductive invariant, `IInv` = `TypeOK`, `OnePublisher`, a
`RowInv` for each row and a `RunInv` for each run. None of the properties is
inductive alone. Ownership needs the *timing* argument: a row a run is responsible
for is `posting` with an age of at most the run's own age, the run's age is at
most `RunLimit`, and `RunLimit <= StaleAfter`; so the row is never stale for
another run and, not being approved, cannot be claimed either. Uniqueness of
replies needs the *memory* argument: at the step that publishes slot i + 1 the gate
has just seen that no copy of a later slot exists, and by ownership no
other run can have added one since. `RunInv` states for each program point what
the run's memory, the row and the account have in common.

The proof has one lemma per action, grouped by what the action may disturb:
frame lemmas (`StepKeeps`, `QuietStep`, `OwnRowStep`, `NewRowStep`, `RowsStep`) say that
a step which leaves a run's row and memory alone keeps its `RunInv`, so each
action lemma argues about one run and one row. The assumptions used are the
three in `PublishQueue`; TLC evaluates them in every run and also checked
`IInv` itself before it was proved.

The refinement maps a row to its status, to the live posts of each slot (0 is the
root) and to the number of slots it has a record of. `OneTurn` says what the step of
`ThreadPromise` is when one row turns and the others stay; then one lemma per group of
actions finds the turn: writers and settling only move the status along the edges of
`Moves`, a post goes into the first unrecorded slot (`PostTurns`, because the run's
memory and the row agree at the gate), a save records the slot just posted or
adopted (`SaveTurns`), and everything else is a stutter. `ThreadPromise` knows nothing of
runs, leases and memory: that a thread stays in order across them is what the
theorem adds. Its edge from posted to failed is the code's: when only the answer to
the final write is lost, the handler marks the row failed over it.

`DmSend_proofs` proves for every number of opportunities, texts, passes, taps and
browser jobs:

| Theorem | States |
|---|---|
| `ApprovalFinal` | `ApprovalSpec => ApprovalIsFinal` |
| `TypeCorrect` | `[]TypeOK` |
| `ClaimExclusive` | `[]OneSender` |
| `ApprovedTextOnly` | `[]OnlyApprovedText` |
| `ResendNeedsBlindRequeue` | `[]ResentOnlyBlindly` |
| `NothingUnrecorded` | `[]DeliveryOnRecord` |
| `Implements` | `Spec => ImplementsAuthority`, the refinement of `DmAuthority` |
| `ApprovedTextWasSeen` | `ApprovalSpec => []ApprovedWasSeen` |
| `SentTextWasSeen` | `Spec => [](ApprovedWasSeen /\ SentWasSeen)` |
| `UncardedListed` | `Spec => []UncardedIsListed` |

Their invariant has three parts. `Shape`: a row has an approved text exactly when it
was decided. `Turn`, of a step, is all that the approval flow does to a row, so the
fifteen actions of that flow meet the sender's invariant through one lemma.
`CountInv`: the messages of an opportunity number at most one more than its blind
requeues, and no more than those when the row is undecided, approved or failed; each
message is thus paid for by the approval or by a requeue. `JobInv`: a job past its
claim works on a row that is `sending` or `expired`, neither of which another job
can claim, and until it presses Enter the payment is still unspent. The refinement
maps a row to "armed" while some job stands before Enter; `ArmedAlone` (from
`OneSender`) says that there is only one such job, so its Enter, its failure and its
death each spend the authority, and every other step of the flow leaves it alone.
The assumptions used about the constants are the named ones: `NoText` is not a text, the
opportunities are a non-empty set of numbers, the bounds are natural numbers.

That a text was *seen* holds for any number of overlapping passes: the cron job starts
one every five minutes and nothing locks it out. `SeenInv` is inductive: unless two passes
crossed on a row, a row that waits for a decision has shown nothing yet or its draft,
the card a pass is about to send carries the draft that is stored, and a tap about to
approve a row that still waits holds a text that was shown. `SentWasSeen` then covers
Threads itself: whatever jobs, requeues and reconciliations do, each text that arrived was
on a card. `Late` collects the steps of the browser jobs, none of which changes a draft
or a card.

The later modules follow the same pattern: an inductive invariant of per-row
and per-command parts, one lemma per action, and a frame lemma for the commands a
step does not touch.

| Module | Theorem | States |
|---|---|---|
| `PublishCall_proofs` | `CallTypeCorrect`, `OnePost`, `LimitsYield`, `RefusalsAreFinal` | the three properties of `publish_call`, for every bound on requests, containers, runs and hidden posts |
| `TrendWorkflow_proofs` | `TypeCorrect`, `DecisionsExcludeEachOther` | `TypeOK`; `DecisionsExclude` |
| | `ClaimsAreHeld`, `OneCardEach`, `CardsComeFirst` | `ClaimHeld`; `OneCardUnlessLost`; `DecisionAfterCard`: no decision before a card |
| | `ScheduledTextWasSeen`, `LifecycleIsKept` | `ScheduledWasSeen`; the action property `LifecycleKept` |
| | `OneRowEach` | `OneRowUnlessTwins` |
| `Scheduling_proofs` | `RecommendsBest`, `BestTimesKeepGap`, `TypedTimeNext` | `SlotIsBest`; `GapKept`; `TypedTimeIsNext` |
| `OwnReply_proofs` | `TypeCorrect`, `PostingIsHeld`, `EveryAnswerAccounted`, `ApprovedTextIsSent`, `AttemptsAreBounded`, `OneCardEach` | the invariants of `own_reply` |
| `EngagementQueue_proofs` | `QueueTypeCorrect`, `OneApprovedReply`, `ExecutingRowsAreHeld`, `OutcomesAreFinal` | the properties of `engagement` |
| `EditSessions_proofs` | `TextsAsked`, `TimesShown`, `LaterAsksStay` | the properties of `sessions` |

`CallInv` says that while a call goes on its only posts are the hidden ones, that an
answer which stops the call is the last one and the one the call raises, and that the
verdict fits it. `TrendWorkflow` has four invariants, each inductive over `TypeOK`:
`DecisionInv` (a granted candidate stays approved, queued or skipped, and a scheduling
command works on a granted one), `CardInv` (one pass at most stands between the stamp
and the promotion of a candidate, the row shows its stamp, and until it promotes the
cards number no more than the lost ones), and `SeenInv` (what is approved, or
about to be inserted by a scheduling command, was seen, unless the candidate is
`outdated`), and `RowInv` (a link leads to a row of its own candidate; unless a candidate is among the
`twins`, one scheduling command at most works on it, and a live row of it is in that
command's hand or linked to a candidate that is past scheduling). `OwnInv` pays for every answer with an `unsure` request, or with the
posted row, or with the publisher about to record it, and ties the attempt count a
publisher holds to the row it claimed. `QueueInv` says that one execute at most
stands past its claim of a row, and that until it publishes there is no reply and its
text is the approved one.

`SessionInv` says that every session in the file, and the copy each waiting handler
holds, was asked of its sender and shows a time that was on a card of that sender.
It needs the *oldest* session to be one of the file, which a CHOOSE does not give by
itself.

`Scheduling_proofs` is about data more than about interleavings. Its lemmas derive from
division with a rest that two hours of a weekday-and-hour bucket are a week apart
(`BucketApart`), that `_next_occurrence` reaches one within a week (`NextIsInBucket`), that the
loop of `recommend_slot` therefore runs through exactly the bucket's hours between the lead
and the horizon (`SlotIsWeeksLater`, `OccurrencesAreHours`), that the last resort
finds a free time (`LeadSlotsExist`: of 2n + 1 steps of a gap, n times that are taken
block two each at most, by the pigeonhole principle), and so what is recommended is the
documented slot (`RecommendedIsBest`) and `parse_custom_time` returns the next time
that fits (`ParsedIsNext`). `SchedInv` carries these facts from the read to the insert: a slot that
waits for its insert keeps the gap to every row it knew of, and two that wait at once are
`unaware` of each other. The ranking of the buckets is not needed to be an order: where no
bucket were best, nothing would be recommended. That there always is a best one is an
induction over data.

Induction is used in two places, as the least-number principle about a set of
numbers (`LeastNumber`, from the well-foundedness of the naturals): the library's
induction theorems take an operator, which the installed provers cannot instantiate.
Recursive functions (`slot` in `Occurrences`) are treated by exhibiting their closed form.

Only model-checked: the liveness properties `EveryRowResolves`, `Attended`, `LeadNoticed` and `ApprovedResolves` (fairness and ENABLED are beyond the prover),
and the two violations. Every safety invariant and every action property of a passing run is
stated by a theorem.

## 5. Where the project could go

One resume of one thread in detail, with deleted replies, ghost parents and the hop;
and abstract promises for the two engagement workflows, as the queue and the DM flow
have theirs.

## 6. Not modelled

- *Publish alerts* (`publish_alerts.py`): a notice per row and attempt, deduplicated
  through a host file. Nothing in the program reads what it writes.
- *Insights, activity follows, enrichment*: fetch and insert; insertion is idempotent
  by unique keys of the database.
- *Content, context and intent*: word lists and prompts around a language model. Their
  verdicts are inputs of `OwnReply` and `TrendWorkflow`.
- *Gateways, configuration, deployment*: adapters to Telegram, Chrome and the
  environment, installation and batch scripts; no state of their own.
- Of the modelled components: the one-shot `publish` command, the hop around ghost
  parents and deleted replies, fallbacks for tables without later migrations, the
  wording of cards and prompts, the lexical rules of typed times, months and leap
  years, listing commands. `PROJECT.json` has the list per component.

To run a check: `tlc -config PublishQueue_safety.cfg MCPublishQueue`,
`tlc -config TrendWorkflow_cards.cfg MCTrendWorkflow`, and so on by the cfg's name,
with the MC module where one exists; to check the
proofs: `tlapm PublishQueue_proofs.tla` and likewise for the other `_proofs`
modules.
