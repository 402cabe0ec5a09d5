------------------------------- MODULE Scheduling -------------------------------
(***************************************************************************)
(* When approved content is posted: the slot recommend_slot picks from the *)
(* account's own history, the time a person typed, and the queue rows the  *)
(* schedule commands insert.  The clock ticks in equal parts of an hour;   *)
(* a day, a week and a year are as long as the constants say.              *)
(***************************************************************************)
EXTENDS Integers, FiniteSets

CONSTANTS
  Candidates,    (* approved candidates, one command each                     *)
  Hour,          (* ticks in an hour                                          *)
  DayHours, WeekDays, YearDays,
  Offset,        (* MYT minus UTC                                             *)
  Gap, Lead,     (* min_gap_minutes, min_lead_minutes                         *)
  Lookahead,     (* lookahead_days                                            *)
  Fallback,      (* fallback_hours_local                                      *)
  MinSamples,    (* min_samples                                               *)
  Window,        (* history_window_days, in ticks                             *)
  Grace,         (* of "tonight"                                              *)
  Histories,     (* sets of captures [post, at, published, rate] a read can give,
                    rate -1 without views; one capture per post and time       *)
  Others,        (* sets of times other rows of the queue can stand at         *)
  Texts,         (* typed times [day, date, time]                              *)
  Start, MaxNow  (* the clock's bounds                                         *)

Day == DayHours * Hour
Year == YearDays * Day

ASSUME ClockAssumption ==
  /\ {Hour, DayHours, WeekDays, YearDays} \subseteq Nat \ {0} /\ DayHours > 1
  /\ {Offset, Start, MaxNow} \subseteq Nat
ASSUME ConfigAssumption ==
  /\ {Gap, Lead, Lookahead, MinSamples, Window, Grace} \subseteq Nat
  /\ Fallback \subseteq 0 .. DayHours - 1
ASSUME QueueAssumption ==
  /\ IsFiniteSet(Candidates)
  /\ \A S \in Others : S \subseteq Int /\ IsFiniteSet(S)
ASSUME TextsAssumption ==
  \A x \in Texts :
    /\ x.day \in {"today", "tonight", "tomorrow", "date", "iso"}
    /\ x.time \in 0 .. Day - 1
    /\ x.date \in Nat /\ (x.day = "date" => x.date < YearDays)

VARIABLES
  now,
  others,   (* times of the queue's other approved rows                      *)
  rows,     (* the queue rows the commands inserted                          *)
  cmd,      (* what each candidate's command, or its session, holds          *)
  (* History, read by the properties only. *)
  unaware   (* pairs of candidates one of which was recommended a slot without the
               other's: it was not inserted yet, or already due              *)

vars == <<now, others, rows, cmd, unaware>>

NoRow == [at |-> 0, how |-> "none", status |-> "none"]
Idle == [step |-> "idle"]

Init ==
  /\ now = Start
  /\ others \in Others
  /\ rows = [c \in Candidates |-> NoRow]
  /\ cmd = [c \in Candidates |-> Idle]
  /\ unaware = {}

-----------------------------------------------------------------------------
(***************************************************************************)
(* Local time.                                                             *)
(***************************************************************************)

Local(t) == t + Offset
Utc(l) == l - Offset
Weekday(l) == (l \div Day) % WeekDays
HourOf(l) == (l % Day) \div Hour
Bucket(t) == [dow |-> Weekday(Local(t)), hour |-> HourOf(Local(t))]
Buckets == [dow : 0 .. WeekDays - 1, hour : 0 .. DayHours - 1]

Least(S) == CHOOSE x \in S : \A y \in S : x <= y

-----------------------------------------------------------------------------
(***************************************************************************)
(* score_time_buckets.                                                     *)
(***************************************************************************)

\* _latest_per_post.
Latest(h) == { r \in h : \A s \in h : s.post = r.post => s.at <= r.at }

Samples(h, t, b) ==
  { r \in Latest(h) : r.published >= t - Window /\ r.rate >= 0 /\ Bucket(r.published) = b }

Trusted(h, t) == { b \in Buckets : Cardinality(Samples(h, t, b)) >= MinSamples }

Total(S) ==
  LET sum[T \in SUBSET S] ==
        IF T = {} THEN 0 ELSE LET r == CHOOSE x \in T : TRUE IN r.rate + sum[T \ {r}]
  IN  sum[S]

\* Mean rate first, then samples, then the later hour.
Above(h, t, b, c) ==
  LET S == Samples(h, t, b)  R == Samples(h, t, c)
      s == Total(S) * Cardinality(R)  r == Total(R) * Cardinality(S)
  IN  \/ s > r
      \/ s = r /\ Cardinality(S) > Cardinality(R)
      \/ s = r /\ Cardinality(S) = Cardinality(R) /\ b.hour > c.hour

-----------------------------------------------------------------------------
(***************************************************************************)
(* recommend_slot.                                                         *)
(***************************************************************************)

\* Mutant: only a slot that is taken to the tick collides.
CollidesExactly(t, occupied) == t \in occupied

Collides(t, occupied) ==
  \E o \in occupied : (IF t >= o THEN t - o ELSE o - t) < Gap

\* Mutant: the hour may be over for today.
NextDay(after, b) ==
  LET l == Local(after)
  IN  Utc(((l \div Day) + ((b.dow - Weekday(l)) % WeekDays)) * Day + b.hour * Hour)

\* _next_occurrence: strictly after the local time.
NextOccurrence(after, b) ==
  LET l == Local(after)
      candidate == ((l \div Day) + ((b.dow - Weekday(l)) % WeekDays)) * Day + b.hour * Hour
  IN  Utc(IF candidate <= l THEN candidate + WeekDays * Day ELSE candidate)

\* The bucket's slots up to the horizon, one call of _next_occurrence after the other.
Occurrences(t, b) ==
  LET slot[k \in 0 .. Lookahead] ==
        NextOccurrence(IF k = 0 THEN t + Lead ELSE slot[k - 1] + Hour, b)
  IN  { slot[k] : k \in 0 .. Lookahead } \cap (0 .. t + Lookahead * Day)

Free(S, occupied) == { t \in S : ~Collides(t, occupied) }

\* _fallback_slot: the windows from the lead time to the horizon.
Windows(t) == { s \in t + Lead .. t + Lookahead * Day : Local(s) % Hour = 0 /\ HourOf(Local(s)) \in Fallback }

\* The last resort, a gap later until nothing collides; two steps of a gap per occupied
\* time leave every one of them.
LeadSlots(t, occupied) ==
  Free({ t + Lead + k * Gap : k \in 0 .. 2 * Cardinality(occupied) }, occupied)

\* Buckets of equal rank come in the order of the rows read.
Recommended(h, occupied, t) ==
  LET usable == { b \in Trusted(h, t) : Free(Occurrences(t, b), occupied) # {} }
      windows == Free(Windows(t), occupied)
  IN  IF usable # {}
      THEN { Least(Free(Occurrences(t, b), occupied)) :
               b \in { c \in usable : \A d \in usable : ~Above(h, t, d, c) } }
      ELSE { Least(IF windows # {} THEN windows ELSE LeadSlots(t, occupied)) }

-----------------------------------------------------------------------------
(***************************************************************************)
(* parse_custom_time.  A text names a day and a local time of day.         *)
(***************************************************************************)

\* Mutant: a date that is over is not taken as next year's.
ThisYear(x, l) == (l \div Year) * Year + x.date * Day + x.time

\* A date without a year: next year's when it is over.
Dated(x, l) ==
  LET t == (l \div Year) * Year + x.date * Day + x.time
  IN  IF t < l THEN t + Year ELSE t

\* A time of today rolls to tomorrow, unless it was tonight's not long ago.
Named(x, l) ==
  LET t == (l \div Day) * Day + x.time
  IN  CASE x.day = "tomorrow" -> t + Day
        [] x.day = "today" -> IF t <= l THEN t + Day ELSE t
        [] x.day = "tonight" -> IF t <= l /\ l - t > Grace THEN t + Day ELSE t

Parsed(x, l) ==
  CASE x.day = "iso" -> x.date * Day + x.time
    [] x.day = "date" -> Dated(x, l)
    [] OTHER -> Named(x, l)

\* "time is in the past"; a tick is no less than the minute that is let pass.
Past(l, t) == t < l

-----------------------------------------------------------------------------
(***************************************************************************)
(* The schedule commands.                                                  *)
(***************************************************************************)

\* list_scheduled_queue_rows: approved and posting rows from now on.
Scheduled ==
  { t \in others : t >= now } \cup
  { rows[c].at : c \in { d \in Candidates : rows[d].status = "approved" /\ rows[d].at >= now } }

Ready(c) == cmd[c] = Idle /\ rows[c] = NoRow

\* schedule-best reads the history and the queue; either read may fail, and is then taken
\* as empty.
ScheduleBest(c) ==
  /\ Ready(c)
  /\ \E h \in Histories \cup {{}}, counted \in BOOLEAN :
       LET occupied == IF counted THEN Scheduled ELSE {} IN
       \E t \in Recommended(h, occupied, now) :
         cmd' = [cmd EXCEPT ![c] = [step |-> "insert", at |-> t, read |-> now,
                                    history |-> h, occupied |-> occupied, counted |-> counted]]
  /\ unaware' = unaware \cup { {c, d} : d \in { e \in Candidates :
                      \/ cmd[e].step = "insert" \/ rows[e].status = "posted"
                      \/ (rows[e] # NoRow /\ rows[e].at < now) } }
  /\ UNCHANGED <<now, others, rows>>

Insert(c, t, how) == rows' = [rows EXCEPT ![c] = [at |-> t, how |-> how, status |-> "approved"]]

\* Its enqueue_approved.
InsertBest(c) ==
  /\ cmd[c].step = "insert"
  /\ Insert(c, cmd[c].at, IF cmd[c].counted THEN "best" ELSE "blind")
  /\ cmd' = [cmd EXCEPT ![c] = Idle]
  /\ UNCHANGED <<now, others, unaware>>

\* schedule-now.
ScheduleNow(c) ==
  /\ Ready(c) /\ Insert(c, now, "now")
  /\ UNCHANGED <<now, others, cmd, unaware>>

\* TrendSchedDispatcher.handle_text: the session then holds the time to confirm.
TypeTime(c, x) ==
  /\ Ready(c)
  /\ LET t == Parsed(x, Local(now)) IN
       cmd' = [cmd EXCEPT ![c] = [step |-> IF Past(Local(now), t) THEN "refused" ELSE "confirm",
                                  at |-> Utc(t), text |-> x, read |-> now]]
  /\ UNCHANGED <<now, others, rows, unaware>>

\* After a time that is refused another one may be typed.
TypeAgain(c) ==
  /\ cmd[c].step = "refused" /\ cmd' = [cmd EXCEPT ![c] = Idle]
  /\ UNCHANGED <<now, others, rows, unaware>>

\* schedule-time, with the time of the session: it is not compared with the clock again.
Confirm(c) ==
  /\ cmd[c].step = "confirm" /\ Insert(c, cmd[c].at, "typed")
  /\ cmd' = [cmd EXCEPT ![c] = Idle]
  /\ UNCHANGED <<now, others, unaware>>

\* The publish worker posts a row that is due.
PostDue(c) ==
  /\ rows[c].status = "approved" /\ rows[c].at <= now
  /\ rows' = [rows EXCEPT ![c].status = "posted"]
  /\ UNCHANGED <<now, others, cmd, unaware>>

Tick == now < MaxNow /\ now' = now + 1 /\ UNCHANGED <<others, rows, cmd, unaware>>

Next ==
  \/ Tick
  \/ \E c \in Candidates :
       \/ ScheduleBest(c) \/ InsertBest(c) \/ ScheduleNow(c)
       \/ TypeAgain(c) \/ Confirm(c) \/ PostDue(c)
       \/ \E x \in Texts : TypeTime(c, x)

Spec == Init /\ [][Next]_vars

-----------------------------------------------------------------------------
(***************************************************************************)
(* Correctness.                                                            *)
(***************************************************************************)

\* What scheduling.py says of the buckets' ranking (lines 25-26) and what the docstring of
\* recommend_slot says of a slot, without their loops: it stands in the best trusted bucket
\* that has a free hour within the lookahead (the first such hour), else at the first free
\* configured window, else at some free time after the lead.  The section "Slot selection"
\* of the module's documentation, read to the letter, takes the first free hour of any
\* trusted bucket instead.
BestSlot(h, occupied, t, at) ==
  LET hours == { s \in t + Lead + 1 .. t + Lookahead * Day : Local(s) % Hour = 0 /\ ~Collides(s, occupied) }
      trusted == { s \in hours : Bucket(s) \in Trusted(h, t) }
      windows == { s \in t + Lead .. t + Lookahead * Day :
                     (\E d \in 0 .. Local(s), w \in Fallback : Local(s) = d * Day + w * Hour) /\ ~Collides(s, occupied) }
  IN  CASE trusted # {} -> /\ at \in trusted
                           /\ \A s \in trusted : ~Above(h, t, Bucket(s), Bucket(at))
                           /\ \A s \in trusted : Bucket(s) = Bucket(at) => at <= s
        [] trusted = {} /\ windows # {} -> at = Least(windows)
        [] OTHER -> at >= t + Lead /\ ~Collides(at, occupied)

SlotIsBest ==
  \A c \in Candidates : cmd[c].step = "insert" =>
    BestSlot(cmd[c].history, cmd[c].occupied, cmd[c].read, cmd[c].at)

\* Two rows at a best time keep the gap, whatever was scheduled, typed or posted between
\* them, unless one command could not read the queue, their commands overlapped, or the
\* one was already due when the other was recommended its slot.
GapKept ==
  \A c, d \in Candidates :
    c # d /\ {c, d} \notin unaware /\ rows[c].how = "best" /\ rows[d].how = "best" =>
      rows[c].at - rows[d].at >= Gap \/ rows[d].at - rows[c].at >= Gap

\* A typed time is the first one to come that the text fits, and only a full date that is
\* over is refused.  Of a "tonight" that is over TonightIsAccepted speaks.
Fits(x, l) ==
  CASE x.day = "iso" -> l = x.date * Day + x.time
    [] x.day = "date" -> (l % Year) = x.date * Day + x.time
    [] OTHER -> (l % Day) = x.time

TypedTimeIsNext ==
  \A c \in Candidates :
    LET l == Local(cmd[c].read)  t == Local(cmd[c].at)  x == cmd[c].text IN
    /\ cmd[c].step = "confirm" =>
         /\ t >= l /\ Fits(x, t)
         /\ IF x.day = "tomorrow" THEN t \div Day = l \div Day + 1
            ELSE \A s \in l + 1 .. t - 1 : ~Fits(x, s)
    /\ cmd[c].step = "refused" => x.day = "tonight" \/ (x.day = "iso" /\ t < l)

-----------------------------------------------------------------------------
(***************************************************************************)
(* What the documentation says and the code does not do.                   *)
(***************************************************************************)

\* scheduling.py, parse_custom_time: "tonight 9pm -> today 21:00 MYT (even if slightly past,
\* allow +6h grace)": within the grace it is not refused.
TonightIsAccepted ==
  \A c \in Candidates :
    cmd[c].step = "refused" /\ cmd[c].text.day = "tonight" => cmd[c].read - cmd[c].at > Grace
=============================================================================
