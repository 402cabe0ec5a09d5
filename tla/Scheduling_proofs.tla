---------------------------- MODULE Scheduling_proofs ----------------------------
(***************************************************************************)
(* Theorems about Scheduling, for every length of a day, a week and a year *)
(* and every configuration, history, queue and typed text.                 *)
(***************************************************************************)
EXTENDS Scheduling, FiniteSetTheorems, WellFoundedInduction, TLAPS

-----------------------------------------------------------------------------
(***************************************************************************)
(* Division, and the least number of a set.                                *)
(***************************************************************************)

LEMMA DivMod ==
  ASSUME NEW d \in Nat \ {0}, NEW a \in Int
  PROVE  /\ a \div d \in Int /\ a % d \in 0 .. d - 1
         /\ a = (a \div d) * d + (a % d)
OBVIOUS

LEMMA DivModOf ==
  ASSUME NEW d \in Nat \ {0}, NEW q \in Int, NEW r \in 0 .. d - 1
  PROVE  (q * d + r) % d = r /\ (q * d + r) \div d = q
OBVIOUS

LEMMA TimesMonotone ==
  ASSUME NEW d \in Nat, NEW p \in Int, NEW q \in Int, p <= q
  PROVE  p * d <= q * d
OBVIOUS

LEMMA TimesTimes ==
  ASSUME NEW a \in Int, NEW b \in Int, NEW c \in Int
  PROVE  a * (b * c) = (a * b) * c /\ a * b \in Int
OBVIOUS

\* Of two numbers with the same rest the greater is a whole divisor further on.
LEMMA SameRest ==
  ASSUME NEW d \in Nat \ {0}, NEW a \in Int, NEW b \in Int, a % d = b % d, a < b
  PROVE  b >= a + d
<1>1. PICK p \in Int : p = a \div d
  BY DivMod
<1>2. PICK q \in Int : q = b \div d
  BY DivMod
<1>3. a = p * d + (a % d) /\ b = q * d + (a % d) /\ a % d \in 0 .. d - 1
  BY <1>1, <1>2, DivMod
<1>4. p < q
  BY <1>3
<1>5. (p + 1) * d <= q * d
  BY <1>4, TimesMonotone
<1> QED
  BY <1>3, <1>5

\* Whole divisors do not change the rest.
LEMMA RestOfSum ==
  ASSUME NEW d \in Nat \ {0}, NEW a \in Int, NEW q \in Int
  PROVE  (a + q * d) % d = a % d
<1>1. PICK p \in Int : p = a \div d
  BY DivMod
<1>2. PICK r \in 0 .. d - 1 : r = a % d
  BY DivMod
<1>3. a = p * d + r
  BY <1>1, <1>2, DivMod
<1>4. a + q * d = (p + q) * d + r /\ p + q \in Int
  BY <1>3
<1> QED
  BY <1>2, <1>4, DivModOf

\* What is added to a rest counts as added to the number.
LEMMA RestOfRest ==
  ASSUME NEW d \in Nat \ {0}, NEW a \in Int, NEW b \in Int
  PROVE  ((a % d) + b) % d = (a + b) % d
<1>1. PICK p \in Int : p = a \div d
  BY DivMod
<1>2. PICK r \in Int : r = a % d
  BY DivMod
<1>3. a = p * d + r
  BY <1>1, <1>2, DivMod
<1>4. PICK e \in Int : e = r + b
  OBVIOUS
<1>5. a + b = e + p * d
  BY <1>3, <1>4
<1>6. (e + p * d) % d = e % d
  BY RestOfSum
<1> QED
  BY <1>2, <1>4, <1>5, <1>6

Below == { p \in Nat \X Nat : p[1] < p[2] }

\* The least-number principle, about a set: this is how induction is used here.
LEMMA LeastNumber ==
  ASSUME NEW S \in SUBSET Nat, S # {}
  PROVE  Least(S) \in S /\ \A y \in S : Least(S) <= y
<1>1. IsWellFoundedOn(Below, Nat)
  BY NatLessThanWellFounded DEF OpToRel, Below
<1>2. PICK x \in S : \A y \in S : ~ (<<y, x>> \in Below)
  BY <1>1, WFMin
<1>3. \A m, n \in Nat : m < n => <<m, n>> \in Below
  BY DEF Below
<1>4. ASSUME NEW y \in S PROVE x <= y
  <2>1. x \in Nat /\ y \in Nat
    OBVIOUS
  <2>2. ~ (y < x)
    BY <2>1, <1>2, <1>3
  <2> QED
    BY <2>1, <2>2
<1> QED
  BY <1>4 DEF Least

-----------------------------------------------------------------------------
(***************************************************************************)
(* The clock.                                                              *)
(***************************************************************************)

Week == WeekDays * Day

LEMMA Lengths ==
  /\ {Hour, DayHours, WeekDays, YearDays, Day, Week, Year} \subseteq Nat \ {0}
  /\ Day = DayHours * Hour /\ Hour < Day /\ Day <= Week
  /\ {Offset, Start, Gap, Lead, Lookahead} \subseteq Nat
<1>1. Hour \in Nat \ {0} /\ DayHours \in Nat \ {0} /\ WeekDays \in Nat \ {0} /\ YearDays \in Nat \ {0}
      /\ DayHours > 1 /\ Offset \in Nat /\ Start \in Nat
  BY ClockAssumption
<1>2. Day \in Nat \ {0} /\ Hour < Day
  <2>1. 2 * Hour <= DayHours * Hour
    BY <1>1, TimesMonotone
  <2> QED
    BY <1>1, <2>1 DEF Day
<1>3. Week \in Nat \ {0} /\ Day <= Week
  <2>1. 1 * Day <= WeekDays * Day
    BY <1>1, <1>2, TimesMonotone
  <2> QED
    BY <1>1, <1>2, <2>1 DEF Week
<1>4. Year \in Nat \ {0}
  <2>1. 1 * Day <= YearDays * Day
    BY <1>1, <1>2, TimesMonotone
  <2> QED
    BY <1>1, <1>2, <2>1 DEF Year
<1>5. Gap \in Nat /\ Lead \in Nat /\ Lookahead \in Nat
  BY ConfigAssumption
<1> QED
  BY <1>1, <1>2, <1>3, <1>4, <1>5 DEF Day

\* A full hour of the local clock.
Full(l) == l % Hour = 0

\* Full hours of a weekday and an hour of the day.
InBucket(l, b) == l \in Int /\ Full(l) /\ Weekday(l) = b.dow /\ HourOf(l) = b.hour

\* A full hour is its day's beginning and the hours since.
LEMMA FullHour ==
  ASSUME NEW l \in Int, Full(l)
  PROVE  /\ l = (l \div Day) * Day + HourOf(l) * Hour
         /\ l \div Day \in Int /\ HourOf(l) \in 0 .. DayHours - 1
<1>0. Day \in Nat \ {0} /\ Hour \in Nat \ {0} /\ DayHours \in Nat /\ Day = DayHours * Hour
  BY Lengths
<1>1. PICK q \in Int, r \in 0 .. Day - 1 : q = l \div Day /\ r = l % Day /\ l = q * Day + r
  BY <1>0, DivMod
<1>2. r \div Hour \in Int /\ r % Hour \in 0 .. Hour - 1 /\ r = (r \div Hour) * Hour + (r % Hour)
  <2>1. r \in Int
    BY <1>0
  <2> QED
    BY <1>0, <2>1, DivMod
<1>3. l = r + (q * DayHours) * Hour /\ q * DayHours \in Int /\ r \in Int
  <2>1. q * (DayHours * Hour) = (q * DayHours) * Hour /\ q * DayHours \in Int
    BY <1>0, TimesTimes
  <2>2. l = q * (DayHours * Hour) + r
    BY <1>0, <1>1
  <2>3. PICK e \in Int : e = (q * DayHours) * Hour
    BY <1>0, <2>1
  <2> QED
    BY <2>1, <2>2, <2>3
<1>4. r % Hour = 0
  BY <1>0, <1>3, RestOfSum DEF Full
<1>5. r \div Hour >= 0 /\ r \div Hour < DayHours
  <2>1. r \div Hour >= 0
    <3>1. SUFFICES ASSUME r \div Hour <= -1 PROVE FALSE
      BY <1>2
    <3>2. PICK e \in Int : e = r \div Hour
      BY <1>2
    <3>3. e * Hour <= (-1) * Hour
      BY <1>0, <3>1, <3>2, TimesMonotone
    <3> QED
      BY <1>0, <1>2, <1>4, <3>2, <3>3
  <2>2. r \div Hour < DayHours
    <3>1. SUFFICES ASSUME DayHours <= r \div Hour PROVE FALSE
      BY <1>2, Lengths
    <3>2. DayHours * Hour <= (r \div Hour) * Hour
      BY <1>2, <3>1, Lengths, TimesMonotone
    <3> QED
      BY <1>1, <1>2, <1>4, <3>2, Lengths
  <2> QED
    BY <2>1, <2>2
<1> QED
  BY <1>1, <1>2, <1>4, <1>5, Lengths DEF HourOf

\* The hour k of the day with the number q.
LEMMA HourOfDay ==
  ASSUME NEW q \in Int, NEW k \in 0 .. DayHours - 1
  PROVE  /\ k * Hour \in 0 .. Day - 1
         /\ Full(q * Day + k * Hour) /\ HourOf(q * Day + k * Hour) = k
         /\ (q * Day + k * Hour) \div Day = q /\ q * Day + k * Hour \in Int
<1> DEFINE l == q * Day + k * Hour
<1>1. k * Hour \in 0 .. Day - 1
  <2>1. (k + 1) * Hour <= DayHours * Hour
    BY Lengths, TimesMonotone
  <2>2. 0 * Hour <= k * Hour
    BY Lengths, TimesMonotone
  <2> QED
    BY <2>1, <2>2, Lengths
<1>2. l % Day = k * Hour /\ l \div Day = q
  BY <1>1, Lengths, DivModOf
<1>3. (k * Hour + 0) \div Hour = k
  BY Lengths, DivModOf, SMTT(30)
<1>4. l = (q * DayHours + k) * Hour + 0 /\ q * DayHours + k \in Int
  BY Lengths
<1>5. l % Hour = 0
  BY <1>4, Lengths, DivModOf, SMTT(30)
<1> QED
  BY <1>1, <1>2, <1>3, <1>5, Lengths DEF Full, HourOf

\* Two hours of a bucket are at least a week apart.
LEMMA BucketApart ==
  ASSUME NEW b, NEW l, NEW m, InBucket(l, b), InBucket(m, b), l < m
  PROVE  m >= l + Week
<1>1. l \in Int /\ m \in Int /\ Full(l) /\ Full(m) /\ HourOf(l) = HourOf(m)
      /\ (l \div Day) % WeekDays = (m \div Day) % WeekDays
  BY DEF InBucket, Weekday
<1>2. PICK p \in Int : p = l \div Day
  BY <1>1, FullHour
<1>3. PICK q \in Int : q = m \div Day
  BY <1>1, FullHour
<1>4. PICK e \in Int : e = HourOf(l) * Hour
  BY <1>1, FullHour, Lengths
<1>5. l = p * Day + e /\ m = q * Day + e
  BY <1>1, <1>2, <1>3, <1>4, FullHour
<1>6. p < q
  <2>1. SUFFICES ASSUME q <= p PROVE FALSE
    OBVIOUS
  <2>2. q * Day <= p * Day
    BY <2>1, Lengths, TimesMonotone
  <2> QED
    BY <1>5, <2>2, Lengths
<1>7. q >= p + WeekDays
  BY <1>1, <1>2, <1>3, <1>6, Lengths, SameRest
<1>8. (p + WeekDays) * Day <= q * Day
  BY <1>7, Lengths, TimesMonotone
<1>9. (p + WeekDays) * Day = p * Day + Week
  BY Lengths DEF Week
<1> QED
  BY <1>5, <1>8, <1>9, Lengths

\* Whole weeks later the bucket is the same.
LEMMA BucketAgain ==
  ASSUME NEW b, NEW l, InBucket(l, b), NEW k \in Int
  PROVE  InBucket(l + k * Week, b) /\ l + k * Week \in Int
<1> DEFINE m == l + k * Week
<1>1. l \in Int /\ Full(l) /\ HourOf(l) \in 0 .. DayHours - 1
  BY FullHour DEF InBucket
<1>2. PICK p \in Int : p = l \div Day
  BY <1>1, FullHour
<1>3. PICK q \in Int : q = p + k * WeekDays
  BY Lengths
<1>4. m = q * Day + HourOf(l) * Hour
  <2>1. l = p * Day + HourOf(l) * Hour
    BY <1>1, <1>2, FullHour
  <2>2. q * Day = p * Day + k * Week
    BY <1>3, Lengths DEF Week
  <2> QED
    BY <1>1, <2>1, <2>2, Lengths
<1>5. Full(m) /\ HourOf(m) = HourOf(l) /\ m \div Day = q /\ m \in Int
  BY <1>1, <1>4, HourOfDay
<1>6. q % WeekDays = p % WeekDays
  BY <1>3, Lengths, RestOfSum
<1> QED
  BY <1>2, <1>5, <1>6 DEF InBucket, Weekday

-----------------------------------------------------------------------------
(***************************************************************************)
(* The next occurrence of a bucket.                                        *)
(***************************************************************************)

\* It is one, comes later, and no more than a week later.
LEMMA NextIsInBucket ==
  ASSUME NEW t \in Int, NEW b \in Buckets
  PROVE  /\ NextOccurrence(t, b) \in Int
         /\ InBucket(Local(NextOccurrence(t, b)), b)
         /\ NextOccurrence(t, b) > t /\ NextOccurrence(t, b) <= t + Week
<1>1. /\ Hour \in Nat \ {0} /\ DayHours \in Nat \ {0} /\ WeekDays \in Nat \ {0} /\ Day \in Nat \ {0}
      /\ Week \in Nat \ {0} /\ Day <= Week /\ Offset \in Nat /\ Week = WeekDays * Day
  BY Lengths DEF Week
<1>2. b.dow \in 0 .. WeekDays - 1 /\ b.hour \in 0 .. DayHours - 1
  BY DEF Buckets
<1>3. PICK l \in Int : l = Local(t) /\ l = t + Offset
  BY <1>1 DEF Local
<1>4. PICK D \in Int, r \in 0 .. Day - 1 : D = l \div Day /\ l = D * Day + r
  BY <1>1, DivMod
<1>5. PICK e \in Int : e = b.dow - (D % WeekDays)
  BY <1>1, <1>2, DivMod
<1>6. PICK k \in 0 .. WeekDays - 1 : k = e % WeekDays
  BY <1>1, DivMod
<1>7. PICK q \in Int : q = D + k
  BY <1>1
\* That many days from now it is the weekday.
<1>8. q % WeekDays = b.dow
  <2>1. (k + D) % WeekDays = (e + D) % WeekDays
    BY <1>1, <1>6, RestOfRest
  <2>2. PICK w \in Int : w = D \div WeekDays
    BY <1>1, DivMod
  <2>3. PICK z \in Int : z = D % WeekDays
    BY <1>1, DivMod
  <2>4. D = w * WeekDays + z
    BY <1>1, <2>2, <2>3, DivMod
  <2>5. e + D = w * WeekDays + b.dow
    <3>1. PICK y \in Int : y = w * WeekDays
      BY <1>1
    <3> QED
      BY <1>2, <1>5, <2>3, <2>4, <3>1
  <2>6. (w * WeekDays + b.dow) % WeekDays = b.dow
    BY <1>1, <1>2, DivModOf
  <2>7. q = k + D
    BY <1>1, <1>7
  <2> QED
    BY <2>1, <2>5, <2>6, <2>7
<1>9. PICK m \in Int : m = q * Day + b.hour * Hour
  BY <1>2, <1>7, HourOfDay
<1>10. InBucket(m, b)
  BY <1>2, <1>7, <1>8, <1>9, HourOfDay DEF InBucket, Weekday
<1>11. InBucket(m + Week, b)
  <2>1. InBucket(m + 1 * Week, b)
    BY <1>10, BucketAgain
  <2> QED
    BY <1>1, <2>1
<1>12. m >= D * Day /\ m < D * Day + Week
  <2>1. b.hour * Hour \in 0 .. Day - 1
    BY <1>2, HourOfDay
  <2>2. D * Day <= q * Day
    BY <1>1, <1>7, TimesMonotone
  <2>3. (q + 1) * Day <= (D + WeekDays) * Day
    BY <1>1, <1>7, TimesMonotone
  <2>4. (q + 1) * Day = q * Day + Day /\ (D + WeekDays) * Day = D * Day + Week
    BY <1>1
  <2>5. PICK x \in Int, y \in Int : x = D * Day /\ y = q * Day
    BY <1>1
  <2> QED
    BY <1>1, <1>9, <2>1, <2>2, <2>3, <2>4, <2>5
<1>13. NextOccurrence(t, b) = Utc(IF m <= l THEN m + Week ELSE m)
  BY <1>1, <1>3, <1>4, <1>5, <1>6, <1>7, <1>9 DEF NextOccurrence, Weekday
<1>14. \A x \in Int : Utc(x) = x - Offset /\ Local(Utc(x)) = x
  BY <1>1 DEF Utc, Local
<1>15. PICK x \in Int : x = D * Day
  BY <1>1
<1>16. CASE m <= l
  <2>1. NextOccurrence(t, b) = Utc(m + Week) /\ m + Week \in Int
    BY <1>1, <1>13, <1>16
  <2>2. Local(NextOccurrence(t, b)) = m + Week /\ NextOccurrence(t, b) = m + Week - Offset
    BY <1>1, <1>14, <2>1
  <2> QED
    BY <1>1, <1>3, <1>4, <1>11, <1>12, <1>15, <1>16, <2>2
<1>17. CASE ~(m <= l)
  <2>1. NextOccurrence(t, b) = Utc(m)
    BY <1>13, <1>17
  <2>2. Local(NextOccurrence(t, b)) = m /\ NextOccurrence(t, b) = m - Offset
    BY <1>14, <2>1
  <2> QED
    BY <1>1, <1>3, <1>4, <1>10, <1>12, <1>15, <1>17, <2>2
<1> QED
  BY <1>16, <1>17

\* An hour after one of a bucket's slots the next one is a week later.
LEMMA NextIsWeekLater ==
  ASSUME NEW t \in Int, NEW b \in Buckets, InBucket(Local(t), b)
  PROVE  NextOccurrence(t + Hour, b) = t + Week
<1>1. Hour \in Nat \ {0} /\ Week \in Nat \ {0} /\ Hour < Week /\ Offset \in Nat
  <2>1. /\ {Hour, Day, Week} \subseteq Nat \ {0} /\ Hour < Day /\ Day <= Week /\ Offset \in Nat
    BY Lengths
  <2> QED
    BY <2>1
<1>2. PICK u \in Int : u = t + Hour
  BY <1>1
<1>3. PICK n \in Int : n = NextOccurrence(u, b)
  BY <1>2, NextIsInBucket
<1>4. InBucket(Local(n), b) /\ n > u /\ n <= u + Week
  BY <1>3, NextIsInBucket
<1>5. Local(t) = t + Offset /\ Local(n) = n + Offset
  BY DEF Local
<1>6. n >= t + Week
  <2>1. Local(t) < Local(n)
    BY <1>1, <1>2, <1>4, <1>5
  <2>2. Local(n) >= Local(t) + Week
    BY <1>4, <2>1, BucketApart
  <2> QED
    BY <1>1, <1>5, <2>2
<1>7. InBucket(Local(t) + Week, b)
  <2>1. InBucket(Local(t) + 1 * Week, b)
    BY BucketAgain
  <2> QED
    BY <1>1, <2>1
<1>8. ~ (n > t + Week)
  <2>1. SUFFICES ASSUME n > t + Week PROVE FALSE
    OBVIOUS
  <2>2. Local(t) + Week < Local(n)
    BY <1>1, <1>5, <2>1
  <2>3. Local(n) >= Local(t) + Week + Week
    BY <1>4, <1>7, <2>2, BucketApart
  <2> QED
    BY <1>1, <1>2, <1>4, <1>5, <2>3
<1> QED
  BY <1>1, <1>2, <1>3, <1>6, <1>8

\* The slots that are computed one from the other are the first one and the weeks after.
LEMMA SlotIsWeeksLater ==
  ASSUME NEW t \in Int, NEW b \in Buckets, NEW slot,
         slot = [k \in 0 .. Lookahead |->
                   NextOccurrence(IF k = 0 THEN t + Lead ELSE slot[k - 1] + Hour, b)]
  PROVE  \A k \in 0 .. Lookahead : slot[k] = NextOccurrence(t + Lead, b) + k * Week
<1>1. Lead \in Nat /\ Lookahead \in Nat /\ Week \in Nat \ {0} /\ Offset \in Nat /\ Hour \in Nat
  BY Lengths
<1>2. PICK x \in Int : x = NextOccurrence(t + Lead, b)
  BY <1>1, NextIsInBucket
<1>3. InBucket(Local(x), b)
  BY <1>1, <1>2, NextIsInBucket
<1> DEFINE Wrong == { k \in 0 .. Lookahead : slot[k] # x + k * Week }
<1>4. SUFFICES ASSUME Wrong # {} PROVE FALSE
  BY <1>2
<1>5. Wrong \in SUBSET Nat
  BY <1>1
<1>6. PICK k \in Wrong : \A j \in Wrong : k <= j
  BY <1>4, <1>5, LeastNumber
<1>7. k \in 0 .. Lookahead /\ slot[k] # x + k * Week
  OBVIOUS
<1>8. k # 0
  BY <1>1, <1>2, <1>7
<1>9. k - 1 \in 0 .. Lookahead /\ slot[k - 1] = x + (k - 1) * Week
  <2>1. k - 1 \in 0 .. Lookahead
    BY <1>1, <1>7, <1>8
  <2>2. ~ (k <= k - 1)
    BY <1>1, <1>7
  <2>3. k - 1 \notin Wrong
    BY <1>6, <2>2, Zenon
  <2> QED
    BY <2>1, <2>3
<1>10. PICK y \in Int : y = x + (k - 1) * Week
  BY <1>1, <1>7
<1>11. InBucket(Local(y), b)
  <2>1. InBucket(Local(x) + (k - 1) * Week, b)
    <3>1. k - 1 \in Int
      BY <1>9
    <3> QED
      BY <1>3, <3>1, BucketAgain
  <2>2. PICK w \in Int : w = (k - 1) * Week
    BY <1>1, <1>7
  <2> QED
    BY <1>1, <1>10, <2>1, <2>2 DEF Local
<1>12. slot[k] = NextOccurrence(y + Hour, b)
  BY <1>7, <1>8, <1>9, <1>10
<1>13. slot[k] = y + Week
  BY <1>11, <1>12, NextIsWeekLater
<1>14. (k - 1) * Week + Week = k * Week
  BY <1>1, <1>7
<1>15. PICK w \in Int : w = (k - 1) * Week
  BY <1>1, <1>7
<1> QED
  BY <1>1, <1>7, <1>10, <1>13, <1>14, <1>15

\* There are such slots, so that Occurrences is about them.
LEMMA OccurrencesAre ==
  ASSUME NEW t \in Int, NEW b \in Buckets
  PROVE  Occurrences(t, b) =
           { NextOccurrence(t + Lead, b) + k * Week : k \in 0 .. Lookahead } \cap (0 .. t + Lookahead * Day)
<1>1. Lead \in Nat /\ Lookahead \in Nat /\ Week \in Nat \ {0} /\ Offset \in Nat /\ Hour \in Nat
  BY Lengths
<1>2. PICK x \in Int : x = NextOccurrence(t + Lead, b)
  BY <1>1, NextIsInBucket
<1>3. InBucket(Local(x), b)
  BY <1>1, <1>2, NextIsInBucket
<1> DEFINE f == [k \in 0 .. Lookahead |-> x + k * Week]
<1>4. ASSUME NEW k \in 0 .. Lookahead
      PROVE  f[k] = NextOccurrence(IF k = 0 THEN t + Lead ELSE f[k - 1] + Hour, b)
  <2>1. CASE k = 0
    BY <1>1, <1>2, <2>1
  <2>2. CASE k # 0
    <3>1. k - 1 \in 0 .. Lookahead /\ k \in Int
      BY <1>1, <2>2
    <3>2. PICK y \in Int, w \in Int : y = x + (k - 1) * Week /\ w = (k - 1) * Week
      BY <1>1, <3>1
    <3>3. InBucket(Local(y), b)
      <4>1. InBucket(Local(x) + (k - 1) * Week, b)
        BY <1>3, <3>1, BucketAgain
      <4> QED
        BY <1>1, <3>2, <4>1 DEF Local
    <3>4. NextOccurrence(y + Hour, b) = y + Week
      BY <3>3, NextIsWeekLater
    <3>5. (k - 1) * Week + Week = k * Week
      BY <1>1, <3>1
    <3>6. y + Week = x + k * Week
      BY <1>1, <3>1, <3>2, <3>5
    <3>7. f[k - 1] = y
      BY <3>1, <3>2
    <3> QED
      BY <2>2, <3>4, <3>6, <3>7
  <2> QED
    BY <2>1, <2>2
<1>5. f = [k \in 0 .. Lookahead |-> NextOccurrence(IF k = 0 THEN t + Lead ELSE f[k - 1] + Hour, b)]
  BY <1>4
<1>6. \E g : g = [k \in 0 .. Lookahead |-> NextOccurrence(IF k = 0 THEN t + Lead ELSE g[k - 1] + Hour, b)]
  BY <1>5
<1>7. PICK g : /\ g = [k \in 0 .. Lookahead |-> NextOccurrence(IF k = 0 THEN t + Lead ELSE g[k - 1] + Hour, b)]
               /\ Occurrences(t, b) = { g[k] : k \in 0 .. Lookahead } \cap (0 .. t + Lookahead * Day)
  BY <1>6 DEF Occurrences
<1>8. \A k \in 0 .. Lookahead : g[k] = NextOccurrence(t + Lead, b) + k * Week
  BY <1>7, SlotIsWeeksLater
<1> QED
  BY <1>7, <1>8

LEMMA BucketOf ==
  ASSUME NEW s \in Int, NEW b \in Buckets
  PROVE  InBucket(Local(s), b) <=> Full(Local(s)) /\ Bucket(s) = b
<1>1. b = [dow |-> b.dow, hour |-> b.hour]
  BY DEF Buckets
<1>2. Local(s) \in Int
  BY Lengths DEF Local
<1> QED
  BY <1>1, <1>2 DEF InBucket, Bucket

\* They are all of the bucket's hours after the lead and up to the horizon.
LEMMA OccurrencesAreHours ==
  ASSUME NEW t \in Nat, NEW b \in Buckets
  PROVE  Occurrences(t, b) =
           { s \in t + Lead + 1 .. t + Lookahead * Day : Full(Local(s)) /\ Bucket(s) = b }
<1>1. /\ Lead \in Nat /\ Lookahead \in Nat /\ Week \in Nat \ {0} /\ Offset \in Nat /\ Hour \in Nat
      /\ Day \in Nat \ {0} /\ Day <= Week
  BY Lengths
<1>2. PICK x \in Int : x = NextOccurrence(t + Lead, b)
  BY <1>1, NextIsInBucket
<1>3. InBucket(Local(x), b) /\ x > t + Lead /\ x <= t + Lead + Week
  <2>1. t + Lead \in Int
    BY <1>1
  <2> QED
    BY <1>2, <2>1, NextIsInBucket
<1>4. PICK H \in Nat : H = Lookahead * Day
  BY <1>1
<1>5. ASSUME NEW k \in Int, NEW y \in Int, y = x + k * Week
      PROVE  InBucket(Local(y), b)
  <2>1. InBucket(Local(x) + k * Week, b)
    BY <1>3, BucketAgain
  <2>2. PICK w \in Int : w = k * Week
    BY <1>1
  <2> QED
    BY <1>1, <1>5, <2>1, <2>2 DEF Local
<1>6. ASSUME NEW s \in Occurrences(t, b)
      PROVE  s \in t + Lead + 1 .. t + Lookahead * Day /\ Full(Local(s)) /\ Bucket(s) = b
  <2>1. PICK k \in 0 .. Lookahead : s = x + k * Week /\ s \in 0 .. t + H
    BY <1>2, <1>4, OccurrencesAre
  <2>2. s \in Int /\ InBucket(Local(s), b)
    BY <1>1, <1>5, <2>1
  <2>3. 0 * Week <= k * Week
    BY <1>1, <2>1, TimesMonotone
  <2>4. PICK w \in Int : w = k * Week
    BY <1>1, <2>1
  <2>5. s \in t + Lead + 1 .. t + H
    BY <1>1, <1>3, <2>1, <2>3, <2>4
  <2> QED
    BY <1>4, <2>2, <2>5, BucketOf
<1>7. ASSUME NEW s \in t + Lead + 1 .. t + Lookahead * Day, Full(Local(s)), Bucket(s) = b
      PROVE  s \in Occurrences(t, b)
  <2>1. s \in Int /\ s >= t + Lead + 1 /\ s <= t + H
    BY <1>1, <1>4
  <2>2. InBucket(Local(s), b)
    BY <1>7, <2>1, BucketOf
  <2>3. ASSUME NEW y \in Int, InBucket(Local(y), b), s < y
        PROVE  y >= s + Week
    <3>1. Local(s) = s + Offset /\ Local(y) = y + Offset
      BY DEF Local
    <3>2. Local(s) < Local(y)
      BY <1>1, <2>1, <2>3, <3>1
    <3>3. Local(y) >= Local(s) + Week
      BY <2>2, <2>3, <3>2, BucketApart
    <3> QED
      BY <1>1, <2>1, <3>1, <3>3
  <2>4. ASSUME NEW y \in Int, InBucket(Local(y), b), y < s
        PROVE  s >= y + Week
    <3>1. Local(s) = s + Offset /\ Local(y) = y + Offset
      BY DEF Local
    <3>2. Local(y) < Local(s)
      BY <1>1, <2>1, <2>4, <3>1
    <3>3. Local(s) >= Local(y) + Week
      BY <2>2, <2>4, <3>2, BucketApart
    <3> QED
      BY <1>1, <2>1, <3>1, <3>3
  <2>5. x <= s
    BY <1>1, <1>3, <2>1, <2>3
  <2>6. PICK a \in Int : a = s - x
    BY <2>1
  <2>7. PICK q \in Int, r \in 0 .. Week - 1 : a = q * Week + r
    BY <1>1, DivMod
  <2>8. PICK w \in Int : w = q * Week
    BY <1>1
  <2>9. PICK y \in Int : y = x + w
    BY <2>8
  <2>10. InBucket(Local(y), b)
    BY <1>5, <2>8, <2>9
  <2>11. s = y
    <3>1. s = y + r
      BY <1>1, <2>1, <2>6, <2>7, <2>8, <2>9
    <3>2. SUFFICES ASSUME y < s PROVE FALSE
      BY <1>1, <3>1
    <3>3. s >= y + Week
      BY <2>4, <2>10, <3>2
    <3> QED
      BY <1>1, <3>1, <3>3
  <2>12. q >= 0
    <3>1. SUFFICES ASSUME q <= -1 PROVE FALSE
      OBVIOUS
    <3>2. q * Week <= (-1) * Week
      BY <1>1, <3>1, TimesMonotone
    <3> QED
      BY <1>1, <2>1, <2>5, <2>8, <2>9, <2>11, <3>2
  <2>13. q <= Lookahead
    <3>1. SUFFICES ASSUME Lookahead <= q PROVE ~ (Lookahead < q)
      BY <1>1
    <3>2. SUFFICES ASSUME Lookahead + 1 <= q PROVE FALSE
      BY <1>1
    <3>3. (Lookahead + 1) * Day <= q * Day
      BY <1>1, <3>2, TimesMonotone
    <3>4. Day * q <= Week * q
      BY <1>1, <2>12, TimesMonotone
    <3>5. (Lookahead + 1) * Day = H + Day /\ Day * q = q * Day /\ Week * q = w
      BY <1>1, <1>4, <2>8
    <3>6. PICK z \in Int : z = q * Day
      BY <1>1
    <3> QED
      BY <1>1, <1>3, <2>1, <2>9, <2>11, <3>3, <3>4, <3>5, <3>6
  <2>14. s = x + q * Week /\ q \in 0 .. Lookahead
    BY <1>1, <2>8, <2>9, <2>11, <2>12, <2>13
  <2>15. s \in 0 .. t + Lookahead * Day
    BY <1>1, <1>4, <2>1
  <2> QED
    BY <1>2, <2>14, <2>15, OccurrencesAre
<1> QED
  BY <1>6, <1>7

-----------------------------------------------------------------------------
(***************************************************************************)
(* Slots that leave the gap.                                               *)
(***************************************************************************)

\* A slot that does not collide keeps the gap to every time that is taken.
LEMMA FreeKeepsGap ==
  ASSUME NEW t \in Int, NEW occupied \in SUBSET Int, ~Collides(t, occupied), NEW o \in occupied
  PROVE  t - o >= Gap \/ o - t >= Gap
BY Lengths DEF Collides

\* Steps of a gap: each time that is taken has at most one of them on either side, so that
\* of more than two for each of them one is free.
LEMMA LeadSlotsExist ==
  ASSUME NEW t \in Nat, NEW occupied \in SUBSET Int, IsFiniteSet(occupied)
  PROVE  LeadSlots(t, occupied) # {}
<1>1. Gap \in Nat /\ Lead \in Nat
  BY Lengths
<1>2. PICK n \in Nat : n = Cardinality(occupied)
  BY FS_CardinalityType
<1>3. PICK e \in Nat : e = t + Lead
  BY <1>1
<1> DEFINE Steps == 0 .. 2 * n
           At(k) == e + k * Gap
           Taken(k) == CHOOSE o \in occupied : (IF At(k) >= o THEN At(k) - o ELSE o - At(k)) < Gap
           side == [k \in Steps |-> <<Taken(k), IF At(k) >= Taken(k) THEN 1 ELSE 0>>]
<1>4. SUFFICES ASSUME \A k \in Steps : Collides(At(k), occupied) PROVE FALSE
  BY <1>2, <1>3 DEF LeadSlots, Free
<1>5. ASSUME NEW k \in Steps
      PROVE  /\ Taken(k) \in occupied
             /\ (IF At(k) >= Taken(k) THEN At(k) - Taken(k) ELSE Taken(k) - At(k)) < Gap
             /\ At(k) \in Int
  <2>1. \E o \in occupied : (IF At(k) >= o THEN At(k) - o ELSE o - At(k)) < Gap
    BY <1>4 DEF Collides
  <2>2. At(k) \in Int
    BY <1>1
  <2> HIDE DEF At
  <2> QED
    BY <2>1, <2>2
<1> HIDE DEF Taken
<1>6. side \in [Steps -> occupied \X (0 .. 1)]
  BY <1>5
<1>7. IsFiniteSet(Steps) /\ Cardinality(Steps) = 2 * n + 1
  BY FS_Interval
<1>8. IsFiniteSet(occupied \X (0 .. 1)) /\ Cardinality(occupied \X (0 .. 1)) = n * 2
  <2>1. IsFiniteSet(0 .. 1) /\ Cardinality(0 .. 1) = 2
    <3>1. PICK one \in Nat : one = 1
      OBVIOUS
    <3>2. IsFiniteSet(0 .. one) /\ Cardinality(0 .. one) = one + 1
      BY FS_Interval
    <3>3. one + 1 = 2
      BY <3>1
    <3> QED
      BY <3>1, <3>2, <3>3, Zenon
  <2> QED
    BY <1>2, <2>1, FS_Product
<1>9. PICK j, k \in Steps : j # k /\ side[j] = side[k]
  <2>1. Cardinality(occupied \X (0 .. 1)) < Cardinality(Steps)
    BY <1>7, <1>8
  <2> HIDE DEF Steps, side
  <2> QED
    BY <1>6, <1>7, <1>8, <2>1, FS_PigeonHole
<1>10. ASSUME NEW i \in Steps, NEW m \in Steps, i < m, side[i] = side[m] PROVE FALSE
  <2>1. Taken(i) = Taken(m) /\ (At(i) >= Taken(i) <=> At(m) >= Taken(m))
    BY <1>10
  <2>2. At(i) \in Int /\ At(m) \in Int /\ Taken(i) \in Int
    BY <1>5
  <2>3. At(m) >= At(i) + Gap
    <3>1. (i + 1) * Gap <= m * Gap
      BY <1>1, <1>10, TimesMonotone
    <3>2. (i + 1) * Gap = i * Gap + Gap
      BY <1>1
    <3>3. PICK y \in Int, z \in Int : y = i * Gap /\ z = m * Gap
      BY <1>1
    <3> QED
      BY <1>1, <3>1, <3>2, <3>3
  <2>4. /\ (IF At(i) >= Taken(i) THEN At(i) - Taken(i) ELSE Taken(i) - At(i)) < Gap
        /\ (IF At(m) >= Taken(m) THEN At(m) - Taken(m) ELSE Taken(m) - At(m)) < Gap
    BY <1>5
  <2> HIDE DEF At
  <2> QED
    BY <1>1, <2>1, <2>2, <2>3, <2>4
<1> QED
  <2>1. j \in Int /\ k \in Int
    BY <1>9
  <2>2. j < k \/ k < j
    BY <1>9, <2>1
  <2> QED
    BY <1>9, <1>10, <2>2

-----------------------------------------------------------------------------
(***************************************************************************)
(* What recommend_slot returns.                                            *)
(***************************************************************************)

\* The configured windows are the fallback hours of the days.
LEMMA WindowsAre ==
  ASSUME NEW t \in Nat, NEW occupied
  PROVE  Free(Windows(t), occupied) =
           { s \in t + Lead .. t + Lookahead * Day :
               (\E d \in 0 .. Local(s), w \in Fallback : Local(s) = d * Day + w * Hour) /\ ~Collides(s, occupied) }
<1>1. Lead \in Nat /\ Lookahead \in Nat /\ Offset \in Nat /\ Hour \in Nat \ {0} /\ Day \in Nat \ {0}
  BY Lengths
<1>2. PICK H \in Nat : H = Lookahead * Day
  BY <1>1
<1>3. ASSUME NEW s \in t + Lead .. t + Lookahead * Day
      PROVE  Local(s) \in Nat
  BY <1>1, <1>2 DEF Local
<1>4. ASSUME NEW s \in t + Lead .. t + Lookahead * Day, Full(Local(s)), HourOf(Local(s)) \in Fallback
      PROVE  \E d \in 0 .. Local(s), w \in Fallback : Local(s) = d * Day + w * Hour
  <2>1. PICK l \in Nat : l = Local(s)
    BY <1>3
  <2>2. PICK q \in Int, r \in 0 .. Day - 1 : q = l \div Day /\ l = q * Day + r
    BY <1>1, DivMod
  <2>3. l = q * Day + HourOf(l) * Hour
    BY <1>4, <2>1, <2>2, FullHour
  <2>4. q \in 0 .. l
    <3>2. q >= 0
      <4>1. SUFFICES ASSUME q <= -1 PROVE FALSE
        OBVIOUS
      <4>2. q * Day <= (-1) * Day
        BY <1>1, <4>1, TimesMonotone
      <4> QED
        BY <1>1, <2>2, <4>2
    <3>3. 1 * q <= Day * q
      BY <1>1, <3>2, TimesMonotone
    <3>4. PICK z \in Int : z = q * Day /\ Day * q = z
      BY <1>1
    <3> QED
      BY <1>1, <2>2, <3>2, <3>3, <3>4
  <2> QED
    BY <1>4, <2>1, <2>3, <2>4
<1>5. ASSUME NEW s, NEW d \in 0 .. Local(s), NEW w \in Fallback, Local(s) = d * Day + w * Hour
      PROVE  Full(Local(s)) /\ HourOf(Local(s)) \in Fallback
  <2>1. w \in 0 .. DayHours - 1 /\ d \in Int
    BY ConfigAssumption
  <2> QED
    BY <1>5, <2>1, HourOfDay
<1>6. Windows(t) = { s \in t + Lead .. t + Lookahead * Day : Full(Local(s)) /\ HourOf(Local(s)) \in Fallback }
  BY DEF Windows, Full
<1> QED
  BY <1>4, <1>5, <1>6 DEF Free

\* A recommendation is what the documentation promises, and free.
LEMMA RecommendedIsBest ==
  ASSUME NEW h, NEW t \in Nat, NEW occupied \in SUBSET Int, IsFiniteSet(occupied),
         NEW at \in Recommended(h, occupied, t)
  PROVE  at \in Nat /\ ~Collides(at, occupied) /\ BestSlot(h, occupied, t, at)
<1>1. Lead \in Nat /\ Lookahead \in Nat /\ Day \in Nat /\ Gap \in Nat
  BY Lengths
<1> DEFINE Slots(b) == Free(Occurrences(t, b), occupied)
           usable == { b \in Trusted(h, t) : Slots(b) # {} }
           windows == Free(Windows(t), occupied)
           hours == { s \in t + Lead + 1 .. t + Lookahead * Day : Local(s) % Hour = 0 /\ ~Collides(s, occupied) }
           trusted == { s \in hours : Bucket(s) \in Trusted(h, t) }
           promised == { s \in t + Lead .. t + Lookahead * Day :
                          (\E d \in 0 .. Local(s), w \in Fallback : Local(s) = d * Day + w * Hour)
                          /\ ~Collides(s, occupied) }
<1>2. PICK H \in Nat : H = Lookahead * Day
  BY <1>1
<1>3. \A b \in Trusted(h, t) : b \in Buckets
  BY DEF Trusted
<1>4. \A b \in Trusted(h, t) : Slots(b) = { s \in hours : Bucket(s) = b }
  <2>1. TAKE b \in Trusted(h, t)
  <2>2. Occurrences(t, b) =
          { s \in t + Lead + 1 .. t + Lookahead * Day : Local(s) % Hour = 0 /\ Bucket(s) = b }
    BY <1>3, OccurrencesAreHours DEF Full
  <2> QED
    BY <2>2 DEF Free
<1>5. windows = promised
  BY WindowsAre
<1>6. trusted = {} <=> usable = {}
  BY <1>4
<1>7. ASSUME NEW b \in Trusted(h, t), Slots(b) # {}
      PROVE  Least(Slots(b)) \in Slots(b) /\ \A s \in Slots(b) : Least(Slots(b)) <= s
  <2>1. Slots(b) \in SUBSET Nat
    BY <1>1, <1>2, <1>4
  <2> QED
    BY <1>7, <2>1, LeastNumber
<1>8. windows # {} => Least(windows) \in windows
  <2>1. windows \in SUBSET Nat
    BY <1>1, <1>2 DEF Free, Windows
  <2> QED
    BY <2>1, LeastNumber
<1>9. Least(LeadSlots(t, occupied)) \in LeadSlots(t, occupied)
  <2>1. Cardinality(occupied) \in Nat
    BY FS_CardinalityType
  <2>2. \A k \in 0 .. 2 * Cardinality(occupied) : k * Gap \in Nat
    BY <1>1, <2>1
  <2>3. LeadSlots(t, occupied) \in SUBSET Nat
    BY <1>1, <2>2 DEF LeadSlots, Free
  <2> QED
    BY <2>3, LeadSlotsExist, LeastNumber
<1>10. \A s \in LeadSlots(t, occupied) : s \in Nat /\ s >= t + Lead /\ ~Collides(s, occupied)
  <2>1. Cardinality(occupied) \in Nat
    BY FS_CardinalityType
  <2>2. \A k \in 0 .. 2 * Cardinality(occupied) : k * Gap \in Nat
    BY <1>1, <2>1
  <2> QED
    BY <1>1, <2>2 DEF LeadSlots, Free
<1> HIDE DEF Slots
<1>11. at \in IF usable # {}
              THEN { Least(Slots(b)) : b \in { c \in usable : \A d \in usable : ~Above(h, t, d, c) } }
              ELSE { Least(IF windows # {} THEN windows ELSE LeadSlots(t, occupied)) }
  BY DEF Recommended, Slots
<1>12. BestSlot(h, occupied, t, at) =
         CASE trusted # {} -> /\ at \in trusted
                              /\ \A s \in trusted : ~Above(h, t, Bucket(s), Bucket(at))
                              /\ \A s \in trusted : Bucket(s) = Bucket(at) => at <= s
           [] trusted = {} /\ promised # {} -> at = Least(promised)
           [] OTHER -> at >= t + Lead /\ ~Collides(at, occupied)
  BY DEF BestSlot
<1>13. CASE usable # {}
  <2>1. PICK b \in usable : at = Least(Slots(b)) /\ \A d \in usable : ~Above(h, t, d, b)
    BY <1>11, <1>13
  <2>2. b \in Trusted(h, t) /\ at \in Slots(b) /\ \A s \in Slots(b) : at <= s
    BY <1>7, <2>1
  <2>3. at \in hours /\ Bucket(at) = b
    BY <1>4, <2>2
  <2>4. \A s \in trusted : Bucket(s) \in usable
    BY <1>4
  <2>5. at \in Nat
    BY <1>1, <1>2, <2>3
  <2>6. \A s \in trusted : Bucket(s) = Bucket(at) => at <= s
    BY <1>4, <2>2, <2>3
  <2> QED
    BY <1>6, <1>12, <1>13, <2>1, <2>2, <2>3, <2>4, <2>5, <2>6
<1>14. CASE usable = {} /\ windows # {}
  <2>1. at = Least(windows) /\ at \in windows
    BY <1>8, <1>11, <1>14
  <2>2. at \in Nat /\ ~Collides(at, occupied)
    BY <1>1, <1>2, <2>1 DEF Free, Windows
  <2> QED
    BY <1>5, <1>6, <1>12, <1>14, <2>1, <2>2
<1>15. CASE usable = {} /\ windows = {}
  <2>1. at \in LeadSlots(t, occupied)
    BY <1>9, <1>11, <1>15
  <2> QED
    BY <1>5, <1>6, <1>10, <1>12, <1>15, <2>1
<1> QED
  BY <1>13, <1>14, <1>15

-----------------------------------------------------------------------------
(***************************************************************************)
(* What parse_custom_time returns.                                         *)
(***************************************************************************)

\* The time with the rest r in the present day or year, and one day or year on.
Near(l, d, r) == (l \div d) * d + r

LEMMA RestNear ==
  ASSUME NEW d \in Nat \ {0}, NEW l \in Int, NEW r \in 0 .. d - 1
  PROVE  /\ Near(l, d, r) \in Int /\ Near(l, d, r) % d = r /\ (Near(l, d, r) + d) % d = r
         /\ Near(l, d, r) \div d = l \div d /\ (Near(l, d, r) + d) \div d = l \div d + 1
         /\ Near(l, d, r) < l + d /\ Near(l, d, r) + d > l
<1>1. PICK q \in Int, z \in 0 .. d - 1 : q = l \div d /\ l = q * d + z
  BY DivMod
<1>0. PICK t \in Int : t = Near(l, d, r) /\ t = q * d + r
  <2>2. q * d + r \in Int
    OBVIOUS
  <2> QED
    BY <1>1, <2>2 DEF Near
<1>2. t = q * d + r /\ t % d = r /\ t \div d = q
  BY <1>0, DivModOf
<1>3. t + d = (q + 1) * d + r
  BY <1>0
<1>4. (t + d) % d = r /\ (t + d) \div d = q + 1
  <2>1. q + 1 \in Int
    OBVIOUS
  <2> QED
    BY <1>3, <2>1, DivModOf
<1>5. PICK y \in Int : y = q * d
  BY <1>1
<1> QED
  BY <1>0, <1>1, <1>2, <1>4, <1>5

\* Nothing with the same rest comes before the first one that does.
LEMMA FirstWithRest ==
  ASSUME NEW d \in Nat \ {0}, NEW l \in Int, NEW t \in Int, t <= l + d
  PROVE  \A s \in l + 1 .. t - 1 : s % d # t % d
<1>1. SUFFICES ASSUME NEW s \in l + 1 .. t - 1, s % d = t % d PROVE FALSE
  OBVIOUS
<1>2. s \in Int /\ s < t /\ l < s
  OBVIOUS
<1>3. t >= s + d
  BY <1>1, <1>2, SameRest
<1> QED
  BY <1>2, <1>3

LEMMA TextsAre ==
  ASSUME NEW x \in Texts
  PROVE  /\ x.day \in {"today", "tonight", "tomorrow", "date", "iso"}
         /\ x.time \in 0 .. Day - 1 /\ x.date \in Nat
         /\ x.date * Day + x.time \in Nat
         /\ x.day = "date" => x.date * Day + x.time \in 0 .. Year - 1
<1>1. x.day \in {"today", "tonight", "tomorrow", "date", "iso"} /\ x.time \in 0 .. Day - 1
      /\ x.date \in Nat /\ (x.day = "date" => x.date < YearDays)
  BY TextsAssumption
<1>2. Day \in Nat \ {0} /\ Year \in Nat \ {0} /\ YearDays \in Nat /\ Year = YearDays * Day
  BY Lengths DEF Year
<1>3. PICK e \in Nat : e = x.date * Day
  BY <1>1, <1>2
<1>4. ASSUME x.day = "date" PROVE e + Day <= Year
  <2>1. (x.date + 1) * Day <= YearDays * Day
    BY <1>1, <1>2, <1>4, TimesMonotone
  <2>2. (x.date + 1) * Day = x.date * Day + Day
    BY <1>1, <1>2
  <2> QED
    BY <1>2, <1>3, <2>1, <2>2
<1>5. x.day = "date" => e + x.time \in 0 .. Year - 1
  <2>1. SUFFICES ASSUME x.day = "date" PROVE e + x.time \in 0 .. Year - 1
    OBVIOUS
  <2> QED
    BY <1>1, <1>2, <1>3, <1>4, <2>1
<1>6. e + x.time \in Nat
  BY <1>1, <1>2, <1>3
<1> QED
  BY <1>1, <1>3, <1>5, <1>6

\* The first time to come that fits; refused, it is a full date's or tonight's.
NextFits(x, l, t) ==
  /\ t >= l /\ Fits(x, t)
  /\ IF x.day = "tomorrow" THEN t \div Day = l \div Day + 1
     ELSE \A s \in l + 1 .. t - 1 : ~Fits(x, s)

LEMMA ParsedIsNext ==
  ASSUME NEW x \in Texts, NEW l \in Int
  PROVE  /\ Parsed(x, l) \in Int
         /\ ~Past(l, Parsed(x, l)) => NextFits(x, l, Parsed(x, l))
         /\ Past(l, Parsed(x, l)) => x.day \in {"iso", "tonight"}
<1>1. Day \in Nat \ {0} /\ Year \in Nat \ {0} /\ Grace \in Nat
  BY Lengths, ConfigAssumption
<1>2. /\ x.day \in {"today", "tonight", "tomorrow", "date", "iso"}
      /\ x.time \in 0 .. Day - 1 /\ x.date \in Nat
      /\ x.date * Day + x.time \in Nat
      /\ x.day = "date" => x.date * Day + x.time \in 0 .. Year - 1
  BY TextsAre
<1>3. PICK e \in Nat : e = x.date * Day + x.time
  BY <1>2
<1>4. PICK t \in Int : t = Near(l, Day, x.time)
  BY <1>1, <1>2, RestNear
<1>5. /\ t % Day = x.time /\ (t + Day) % Day = x.time
      /\ (t + Day) \div Day = l \div Day + 1
      /\ t < l + Day /\ t + Day > l
  <2>1. Day \in Nat \ {0}
    BY <1>1
  <2>2. x.time \in 0 .. Day - 1
    BY <1>2
  <2> QED
    BY <1>4, <2>1, <2>2, RestNear
<1>6. CASE x.day = "iso"
  <2>1. Parsed(x, l) = e
    BY <1>3, <1>6 DEF Parsed
  <2>2. \A s \in Int : Fits(x, s) <=> s = e
    BY <1>3, <1>6 DEF Fits
  <2>3. \A s \in l + 1 .. e - 1 : s \in Int /\ s # e
    OBVIOUS
  <2> QED
    BY <1>6, <2>1, <2>2, <2>3 DEF NextFits, Past
<1>7. CASE x.day = "date"
  <2>1. PICK y \in Int : y = Near(l, Year, e)
    BY <1>1, <1>2, <1>3, <1>7, RestNear
  <2>2. e \in 0 .. Year - 1
    BY <1>2, <1>3, <1>7
  <2>3. /\ y % Year = e /\ (y + Year) % Year = e
        /\ y < l + Year /\ y + Year > l
    BY <1>1, <2>1, <2>2, RestNear
  <2>4. Parsed(x, l) = IF y < l THEN y + Year ELSE y
    <3>1. PICK f \in Int : f = (l \div Year) * Year
      <4>1. l \div Year \in Int
        BY <1>1, DivMod
      <4> QED
        BY <1>1, <4>1
    <3>2. PICK g \in Int : g = x.date * Day
      BY <1>1, <1>2
    <3>3. (l \div Year) * Year + x.date * Day + x.time = y
      BY <1>2, <1>3, <2>1, <3>1, <3>2 DEF Near
    <3> QED
      BY <1>7, <3>3 DEF Parsed, Dated
  <2>5. PICK u \in Int : u = Parsed(x, l) /\ u % Year = e /\ u >= l /\ u <= l + Year
    BY <1>1, <2>3, <2>4
  <2>6. \A s \in Int : Fits(x, s) <=> s % Year = e
    BY <1>3, <1>7 DEF Fits
  <2>7. \A s \in l + 1 .. u - 1 : s \in Int /\ s % Year # e
    <3>1. \A s \in l + 1 .. u - 1 : s % Year # u % Year
      BY <1>1, <2>5, FirstWithRest, Zenon
    <3>2. \A s \in l + 1 .. u - 1 : s \in Int
      OBVIOUS
    <3> QED
      BY <2>5, <3>1, <3>2
  <2> QED
    BY <1>7, <2>5, <2>6, <2>7 DEF NextFits, Past
<1>8. CASE x.day \in {"today", "tonight", "tomorrow"}
  <2>1. Parsed(x, l) = Named(x, l)
    BY <1>8 DEF Parsed
  <2>2. \A s \in Int : Fits(x, s) <=> s % Day = x.time
    BY <1>8 DEF Fits
  <2>3. ASSUME NEW u \in Int, u <= l + Day, u % Day = x.time
        PROVE  \A s \in l + 1 .. u - 1 : ~Fits(x, s)
    <3>1. \A s \in l + 1 .. u - 1 : s % Day # u % Day
      BY <1>1, <2>3, FirstWithRest, Zenon
    <3>2. \A s \in l + 1 .. u - 1 : s \in Int
      OBVIOUS
    <3> QED
      BY <2>2, <2>3, <3>1, <3>2
  <2>4. CASE x.day = "tomorrow"
    <3>1. Named(x, l) = t + Day
      BY <1>4, <2>4 DEF Named, Near
    <3> QED
      BY <1>1, <1>5, <2>1, <2>2, <2>4, <3>1, SMTT(30) DEF NextFits, Past
  <2>5. CASE x.day = "today"
    <3>1. Named(x, l) = IF t <= l THEN t + Day ELSE t
      BY <1>4, <2>5 DEF Named, Near
    <3>2. PICK u \in Int : u = Named(x, l) /\ u % Day = x.time /\ u >= l /\ u <= l + Day
      <4>1. CASE t <= l
        BY <1>1, <1>5, <3>1, <4>1
      <4>2. CASE ~(t <= l)
        BY <1>1, <1>5, <3>1, <4>2
      <4> QED
        BY <4>1, <4>2
    <3> QED
      BY <2>1, <2>2, <2>3, <2>5, <3>2 DEF NextFits, Past
  <2>6. CASE x.day = "tonight"
    <3>1. Named(x, l) = IF t <= l /\ l - t > Grace THEN t + Day ELSE t
      BY <1>4, <2>6 DEF Named, Near
    <3>2. PICK u \in Int : u = Named(x, l) /\ u % Day = x.time /\ u <= l + Day
      <4>1. CASE t <= l /\ l - t > Grace
        BY <1>1, <1>5, <3>1, <4>1
      <4>2. CASE ~(t <= l /\ l - t > Grace)
        BY <1>1, <1>5, <3>1, <4>2
      <4> QED
        BY <4>1, <4>2
    <3> QED
      BY <2>1, <2>2, <2>3, <2>6, <3>2 DEF NextFits, Past
  <2> QED
    BY <1>8, <2>4, <2>5, <2>6
<1> QED
  BY <1>2, <1>6, <1>7, <1>8

-----------------------------------------------------------------------------
(***************************************************************************)
(* The inductive invariant.                                                *)
(***************************************************************************)

\* A typed time that is waiting for its confirmation, or was refused.
TypedWell(r) ==
  LET l == Local(r.read)  t == Local(r.at)  x == r.text IN
  /\ r.step = "confirm" => NextFits(x, l, t)
  /\ r.step = "refused" => x.day = "tonight" \/ (x.day = "iso" /\ t < l)

\* What a command holds.
Held(r) ==
  /\ r.step \in {"idle", "insert", "confirm", "refused"}
  /\ r.step # "idle" => r.at \in Int
  /\ r.step = "insert" => BestSlot(r.history, r.occupied, r.read, r.at)
  /\ TypedWell(r)

Apart(t, u) == t - u >= Gap \/ u - t >= Gap

Kinds == {"none", "best", "blind", "now", "typed"}
Row == [at : Int, how : Kinds, status : {"none", "approved", "posted"}]

\* A command works on a candidate without a row.
OneStep(c) == cmd[c].step # "idle" => rows[c] = NoRow

\* Two slots that are recommended and not yet inserted are unaware of each other.
Overlapping == \A c, d \in Candidates : c # d /\ cmd[c].step = "insert" /\ cmd[d].step = "insert" => {c, d} \in unaware

\* A slot that is not yet inserted leaves the gap to the rows it was to leave it to.
SlotKeepsGap ==
  \A c, d \in Candidates :
    c # d /\ {c, d} \notin unaware /\ cmd[c].step = "insert" /\ cmd[c].counted /\ rows[d].how = "best" =>
      Apart(cmd[c].at, rows[d].at)

IsMap(f) == f = [c \in Candidates |-> f[c]]

SchedInv ==
  /\ now \in Nat /\ others \in Others
  /\ IsMap(cmd) /\ rows \in [Candidates -> Row]
  /\ \A c \in Candidates : Held(cmd[c]) /\ OneStep(c) /\ (rows[c].status = "none" => rows[c] = NoRow)
  /\ Overlapping /\ SlotKeepsGap /\ GapKept

LEMMA HeldIsSaid ==
  (\A c \in Candidates : Held(cmd[c])) => SlotIsBest /\ TypedTimeIsNext
BY DEF Held, SlotIsBest, TypedTimeIsNext, TypedWell, NextFits

LEMMA SchedInvInit == Init => SchedInv
<1> SUFFICES ASSUME Init PROVE SchedInv
  OBVIOUS
<1>1. now \in Nat /\ others \in Others /\ IsMap(cmd)
  BY Lengths DEF Init, IsMap
<1>2. \A c \in Candidates : cmd[c].step = "idle" /\ rows[c] = NoRow
  BY DEF Init, Idle
<1>3. rows \in [Candidates -> Row]
  BY DEF Init, NoRow, Row, Kinds
<1>4. \A c \in Candidates : rows[c].how = "none"
  BY <1>2 DEF NoRow
<1> QED
  BY <1>1, <1>2, <1>3, <1>4 DEF SchedInv, Held, TypedWell, OneStep, Overlapping, SlotKeepsGap, GapKept

\* What list_scheduled_queue_rows returns is finite.
LEMMA ScheduledIsFinite ==
  ASSUME SchedInv
  PROVE  Scheduled \in SUBSET Int /\ IsFiniteSet(Scheduled)
<1> DEFINE Times == { rows[c].at : c \in Candidates }
           f == [c \in Candidates |-> rows[c].at]
<1>1. others \subseteq Int /\ IsFiniteSet(others) /\ IsFiniteSet(Candidates)
  BY QueueAssumption DEF SchedInv
<1>2. \A c \in Candidates : rows[c].at \in Int
  BY DEF SchedInv, Row
<1>3. f \in Surjection(Candidates, Times)
  <2>1. f \in [Candidates -> Times] /\ \A t \in Times : \E c \in Candidates : f[c] = t
    OBVIOUS
  <2> HIDE DEF f, Times
  <2> QED
    BY <2>1 DEF Surjection
<1>4. IsFiniteSet(Times)
  <2> HIDE DEF f, Times
  <2> QED
    BY <1>1, <1>3, FS_Surjection
<1>5. IsFiniteSet(others \cup Times)
  <2> HIDE DEF f, Times
  <2> QED
    BY <1>1, <1>4, FS_Union
<1>6. Scheduled \in SUBSET (others \cup Times)
  BY DEF Scheduled
<1>7. IsFiniteSet(Scheduled)
  <2> HIDE DEF Times
  <2> QED
    BY <1>5, <1>6, FS_Subset
<1> QED
  BY <1>1, <1>2, <1>6, <1>7

-----------------------------------------------------------------------------
(***************************************************************************)
(* Every step preserves it.                                                *)
(***************************************************************************)

\* A command's own record is replaced, the rows are not.
LEMMA CommandKeeps ==
  ASSUME SchedInv, NEW c \in Candidates, NEW r, cmd' = [cmd EXCEPT ![c] = r], Held(r), rows[c] = NoRow,
         UNCHANGED <<now, others, rows>>, unaware \subseteq unaware',
         r.step = "insert" =>
           /\ \A d \in Candidates \ {c} : cmd[d].step = "insert" => {c, d} \in unaware'
           /\ \A d \in Candidates \ {c} :
                {c, d} \notin unaware' /\ r.counted /\ rows[d].how = "best" => Apart(r.at, rows[d].at)
  PROVE  SchedInv'
<1>1. /\ IsMap(cmd') /\ cmd'[c] = r
      /\ \A d \in Candidates \ {c} : cmd'[d] = cmd[d]
  BY DEF SchedInv, IsMap
<1>2. rows' = rows /\ now' = now /\ others' = others
  OBVIOUS
<1>3. /\ now \in Nat /\ others \in Others /\ rows \in [Candidates -> Row]
      /\ \A d \in Candidates : Held(cmd[d]) /\ OneStep(d) /\ (rows[d].status = "none" => rows[d] = NoRow)
  BY DEF SchedInv
<1>4. \A d \in Candidates : Held(cmd'[d])
  BY <1>1, <1>3
<1>5. \A d \in Candidates : OneStep(d)'
  BY <1>1, <1>2, <1>3 DEF OneStep
<1>6. Overlapping'
  <2> SUFFICES ASSUME NEW d \in Candidates, NEW e \in Candidates, d # e,
                      cmd'[d].step = "insert", cmd'[e].step = "insert"
               PROVE  {d, e} \in unaware'
    BY DEF Overlapping
  <2>1. {c, d} = {d, c} /\ {c, e} = {e, c}
    OBVIOUS
  <2>2. CASE d = c
    BY <1>1, <2>2
  <2>3. CASE e = c
    BY <1>1, <2>1, <2>3
  <2>4. CASE d # c /\ e # c
    BY <1>1, <2>4 DEF SchedInv, Overlapping
  <2> QED
    BY <2>2, <2>3, <2>4
<1>7. SlotKeepsGap'
  <2> SUFFICES ASSUME NEW d \in Candidates, NEW e \in Candidates, d # e, {d, e} \notin unaware',
                      cmd'[d].step = "insert", cmd'[d].counted, rows'[e].how = "best"
               PROVE  Apart(cmd'[d].at, rows'[e].at)
    BY DEF SlotKeepsGap, Apart
  <2>1. CASE d = c
    BY <1>1, <1>2, <2>1
  <2>2. CASE d # c
    BY <1>1, <1>2, <2>2 DEF SchedInv, SlotKeepsGap
  <2> QED
    BY <2>1, <2>2
<1>8. GapKept'
  <2> SUFFICES ASSUME NEW d \in Candidates, NEW e \in Candidates, d # e, {d, e} \notin unaware',
                      rows'[d].how = "best", rows'[e].how = "best"
               PROVE  rows'[d].at - rows'[e].at >= Gap \/ rows'[e].at - rows'[d].at >= Gap
    BY DEF GapKept
  <2> QED
    BY <1>2 DEF SchedInv, GapKept
<1> QED
  BY <1>1, <1>2, <1>3, <1>4, <1>5, <1>6, <1>7, <1>8 DEF SchedInv

LEMMA ScheduleBestKeeps ==
  ASSUME SchedInv, NEW c \in Candidates, ScheduleBest(c)
  PROVE  SchedInv'
<1>1. PICK h \in Histories \cup {{}}, counted \in BOOLEAN :
        LET occupied == IF counted THEN Scheduled ELSE {} IN
        \E t \in Recommended(h, occupied, now) :
          cmd' = [cmd EXCEPT ![c] = [step |-> "insert", at |-> t, read |-> now,
                                     history |-> h, occupied |-> occupied, counted |-> counted]]
  BY DEF ScheduleBest
<1> DEFINE occupied == IF counted THEN Scheduled ELSE {}
<1>2. PICK t \in Recommended(h, occupied, now) :
        cmd' = [cmd EXCEPT ![c] = [step |-> "insert", at |-> t, read |-> now,
                                   history |-> h, occupied |-> occupied, counted |-> counted]]
  BY <1>1
<1> DEFINE r == [step |-> "insert", at |-> t, read |-> now,
                 history |-> h, occupied |-> occupied, counted |-> counted]
<1>3. now \in Nat /\ occupied \in SUBSET Int /\ IsFiniteSet(occupied)
  BY ScheduledIsFinite, FS_EmptySet DEF SchedInv
<1>4. t \in Nat /\ ~Collides(t, occupied) /\ BestSlot(h, occupied, now, t)
  <2> HIDE DEF occupied
  <2> QED
    BY <1>3, RecommendedIsBest
<1>5. Held(r)
  <2> HIDE DEF occupied
  <2> QED
    BY <1>4 DEF Held, TypedWell
<1>6. unaware \subseteq unaware' /\ UNCHANGED <<now, others, rows>> /\ rows[c] = NoRow
  BY DEF ScheduleBest, Ready
<1>7. \A d \in Candidates :
        \/ cmd[d].step = "insert" \/ rows[d].status = "posted" \/ (rows[d] # NoRow /\ rows[d].at < now)
          => {c, d} \in unaware'
  BY DEF ScheduleBest
<1>8. ASSUME NEW d \in Candidates \ {c}, {c, d} \notin unaware', counted, rows[d].how = "best"
      PROVE  Apart(t, rows[d].at)
  <2>1. rows[d].status # "posted" /\ rows[d] # NoRow /\ ~ (rows[d].at < now)
    BY <1>7, <1>8 DEF NoRow
  <2>2. rows[d] \in Row /\ rows[d].at \in Int /\ (rows[d].status = "none" => rows[d] = NoRow)
    BY DEF SchedInv, Row
  <2>3. rows[d].status = "approved"
    BY <2>1, <2>2 DEF Row
  <2>4. rows[d].at \in Scheduled
    BY <1>3, <2>1, <2>2, <2>3 DEF Scheduled
  <2>5. rows[d].at \in occupied
    BY <1>8, <2>4
  <2> HIDE DEF occupied
  <2>6. t \in Int /\ occupied \in SUBSET Int /\ ~Collides(t, occupied)
    BY <1>3, <1>4
  <2>7. t - rows[d].at >= Gap \/ rows[d].at - t >= Gap
    BY <2>5, <2>6, FreeKeepsGap
  <2> QED
    BY <2>7 DEF Apart
<1> HIDE DEF occupied
<1> QED
  BY <1>2, <1>5, <1>6, <1>7, <1>8, CommandKeeps

LEMMA TypeTimeKeeps ==
  ASSUME SchedInv, NEW c \in Candidates, NEW x \in Texts, TypeTime(c, x)
  PROVE  SchedInv'
<1> DEFINE t == Parsed(x, Local(now))
           r == [step |-> IF Past(Local(now), t) THEN "refused" ELSE "confirm",
                 at |-> Utc(t), text |-> x, read |-> now]
<1>1. now \in Nat /\ Offset \in Nat
  BY Lengths DEF SchedInv
<1>2. PICK l \in Int : l = Local(now)
  BY <1>1 DEF Local
<1>3. /\ t \in Int /\ (~Past(l, t) => NextFits(x, l, t))
      /\ Past(l, t) => x.day \in {"iso", "tonight"}
  BY <1>2, ParsedIsNext
<1> HIDE DEF t
<1>4. Utc(t) \in Int /\ Local(Utc(t)) = t
  BY <1>1, <1>3 DEF Utc, Local
<1>5. Held(r)
  <2>1. r.step \in {"confirm", "refused"} /\ r.at = Utc(t) /\ r.text = x /\ Local(r.read) = l
    BY <1>2
  <2>2. TypedWell(r)
    <3>1. r.step = "refused" => Past(l, t)
      BY <1>2
    <3>2. r.step = "confirm" => ~Past(l, t)
      BY <1>2
    <3> HIDE DEF r
    <3> QED
      BY <1>3, <1>4, <2>1, <3>1, <3>2 DEF TypedWell, Past
  <2> HIDE DEF r
  <2> QED
    BY <1>4, <2>1, <2>2 DEF Held
<1>6. cmd' = [cmd EXCEPT ![c] = r] /\ UNCHANGED <<now, others, rows, unaware>> /\ rows[c] = NoRow
  BY DEF TypeTime, Ready, t
<1>7. r.step # "insert"
  OBVIOUS
<1> HIDE DEF r
<1> QED
  BY <1>5, <1>6, <1>7, CommandKeeps

LEMMA TypeAgainKeeps ==
  ASSUME SchedInv, NEW c \in Candidates, TypeAgain(c)
  PROVE  SchedInv'
<1>1. Held(Idle) /\ Idle.step = "idle"
  BY DEF Held, TypedWell, Idle
<1>2. rows[c] = NoRow
  BY DEF SchedInv, OneStep, TypeAgain
<1> QED
  BY <1>1, <1>2, CommandKeeps DEF TypeAgain

\* A row is inserted, and the command is done.
LEMMA InsertKeeps ==
  ASSUME SchedInv, NEW c \in Candidates, NEW t \in Int, NEW how \in Kinds \ {"none"}, Insert(c, t, how),
         rows[c] = NoRow, cmd' = [cmd EXCEPT ![c] = Idle], UNCHANGED <<now, others, unaware>>,
         how = "best" => cmd[c].step = "insert" /\ cmd[c].counted /\ cmd[c].at = t
  PROVE  SchedInv'
<1> DEFINE row == [at |-> t, how |-> how, status |-> "approved"]
<1>1. /\ IsMap(cmd') /\ cmd'[c] = Idle
      /\ \A d \in Candidates \ {c} : cmd'[d] = cmd[d]
  BY DEF SchedInv, IsMap
<1>2. /\ rows'[c] = row /\ row \in Row
      /\ \A d \in Candidates \ {c} : rows'[d] = rows[d]
      /\ rows' \in [Candidates -> Row]
  BY DEF SchedInv, Insert, Row
<1>3. now' = now /\ others' = others /\ unaware' = unaware
  OBVIOUS
<1>4. /\ now \in Nat /\ others \in Others /\ rows \in [Candidates -> Row]
      /\ \A d \in Candidates : Held(cmd[d]) /\ OneStep(d) /\ (rows[d].status = "none" => rows[d] = NoRow)
  BY DEF SchedInv
<1>5. \A d \in Candidates : Held(cmd'[d])
  <2>1. Held(Idle)
    BY DEF Held, TypedWell, Idle
  <2> QED
    BY <1>1, <1>4, <2>1
<1>6. \A d \in Candidates : OneStep(d)'
  BY <1>1, <1>2, <1>4 DEF OneStep, Idle
<1>7. \A d \in Candidates : rows'[d].status = "none" => rows'[d] = NoRow
  BY <1>2, <1>4
<1>8. Overlapping'
  BY <1>1, <1>3 DEF SchedInv, Overlapping, Idle
<1>9. SlotKeepsGap'
  <2> SUFFICES ASSUME NEW d \in Candidates, NEW e \in Candidates, d # e, {d, e} \notin unaware',
                      cmd'[d].step = "insert", cmd'[d].counted, rows'[e].how = "best"
               PROVE  Apart(cmd'[d].at, rows'[e].at)
    BY DEF SlotKeepsGap, Apart
  <2>1. d # c /\ cmd'[d] = cmd[d]
    BY <1>1 DEF Idle
  <2>2. CASE e = c
    <3>1. how = "best" /\ cmd[c].step = "insert"
      BY <1>2, <2>2
    <3>2. {d, c} \in unaware
      BY <2>1, <3>1 DEF SchedInv, Overlapping
    <3> QED
      BY <1>3, <2>2, <3>2
  <2>3. CASE e # c
    <3>1. rows'[e] = rows[e]
      BY <1>2, <2>3
    <3> QED
      BY <1>3, <2>1, <3>1 DEF SchedInv, SlotKeepsGap
  <2> QED
    BY <2>2, <2>3
<1>10. GapKept'
  <2>1. ASSUME NEW d \in Candidates \ {c}, {c, d} \notin unaware, how = "best", rows[d].how = "best"
        PROVE  Apart(t, rows[d].at)
    BY <2>1 DEF SchedInv, SlotKeepsGap
  <2> SUFFICES ASSUME NEW d \in Candidates, NEW e \in Candidates, d # e, {d, e} \notin unaware',
                      rows'[d].how = "best", rows'[e].how = "best"
               PROVE  rows'[d].at - rows'[e].at >= Gap \/ rows'[e].at - rows'[d].at >= Gap
    BY DEF GapKept
  <2>2. CASE d = c
    <3>1. rows'[e] = rows[e] /\ e \in Candidates \ {c} /\ rows'[d].at = t /\ how = "best"
      BY <1>2, <2>2
    <3>2. Apart(t, rows[e].at)
      BY <1>3, <2>1, <2>2, <3>1
    <3> QED
      BY <3>1, <3>2 DEF Apart
  <2>3. CASE e = c
    <3>1. rows'[d] = rows[d] /\ d \in Candidates \ {c} /\ rows'[e].at = t /\ how = "best"
      BY <1>2, <2>3
    <3>2. {c, d} = {d, e}
      BY <2>3
    <3>3. Apart(t, rows[d].at)
      BY <1>3, <2>1, <3>1, <3>2
    <3> QED
      BY <3>1, <3>3 DEF Apart
  <2>4. CASE d # c /\ e # c
    <3>1. rows'[d] = rows[d] /\ rows'[e] = rows[e]
      BY <1>2, <2>4
    <3> QED
      BY <1>3, <3>1 DEF SchedInv, GapKept
  <2> QED
    BY <2>2, <2>3, <2>4
<1> QED
  BY <1>1, <1>2, <1>3, <1>4, <1>5, <1>6, <1>7, <1>8, <1>9, <1>10 DEF SchedInv

LEMMA InsertBestKeeps ==
  ASSUME SchedInv, NEW c \in Candidates, InsertBest(c)
  PROVE  SchedInv'
<1>1. cmd[c].at \in Int /\ rows[c] = NoRow
  BY DEF SchedInv, Held, OneStep, InsertBest
<1>2. PICK how \in Kinds \ {"none"} :
        /\ Insert(c, cmd[c].at, how)
        /\ how = "best" => cmd[c].counted
  BY DEF InsertBest, Kinds
<1>3. cmd[c].step = "insert" /\ cmd' = [cmd EXCEPT ![c] = Idle] /\ UNCHANGED <<now, others, unaware>>
  BY DEF InsertBest
<1> QED
  BY <1>1, <1>2, <1>3, InsertKeeps

LEMMA ConfirmKeeps ==
  ASSUME SchedInv, NEW c \in Candidates, Confirm(c)
  PROVE  SchedInv'
<1>1. cmd[c].at \in Int /\ rows[c] = NoRow
  BY DEF SchedInv, Held, OneStep, Confirm
<1>2. Insert(c, cmd[c].at, "typed") /\ "typed" \in Kinds \ {"none"} /\ "typed" # "best"
  BY DEF Confirm, Kinds
<1>3. cmd' = [cmd EXCEPT ![c] = Idle] /\ UNCHANGED <<now, others, unaware>>
  BY DEF Confirm
<1> QED
  BY <1>1, <1>2, <1>3, InsertKeeps

LEMMA ScheduleNowKeeps ==
  ASSUME SchedInv, NEW c \in Candidates, ScheduleNow(c)
  PROVE  SchedInv'
<1>1. now \in Int /\ rows[c] = NoRow /\ cmd[c] = Idle
  BY DEF SchedInv, ScheduleNow, Ready
<1>2. Insert(c, now, "now") /\ "now" \in Kinds \ {"none"} /\ "now" # "best"
  BY DEF ScheduleNow, Kinds
<1>3. cmd' = [cmd EXCEPT ![c] = Idle] /\ UNCHANGED <<now, others, unaware>>
  <2>1. [cmd EXCEPT ![c] = Idle] = cmd
    BY <1>1 DEF SchedInv, IsMap
  <2> QED
    BY <2>1 DEF ScheduleNow
<1> QED
  BY <1>1, <1>2, <1>3, InsertKeeps

LEMMA PostDueKeeps ==
  ASSUME SchedInv, NEW c \in Candidates, PostDue(c)
  PROVE  SchedInv'
<1>1. rows' = [rows EXCEPT ![c] = [rows[c] EXCEPT !.status = "posted"]] /\ rows[c].status = "approved"
      /\ UNCHANGED <<now, others, cmd, unaware>>
  BY DEF PostDue
<1>2. /\ now \in Nat /\ others \in Others /\ rows \in [Candidates -> Row] /\ IsMap(cmd)
      /\ \A d \in Candidates : Held(cmd[d]) /\ OneStep(d) /\ (rows[d].status = "none" => rows[d] = NoRow)
  BY DEF SchedInv
<1>3. /\ \A d \in Candidates : rows'[d].at = rows[d].at /\ rows'[d].how = rows[d].how
      /\ rows' \in [Candidates -> Row] /\ rows'[c].status = "posted"
      /\ \A d \in Candidates \ {c} : rows'[d] = rows[d]
  BY <1>1, <1>2 DEF Row
<1>4. \A d \in Candidates : OneStep(d)'
  <2>1. rows[c] # NoRow
    BY <1>1 DEF NoRow
  <2> QED
    BY <1>1, <1>2, <1>3, <2>1 DEF OneStep
<1>5. \A d \in Candidates : rows'[d].status = "none" => rows'[d] = NoRow
  BY <1>2, <1>3
<1>6. Overlapping' /\ SlotKeepsGap' /\ GapKept'
  BY <1>1, <1>3 DEF SchedInv, Overlapping, SlotKeepsGap, GapKept
<1> QED
  BY <1>1, <1>2, <1>3, <1>4, <1>5, <1>6 DEF SchedInv

LEMMA SchedInvNext == SchedInv /\ [Next]_vars => SchedInv'
<1> SUFFICES ASSUME SchedInv, [Next]_vars PROVE SchedInv'
  OBVIOUS
<1>1. CASE Tick
  <2>1. now' \in Nat /\ UNCHANGED <<others, rows, cmd, unaware>>
    BY <1>1 DEF Tick, SchedInv
  <2> QED
    BY <2>1 DEF SchedInv, OneStep, Overlapping, SlotKeepsGap, GapKept
<1>2. CASE UNCHANGED vars
  BY <1>2 DEF vars, SchedInv, OneStep, Overlapping, SlotKeepsGap, GapKept
<1>3. ASSUME NEW c \in Candidates,
             \/ ScheduleBest(c) \/ InsertBest(c) \/ ScheduleNow(c)
             \/ TypeAgain(c) \/ Confirm(c) \/ PostDue(c)
             \/ \E x \in Texts : TypeTime(c, x)
      PROVE  SchedInv'
  BY <1>3, ScheduleBestKeeps, InsertBestKeeps, ScheduleNowKeeps, TypeAgainKeeps, ConfirmKeeps, PostDueKeeps,
     TypeTimeKeeps
<1> QED
  BY <1>1, <1>2, <1>3 DEF Next

THEOREM SchedInvHolds == Spec => []SchedInv
<1>1. Init => SchedInv
  BY SchedInvInit
<1>2. SchedInv /\ [Next]_vars => SchedInv'
  BY SchedInvNext
<1> QED
  BY <1>1, <1>2, PTL DEF Spec

-----------------------------------------------------------------------------
(***************************************************************************)
(* The theorems.                                                           *)
(***************************************************************************)

\* The loops of recommend_slot, one occurrence computed from the other, the hourly grid and
\* the last resort, agree with the promise of its module: the slot a command goes on to
\* insert is the best one.
THEOREM RecommendsBest == Spec => []SlotIsBest
<1>1. SchedInv => SlotIsBest
  BY HeldIsSaid DEF SchedInv
<1> QED
  BY <1>1, SchedInvHolds, PTL

\* Rows that schedule-best inserts keep min_gap_minutes to each other, but for the commands
\* that overlapped, were blind, or met a row that was already due.
THEOREM BestTimesKeepGap == Spec => []GapKept
<1>1. SchedInv => GapKept
  BY DEF SchedInv
<1> QED
  BY <1>1, SchedInvHolds, PTL

\* The time parse_custom_time gives a session to confirm is the first to come that the text
\* fits, across every day and year, and of the others only a full date that is over is
\* refused; of a tonight that is over it says nothing.
THEOREM TypedTimeNext == Spec => []TypedTimeIsNext
<1>1. SchedInv => TypedTimeIsNext
  BY HeldIsSaid DEF SchedInv
<1> QED
  BY <1>1, SchedInvHolds, PTL
=============================================================================
