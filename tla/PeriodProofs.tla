----------------------------- MODULE PeriodProofs -----------------------------
(***************************************************************************)
(* For any crons that fire often enough for the windows in which the code  *)
(* looks for them (Regular): a reconcile acts on the latest transition     *)
(* there was, whatever was cached, and no requeue oversleeps one.          *)
(***************************************************************************)
EXTENDS Period, WellFoundedInduction, TLAPS

-----------------------------------------------------------------------------
(* Largest and smallest members *)

\* A nonempty set of naturals has a least member.
LEMMA LeastNat == ASSUME NEW T, T \subseteq Nat, T # {} PROVE \E x \in T : \A y \in T : x <= y
<1> DEFINE R == {ss \in Nat \X Nat : ss[1] < ss[2]}
<1>1. IsWellFoundedOn(R, Nat)
  BY NatLessThanWellFounded DEF OpToRel
<1>2. PICK x \in T : \A y \in T : <<y, x>> \notin R
  BY <1>1, WFMin
<1>3. \A y \in T : ~(y < x)
  BY <1>2
<1>4. \A y \in T : x <= y
  BY <1>3
<1> QED
  BY <1>4

\* A nonempty set of integers with an upper bound has a largest member.
LEMMA MaxIs ==
    ASSUME NEW S, S \subseteq Int, S # {}, NEW b \in Int, \A x \in S : x <= b
    PROVE  Max(S) \in S /\ \A y \in S : y <= Max(S)
<1> DEFINE T == {b - x : x \in S}
<1>1. T # {}
  OBVIOUS
<1>2. \A x \in S : b - x \in Nat
  OBVIOUS
<1>3. T \subseteq Nat
  BY <1>2
<1>4. PICK d \in T : \A e \in T : d <= e
  BY <1>1, <1>3, LeastNat
<1>5. PICK m \in S : d = b - m
  BY <1>4
<1>6. \A y \in S : m >= y
  <2> SUFFICES ASSUME NEW y \in S PROVE m >= y
    OBVIOUS
  <2>1. b - y \in T
    OBVIOUS
  <2>2. b - m <= b - y
    BY <1>4, <1>5, <2>1
  <2> QED
    BY <2>2
<1>7. \E x \in S : \A y \in S : x >= y
  BY <1>6
<1>8. Max(S) \in S /\ \A y \in S : Max(S) >= y
  BY <1>7, Zenon DEF Max
<1> QED
  BY <1>8

\* A nonempty set of naturals has a smallest member.
LEMMA MinIs ==
    ASSUME NEW S, S \subseteq Nat, S # {}
    PROVE  Min(S) \in S /\ \A y \in S : Min(S) <= y
BY LeastNat, Zenon DEF Min

\* The larger and the smaller of two.
LEMMA TwoAre ==
    ASSUME NEW a \in Int, NEW b \in Int
    PROVE  /\ Max({a, b}) = IF a >= b THEN a ELSE b
           /\ Min({a, b}) = IF a <= b THEN a ELSE b
<1>1. \E x \in {a, b} : \A y \in {a, b} : x >= y
  BY a >= b \/ b >= a
<1>2. Max({a, b}) \in {a, b} /\ \A y \in {a, b} : Max({a, b}) >= y
  BY <1>1, Zenon DEF Max
<1>3. \E x \in {a, b} : \A y \in {a, b} : x =< y
  BY a <= b \/ b <= a
<1>4. Min({a, b}) \in {a, b} /\ \A y \in {a, b} : Min({a, b}) =< y
  BY <1>3, Zenon DEF Min
<1> QED
  BY <1>2, <1>4

-----------------------------------------------------------------------------
(* The calendar *)

\* Moments the clock comes to.
OnClock(t) == t \in Nat /\ t <= Until + MaxLate /\ \E s \in Starts : s <= t

\* c fires at f.
Fires(c, f) == \E d \in Days[c], x \in Times[c] : f = d * Day + x

\* The units of time, as numbers.
LEMMA DayIs == Day = 2880 /\ Minute = 2
BY DEF Day, Hour, Minute

\* The day of a moment.
LEMMA DayOf ==
    ASSUME NEW t \in Nat
    PROVE  t \div Day \in Nat /\ (t \div Day) * Day <= t /\ t < (t \div Day) * Day + Day
BY DayIs

\* The moments of the clock lie on its days, and not the last day of the calendar.
LEMMA ClockIs ==
    ASSUME NEW t, OnClock(t)
    PROVE  t \div Day \in ClockDays /\ (Until + MaxLate) \div Day \in ClockDays
<1>1. PICK s \in Starts : s <= t
  BY DEF OnClock
<1>2. s \in Nat /\ t \in Nat /\ Until + MaxLate \in Nat /\ t <= Until + MaxLate
  BY PeriodAssumption DEF OnClock
<1>3. /\ s \div Day <= t \div Day /\ t \div Day <= (Until + MaxLate) \div Day
      /\ s \div Day \in Nat /\ t \div Day \in Nat /\ (Until + MaxLate) \div Day \in Nat
  BY <1>1, <1>2, DayIs
<1> QED
  BY <1>1, <1>3 DEF ClockDays

\* Crons fire at times of the day, on days of the calendar.
LEMMA CronIs ==
    ASSUME NEW c \in Crons
    PROVE  /\ Times[c] \subseteq 0..(Day - 1) /\ Times[c] \subseteq Nat /\ Times[c] # {}
           /\ \A x \in Times[c] : x <= Day
           /\ Days[c] \subseteq 0..LastDay /\ LastDay \in Nat
<1>1. /\ c.hour.at # {} /\ c.hour.at \subseteq 0..23
      /\ c.minute.at # {} /\ c.minute.at \subseteq 0..59
  BY PeriodAssumption
<1>2. \A h \in 0..23, m \in 0..59 : h * Hour + m * Minute \in 0..(Day - 1)
  BY DEF Day, Hour, Minute
<1>3. Times[c] = {h * Hour + m * Minute : h \in c.hour.at, m \in c.minute.at}
  BY DEF Times
<1>4. Days[c] = {d \in 0..LastDay : FiresOn(c, d)}
  BY DEF Days
<1>5. Times[c] # {}
  BY <1>1, <1>3
<1>6. Times[c] \subseteq 0..(Day - 1)
  BY <1>1, <1>2, <1>3
<1>7. \A x \in 0..(Day - 1) : x \in Nat /\ x <= Day
  BY DayIs
<1> QED
  BY <1>4, <1>5, <1>6, <1>7, PeriodAssumption

\* Every window is of two days at least.
LEMMA WindowIs ==
    ASSUME NEW c
    PROVE  getSearchWindow(analyzeScheduleFrequency(c)) \in Nat
           /\ getSearchWindow(analyzeScheduleFrequency(c)) >= Day + Day
<1> DEFINE freq == analyzeScheduleFrequency(c)
<1>1. freq \in {"minute", "hourly", "daily", "weekly", "monthly", "rare"}
  BY DEF analyzeScheduleFrequency
<1> HIDE DEF freq
<1>2. getSearchWindow(freq) \in Nat /\ getSearchWindow(freq) >= Day + Day
  BY <1>1 DEF getSearchWindow, Day, Hour, Minute
<1> QED
  BY <1>2 DEF freq

\* The nearest days of a cron that has days before and after d.
LEMMA DaysNear ==
    ASSUME NEW c \in Crons, NEW d \in Nat
    PROVE  /\ (\E e \in Days[c] : e < d) =>
                /\ DayBefore(c, d) \in Days[c] /\ DayBefore(c, d) < d
                /\ \A e \in Days[c] : e < d => e <= DayBefore(c, d)
           /\ (\E e \in Days[c] : e > d) =>
                /\ DayAfter(c, d) \in Days[c] /\ DayAfter(c, d) > d
                /\ \A e \in Days[c] : e > d => DayAfter(c, d) <= e
<1>1. Days[c] \subseteq 0..LastDay /\ LastDay \in Nat
  BY CronIs
<1>2. \A i, j : DaysIn(c, i, j) = {e \in i..j : e \in Days[c]}
  BY DEF DaysIn
<1>3. ASSUME NEW e0 \in Days[c], e0 < d
      PROVE  /\ DayBefore(c, d) \in Days[c] /\ DayBefore(c, d) < d
             /\ \A e \in Days[c] : e < d => e <= DayBefore(c, d)
  <2> DEFINE week == DaysIn(c, d - 7, d - 1)
             before == DaysIn(c, 0, d - 8)
             S == IF week # {} THEN week ELSE before
  <2>1. DayBefore(c, d) = Max(S)
    BY DEF DayBefore
  <2>2. week = {e \in (d - 7)..(d - 1) : e \in Days[c]} /\ before = {e \in 0..(d - 8) : e \in Days[c]}
    BY <1>2
  <2> HIDE DEF week, before
  <2>3. S \subseteq Days[c] /\ S \subseteq Int /\ \A e \in S : e <= d - 1
    BY <1>1, <2>2
  <2>4. S # {}
    BY <1>1, <1>3, <2>2
  <2>5. \A e \in Days[c] : e < d => e \in S \/ \E f \in S : e <= f
    <3> SUFFICES ASSUME NEW e \in Days[c], e < d, e \notin S PROVE \E f \in S : e <= f
      OBVIOUS
    <3>1. e \in Int /\ e >= 0
      BY <1>1
    <3>2. week # {} /\ e \notin (d - 7)..(d - 1)
      BY <2>2, <3>1
    <3>3. PICK f \in week : TRUE
      BY <3>2
    <3> QED
      BY <2>2, <3>1, <3>2, <3>3
  <2> HIDE DEF S
  <2>6. Max(S) \in S /\ \A y \in S : y <= Max(S)
    <3>1. d - 1 \in Int
      OBVIOUS
    <3> QED
      BY <2>3, <2>4, <3>1, MaxIs
  <2> DEFINE m == Max(S)
  <2>7. m \in S /\ DayBefore(c, d) = m /\ (\A y \in S : y <= m)
    BY <2>1, <2>6
  <2> HIDE DEF m
  <2>8. \A e \in Days[c] : e < d => e <= m
    <3> SUFFICES ASSUME NEW e \in Days[c], e < d PROVE e <= m
      OBVIOUS
    <3>1. PICK f \in S : e <= f
      BY <1>1, <2>5
    <3> QED
      BY <1>1, <2>3, <2>7, <3>1
  <2>9. m \in Int /\ m < d
    BY <2>3, <2>7
  <2> QED
    BY <2>3, <2>7, <2>8, <2>9
<1>4. ASSUME NEW e0 \in Days[c], e0 > d
      PROVE  /\ DayAfter(c, d) \in Days[c] /\ DayAfter(c, d) > d
             /\ \A e \in Days[c] : e > d => DayAfter(c, d) <= e
  <2> DEFINE week == DaysIn(c, d + 1, d + 7)
             after == DaysIn(c, d + 8, LastDay)
             S == IF week # {} THEN week ELSE after
  <2>1. DayAfter(c, d) = Min(S)
    BY DEF DayAfter
  <2>2. /\ week = {e \in (d + 1)..(d + 7) : e \in Days[c]}
        /\ after = {e \in (d + 8)..LastDay : e \in Days[c]}
    BY <1>2
  <2> HIDE DEF week, after
  <2>3. S \subseteq Days[c] /\ S \subseteq Nat /\ \A e \in S : e > d
    BY <1>1, <2>2
  <2>4. S # {}
    BY <1>1, <1>4, <2>2
  <2>5. \A e \in Days[c] : e > d => e \in S \/ \E f \in S : f <= e
    <3> SUFFICES ASSUME NEW e \in Days[c], e > d, e \notin S PROVE \E f \in S : f <= e
      OBVIOUS
    <3>1. e \in Int /\ e <= LastDay
      BY <1>1
    <3>2. week # {} /\ e \notin (d + 1)..(d + 7)
      BY <1>1, <2>2, <3>1
    <3>3. PICK f \in week : TRUE
      BY <3>2
    <3> QED
      BY <2>2, <3>1, <3>2, <3>3
  <2> HIDE DEF S
  <2>6. Min(S) \in S /\ \A y \in S : Min(S) <= y
    BY <2>3, <2>4, MinIs
  <2> DEFINE m == Min(S)
  <2>7. m \in S /\ DayAfter(c, d) = m /\ (\A y \in S : m <= y)
    BY <2>1, <2>6
  <2> HIDE DEF m
  <2>8. \A e \in Days[c] : e > d => m <= e
    <3> SUFFICES ASSUME NEW e \in Days[c], e > d PROVE m <= e
      OBVIOUS
    <3>1. PICK f \in S : f <= e
      BY <1>1, <2>5
    <3> QED
      BY <1>1, <2>3, <2>7, <3>1
  <2> QED
    BY <2>3, <2>7, <2>8
<1> QED
  BY <1>3, <1>4

\* Latest and Soonest are the occurrences next to t, on either side; the former lies in
\* the window of its cron, the latter in the calendar.
LEMMA LatestIs ==
    ASSUME Regular, NEW c \in Crons, NEW t, OnClock(t)
    PROVE  /\ Latest(c, t) \in Int /\ Fires(c, Latest(c, t)) /\ Latest(c, t) <= t
           /\ Latest(c, t) > t - getSearchWindow(analyzeScheduleFrequency(c))
           /\ \A f : Fires(c, f) /\ f <= t => f <= Latest(c, t)
<1> DEFINE d == t \div Day
           W == getSearchWindow(analyzeScheduleFrequency(c))
           today == {x \in Times[c] : d \in Days[c] /\ d * Day + x <= t}
<1>1. t \in Nat /\ d \in Nat /\ d \in ClockDays /\ d * Day <= t /\ t < d * Day + Day
  BY ClockIs, DayOf DEF OnClock
<1>2. Times[c] \subseteq 0..(Day - 1) /\ Times[c] # {} /\ Days[c] \subseteq 0..LastDay /\ LastDay \in Nat
  BY CronIs
<1>3. W \in Nat /\ W >= Day + Day
  BY WindowIs
<1>4. PICK e0 \in Days[c] : e0 < d /\ e0 * Day >= (d + 1) * Day - W
  BY <1>1 DEF Regular
<1>5. Latest(c, t) = IF today # {} THEN d * Day + Max(today) ELSE DayBefore(c, d) * Day + Max(Times[c])
  BY DEF Latest
<1> HIDE DEF d, W
<1>6. CASE today # {}
  <2> DEFINE m == Max(today)
  <2>1. m \in today /\ \A y \in today : y <= m
    <3>1. today \subseteq Int /\ Day \in Int /\ \A x \in today : x <= Day
      BY CronIs, DayIs
    <3> QED
      BY <1>6, <3>1, MaxIs
  <2>2. Latest(c, t) = d * Day + m
    BY <1>5, <1>6
  <2> HIDE DEF m
  <2>3. m \in Times[c] /\ d \in Days[c] /\ d * Day + m <= t
    BY <2>1
  <2>4. m \in 0..(Day - 1)
    BY <1>2, <2>3
  <2>5. Fires(c, Latest(c, t))
    BY <2>2, <2>3 DEF Fires
  <2>6. Latest(c, t) \in Int /\ Latest(c, t) > t - W
    BY <1>1, <1>3, <2>2, <2>4, DayIs
  <2>7. ASSUME NEW f, Fires(c, f), f <= t PROVE f <= d * Day + m
    <3>1. PICK e \in Days[c], y \in Times[c] : f = e * Day + y
      BY <2>7 DEF Fires
    <3>2. e \in Nat /\ y \in 0..(Day - 1)
      BY <1>2
    <3>3. e <= d
      BY <1>1, <2>7, <3>1, <3>2, DayIs
    <3>4. CASE e = d
      BY <1>1, <2>1, <2>4, <2>7, <3>1, <3>2, <3>4, DayIs
    <3>5. CASE e < d
      BY <1>1, <2>4, <3>1, <3>2, <3>5, DayIs
    <3> QED
      BY <1>1, <3>2, <3>3, <3>4, <3>5
  <2> QED
    BY <2>2, <2>3, <2>5, <2>6, <2>7 DEF W
<1>7. CASE today = {}
  <2> DEFINE e1 == DayBefore(c, d)
             m == Max(Times[c])
  <2>1. e1 \in Days[c] /\ e1 < d /\ \A e \in Days[c] : e < d => e <= e1
    BY <1>1, <1>4, DaysNear
  <2>2. m \in Times[c] /\ \A y \in Times[c] : y <= m
    <3>1. Times[c] \subseteq Int /\ Day \in Int /\ \A x \in Times[c] : x <= Day
      BY CronIs, DayIs
    <3> QED
      BY <1>2, <3>1, MaxIs
  <2>3. Latest(c, t) = e1 * Day + m
    BY <1>5, <1>7
  <2> HIDE DEF e1, m
  <2>4. m \in 0..(Day - 1) /\ e1 \in Nat /\ e0 \in Nat /\ e0 <= e1
    BY <1>2, <1>4, <2>1, <2>2
  <2>5. Fires(c, Latest(c, t))
    BY <2>1, <2>2, <2>3 DEF Fires
  <2>6. Latest(c, t) \in Int /\ Latest(c, t) > t - W /\ Latest(c, t) <= t
    BY <1>1, <1>3, <1>4, <2>1, <2>3, <2>4, DayIs
  <2>7. ASSUME NEW f, Fires(c, f), f <= t PROVE f <= e1 * Day + m
    <3>1. PICK e \in Days[c], y \in Times[c] : f = e * Day + y
      BY <2>7 DEF Fires
    <3>2. e \in Nat /\ y \in 0..(Day - 1)
      BY <1>2
    <3>3. e <= d
      BY <1>1, <2>7, <3>1, <3>2, DayIs
    <3>4. e # d
      BY <1>7, <2>7, <3>1
    <3>5. e <= e1 /\ y <= m
      BY <1>1, <2>1, <2>2, <3>2, <3>3, <3>4
    <3> QED
      BY <2>4, <3>1, <3>2, <3>5, DayIs
  <2> QED
    BY <2>3, <2>5, <2>6, <2>7 DEF W
<1> QED
  BY <1>6, <1>7

\* The first firing after t is one, later than t and less than a calendar away, and no
\* other comes before it.
LEMMA SoonestIs ==
    ASSUME Regular, NEW c \in Crons, NEW t, OnClock(t)
    PROVE  /\ Soonest(c, t) \in Nat /\ Fires(c, Soonest(c, t)) /\ Soonest(c, t) > t
           /\ Soonest(c, t) < (LastDay + 1) * Day
           /\ \A f : Fires(c, f) /\ f > t => Soonest(c, t) <= f
<1> DEFINE d == t \div Day
           today == {x \in Times[c] : d \in Days[c] /\ d * Day + x > t}
<1>1. t \in Nat /\ d \in Nat /\ d \in ClockDays /\ d * Day <= t /\ t < d * Day + Day
  BY ClockIs, DayOf DEF OnClock
<1>2. Times[c] \subseteq 0..(Day - 1) /\ Times[c] # {} /\ Days[c] \subseteq 0..LastDay /\ LastDay \in Nat
  BY CronIs
<1>3. PICK e0 \in Days[c] : e0 > d
  BY <1>1 DEF Regular
<1>4. Times[c] \subseteq Nat
  BY CronIs
<1>5. Soonest(c, t) = IF today # {} THEN d * Day + Min(today) ELSE DayAfter(c, d) * Day + Min(Times[c])
  BY DEF Soonest
<1> HIDE DEF d
<1>6. CASE today # {}
  <2> DEFINE m == Min(today)
  <2>1. m \in today /\ \A y \in today : m <= y
    <3>1. today \subseteq Nat
      BY <1>4
    <3> QED
      BY <1>6, <3>1, MinIs
  <2>2. Soonest(c, t) = d * Day + m
    BY <1>5, <1>6
  <2> HIDE DEF m
  <2>3. m \in Times[c] /\ d \in Days[c] /\ d * Day + m > t
    BY <2>1
  <2>4. m \in 0..(Day - 1) /\ d <= LastDay
    BY <1>2, <2>3
  <2>5. Fires(c, Soonest(c, t))
    BY <2>2, <2>3 DEF Fires
  <2>6. Soonest(c, t) \in Nat /\ Soonest(c, t) < (LastDay + 1) * Day
    BY <1>1, <1>2, <2>2, <2>4, DayIs
  <2>7. ASSUME NEW f, Fires(c, f), f > t PROVE d * Day + m <= f
    <3>1. PICK e \in Days[c], y \in Times[c] : f = e * Day + y
      BY <2>7 DEF Fires
    <3>2. e \in Nat /\ y \in 0..(Day - 1)
      BY <1>2
    <3>3. e >= d
      BY <1>1, <2>7, <3>1, <3>2, DayIs
    <3>4. CASE e = d
      BY <1>1, <2>1, <2>4, <2>7, <3>1, <3>2, <3>4, DayIs
    <3>5. CASE e > d
      BY <1>1, <2>4, <3>1, <3>2, <3>5, DayIs
    <3> QED
      BY <1>1, <3>2, <3>3, <3>4, <3>5
  <2> QED
    BY <2>2, <2>3, <2>5, <2>6, <2>7
<1>7. CASE today = {}
  <2> DEFINE e1 == DayAfter(c, d)
             m == Min(Times[c])
  <2>1. e1 \in Days[c] /\ e1 > d /\ \A e \in Days[c] : e > d => e1 <= e
    BY <1>1, <1>3, DaysNear
  <2>2. m \in Times[c] /\ \A y \in Times[c] : m <= y
    BY <1>2, <1>4, MinIs
  <2>3. Soonest(c, t) = e1 * Day + m
    BY <1>5, <1>7
  <2> HIDE DEF e1, m
  <2>4. m \in 0..(Day - 1) /\ e1 \in Nat /\ e1 <= LastDay
    BY <1>2, <2>1, <2>2
  <2>5. Fires(c, Soonest(c, t))
    BY <2>1, <2>2, <2>3 DEF Fires
  <2>6. Soonest(c, t) \in Nat /\ Soonest(c, t) > t /\ Soonest(c, t) < (LastDay + 1) * Day
    BY <1>1, <1>2, <2>1, <2>3, <2>4, DayIs
  <2>7. ASSUME NEW f, Fires(c, f), f > t PROVE e1 * Day + m <= f
    <3>1. PICK e \in Days[c], y \in Times[c] : f = e * Day + y
      BY <2>7 DEF Fires
    <3>2. e \in Nat /\ y \in 0..(Day - 1)
      BY <1>2
    <3>3. e >= d
      BY <1>1, <2>7, <3>1, <3>2, DayIs
    <3>4. e # d
      BY <1>7, <2>7, <3>1
    <3>5. e1 <= e /\ m <= y
      BY <1>1, <2>1, <2>2, <3>2, <3>3, <3>4
    <3>6. e1 * Day <= e * Day
      BY <2>4, <3>2, <3>5, DayIs
    <3>7. y \in Nat /\ m \in Nat /\ e1 * Day \in Nat /\ e * Day \in Nat
      BY <2>4, <3>2, DayIs
    <3> QED
      BY <3>1, <3>5, <3>6, <3>7
  <2> QED
    BY <2>3, <2>5, <2>6, <2>7
<1> QED
  BY <1>6, <1>7

\* Between two moments of the clock, the latest occurrence does not go back; it is the
\* same as long as the next one has not come, and no earlier than that when it has.
LEMMA Between ==
    ASSUME Regular, NEW c \in Crons, NEW t, OnClock(t), NEW u, OnClock(u), t <= u
    PROVE  /\ Latest(c, t) <= Latest(c, u)
           /\ u < Soonest(c, t) => Latest(c, u) = Latest(c, t) /\ Soonest(c, u) = Soonest(c, t)
           /\ u >= Soonest(c, t) => Latest(c, u) >= Soonest(c, t)
<1>1. /\ Latest(c, t) \in Int /\ Fires(c, Latest(c, t)) /\ Latest(c, t) <= t
      /\ \A f : Fires(c, f) /\ f <= t => f <= Latest(c, t)
      /\ Latest(c, u) \in Int /\ Fires(c, Latest(c, u)) /\ Latest(c, u) <= u
      /\ \A f : Fires(c, f) /\ f <= u => f <= Latest(c, u)
  BY LatestIs
<1>2. /\ Soonest(c, t) \in Nat /\ Fires(c, Soonest(c, t)) /\ Soonest(c, t) > t
      /\ \A f : Fires(c, f) /\ f > t => Soonest(c, t) <= f
      /\ Soonest(c, u) \in Nat /\ Fires(c, Soonest(c, u)) /\ Soonest(c, u) > u
      /\ \A f : Fires(c, f) /\ f > u => Soonest(c, u) <= f
  BY SoonestIs
<1>3. t \in Nat /\ u \in Nat
  BY DEF OnClock
<1>4. Latest(c, t) <= Latest(c, u)
  BY <1>1, <1>3
<1>5. ASSUME u < Soonest(c, t) PROVE Latest(c, u) = Latest(c, t) /\ Soonest(c, u) = Soonest(c, t)
  <2>1. Latest(c, u) <= t
    BY <1>1, <1>2, <1>3, <1>5
  <2>2. Latest(c, u) = Latest(c, t)
    BY <1>1, <1>4, <2>1
  <2>3. Soonest(c, u) <= Soonest(c, t)
    BY <1>2, <1>5
  <2>4. Soonest(c, t) <= Soonest(c, u)
    BY <1>2, <1>3
  <2> QED
    BY <1>2, <2>2, <2>3, <2>4
<1>6. u >= Soonest(c, t) => Latest(c, u) >= Soonest(c, t)
  BY <1>1, <1>2, <1>3
<1> QED
  BY <1>4, <1>5, <1>6

-----------------------------------------------------------------------------
(* A reconcile *)

\* The crons of a pair.
LEMMA PairIs == \A p \in Specs : p.upscale \in Crons /\ p.downscale \in Crons
BY DEF Crons

\* The search windows do not matter: the state is that by all of the past.
LEMMA StateIs ==
    ASSUME Regular, NEW p \in Specs, NEW t, OnClock(t)
    PROVE  CalculatePeriod(p, t) = [state |-> Reference(p, t),
                                    nextUpscale |-> Soonest(p.upscale, t),
                                    nextDownscale |-> Soonest(p.downscale, t)]
<1>1. \A c \in Crons : findLastOccurrence(c, t) = Latest(c, t)
  BY LatestIs DEF findLastOccurrence
<1> QED
  BY <1>1, PairIs DEF CalculatePeriod, Reference

\* The next transition of a pair of crons in that state.
Opposite(state, p, t) == IF state = "Up" THEN Soonest(p.downscale, t) ELSE Soonest(p.upscale, t)

\* How soon a reconcile asks for the next one.
LEMMA RequeueIs ==
    ASSUME NEW r, NEW t \in Nat, TimeUntilNext(r, t) \in Int, NEW terminating \in BOOLEAN,
           NEW kind \in {"idle", "poll", "batch"}
    PROVE  LET after == Sooner(calculateRequeueAfter(r, kind, t), terminating)
           IN  after \in Nat /\ after >= 1 /\ (after <= TimeUntilNext(r, t) \/ after <= Minute)
<1> DEFINE until == TimeUntilNext(r, t)
           base == calculateRequeueAfter(r, kind, t)
<1>1. Delay \in Int /\ WarmupCheckInterval \in Int /\ Second = 1 /\ Minute = 2 /\ until \in Int
      /\ TerminationCheckInterval \in Int /\ TerminationCheckInterval >= 1
  BY PeriodAssumption, DayIs DEF WarmupCheckInterval, Second, TerminationCheckInterval
<1> HIDE DEF until
<1>2. \A a \in Int : LET x == Max({Min({a, until}), Second})
                     IN  x \in Int /\ x >= 1 /\ (x <= until \/ x <= Minute)
  <2> SUFFICES ASSUME NEW a \in Int
               PROVE  LET x == Max({Min({a, until}), Second})
                      IN  x \in Int /\ x >= 1 /\ (x <= until \/ x <= Minute)
    OBVIOUS
  <2> DEFINE y == Min({a, until})
  <2>1. y = IF a <= until THEN a ELSE until
    BY <1>1, TwoAre
  <2> HIDE DEF y
  <2>2. y \in Int /\ y <= until
    BY <1>1, <2>1
  <2>3. Max({y, Second}) = IF y >= Second THEN y ELSE Second
    BY <1>1, <2>2, TwoAre
  <2> QED
    BY <1>1, <2>2, <2>3 DEF y
<1>3. LET x == Max({until, Minute}) IN x \in Int /\ x >= 1 /\ (x <= until \/ x <= Minute)
  BY <1>1, TwoAre
<1>4. base \in Int /\ base >= 1 /\ (base <= until \/ base <= Minute)
  <2>1. CASE kind = "batch"
    BY <1>1, <1>2, <2>1 DEF calculateRequeueAfter, until
  <2>2. CASE kind = "poll"
    BY <1>1, <1>2, <2>2 DEF calculateRequeueAfter, until
  <2>3. CASE kind = "idle"
    BY <1>3, <2>3 DEF calculateRequeueAfter, until
  <2> QED
    BY <2>1, <2>2, <2>3
<1> HIDE DEF base
<1>5. Min({base, TerminationCheckInterval}) =
        IF base <= TerminationCheckInterval THEN base ELSE TerminationCheckInterval
  BY <1>1, <1>4, TwoAre
<1>6. LET after == Sooner(base, terminating)
      IN  after \in Nat /\ after >= 1 /\ (after <= until \/ after <= Minute)
  BY <1>1, <1>4, <1>5 DEF Sooner
<1> QED
  BY <1>6 DEF base, until

-----------------------------------------------------------------------------
(* The inductive invariant *)

\* What is cached was calculated at an earlier moment.
CacheOK ==
    /\ cache = [p \in Specs |-> cache[p]]
    /\ \A p \in Specs :
         \/ cache[p] = NoEntry
         \/ \E t : /\ OnClock(t) /\ t <= now
                   /\ cache[p] = [validUntil |-> ValidUntil(CalculatePeriod(p, t)),
                                  result |-> CalculatePeriod(p, t)]

\* The last reconcile acted on a result of a moment after which, up to the reconcile, no
\* cron fired, or one just did; and a next one comes by the end of the period, or soon.
ActedOn(p, at, state, until) ==
    \E t : /\ OnClock(t) /\ t <= at /\ at <= Soonest(p.upscale, t) /\ at <= Soonest(p.downscale, t)
           /\ state = Reference(p, t)
           /\ until <= Opposite(state, p, t) \/ until <= at + Minute

PeriodInv ==
    /\ OnClock(now) /\ due \in Nat /\ now <= due + MaxLate /\ spec \in Specs
    /\ did.at \in Nat /\ OnClock(did.at) /\ did.at <= now /\ did.spec \in Specs
    /\ CacheOK
    /\ now < due => did.spec = spec /\ did.state # "none"
    /\ did.state # "none" =>
         /\ due < Never
         /\ \E until \in Nat : ActedOn(did.spec, did.at, did.state, until)
                             /\ (did.spec = spec => due <= until)

\* At first nothing is cached ...
LEMMA PeriodInit == Init => PeriodInv
<1> SUFFICES ASSUME Init PROVE PeriodInv
  OBVIOUS
<1>1. now \in Starts /\ now \in Nat /\ now <= Until + MaxLate /\ MaxLate \in Nat
  BY PeriodAssumption DEF Init
<1>2. OnClock(now)
  BY <1>1 DEF OnClock
<1>3. did.at = now /\ did.spec = spec /\ did.state = "none" /\ due = now /\ spec \in Specs
  BY DEF Init
<1>4. CacheOK
  BY DEF Init, CacheOK
<1> QED
  BY <1>1, <1>2, <1>3, <1>4 DEF PeriodInv

\* ... a reconcile acts on what it calculates, or on what was cached and still holds ...
LEMMA ReconcileKeeps ==
    ASSUME Regular, PeriodInv, Reconcile
    PROVE  PeriodInv'
<1> DEFINE r == IF Cached(spec, now) THEN cache[spec].result ELSE CalculatePeriod(spec, now)
           entry == [validUntil |-> ValidUntil(r), result |-> r]
<1>1. /\ OnClock(now) /\ now \in Nat /\ spec \in Specs /\ CacheOK /\ MaxLate \in Nat
      /\ UNCHANGED <<now, spec>>
  BY PeriodAssumption DEF PeriodInv, OnClock, Reconcile
<1>2. PICK t : /\ OnClock(t) /\ t <= now /\ r = CalculatePeriod(spec, t)
               /\ now <= Soonest(spec.upscale, t) /\ now <= Soonest(spec.downscale, t)
  <2>1. CASE Cached(spec, now)
    <3>1. PICK t : /\ OnClock(t) /\ t <= now
                   /\ cache[spec] = [validUntil |-> ValidUntil(CalculatePeriod(spec, t)),
                                     result |-> CalculatePeriod(spec, t)]
      BY <1>1, <2>1 DEF CacheOK, Cached
    <3>2. r = CalculatePeriod(spec, t) /\ now <= ValidUntil(r)
      BY <2>1, <3>1 DEF Cached
    <3>3. r.nextUpscale = Soonest(spec.upscale, t) /\ r.nextDownscale = Soonest(spec.downscale, t)
      BY <3>2 DEF CalculatePeriod
    <3>4. Soonest(spec.upscale, t) \in Int /\ Soonest(spec.downscale, t) \in Int
      BY <1>1, <3>1, PairIs, SoonestIs
    <3> DEFINE a == Soonest(spec.upscale, t)
               b == Soonest(spec.downscale, t)
    <3>5. ValidUntil(r) = Min({a, b})
      BY <3>3 DEF ValidUntil
    <3>6. Min({a, b}) = IF a <= b THEN a ELSE b
      BY <3>4, TwoAre
    <3>7. now <= a /\ now <= b
      <4> HIDE DEF a, b
      <4> QED
        BY <1>1, <3>2, <3>4, <3>5, <3>6 DEF a, b
    <3> QED
      BY <3>1, <3>2, <3>7
  <2>2. CASE ~Cached(spec, now)
    <3>1. r = CalculatePeriod(spec, now)
      BY <2>2
    <3>2. now <= Soonest(spec.upscale, now) /\ now <= Soonest(spec.downscale, now)
      BY <1>1, PairIs, SoonestIs
    <3> QED
      BY <1>1, <3>1, <3>2
  <2> QED
    BY <2>1, <2>2
<1>3. /\ r.state = Reference(spec, t) /\ r.nextUpscale = Soonest(spec.upscale, t)
      /\ r.nextDownscale = Soonest(spec.downscale, t)
  BY <1>1, <1>2, StateIs
<1>4. /\ cache' = IF Cached(spec, now) THEN cache ELSE [cache EXCEPT ![spec] = entry]
      /\ did' = [at |-> now, spec |-> spec, state |-> r.state]
      /\ \E kind \in {"idle", "poll", "batch"}, terminating \in BOOLEAN :
           LET after == Sooner(calculateRequeueAfter(r, kind, now), terminating)
           IN  due' = IF after = 0 THEN Never ELSE now + after
  BY DEF Reconcile
<1>5. CacheOK'
  <2>1. CASE Cached(spec, now)
    BY <1>1, <1>4, <2>1 DEF CacheOK, OnClock
  <2>2. CASE ~Cached(spec, now)
    <3>1. entry = [validUntil |-> ValidUntil(CalculatePeriod(spec, now)),
                   result |-> CalculatePeriod(spec, now)]
      BY <2>2
    <3>2. cache' = [cache EXCEPT ![spec] = entry]
      BY <1>4, <2>2
    <3> HIDE DEF entry
    <3>3. cache' = [p \in Specs |-> cache'[p]] /\ cache'[spec] = entry
          /\ \A p \in Specs \ {spec} : cache'[p] = cache[p]
      BY <1>1, <3>2 DEF CacheOK
    <3> QED
      BY <1>1, <3>1, <3>3 DEF CacheOK, OnClock
  <2> QED
    BY <2>1, <2>2
<1> HIDE DEF r, entry
<1> DEFINE until == TimeUntilNext(r, now)
           next == Opposite(r.state, spec, t)
<1>6. until = next - now /\ next \in Nat /\ next < (LastDay + 1) * Day
  BY <1>1, <1>2, <1>3, PairIs, SoonestIs DEF TimeUntilNext, Opposite
<1>7. PICK after \in Nat : /\ after >= 1 /\ (after <= until \/ after <= Minute)
                           /\ due' = now + after
  BY <1>1, <1>4, <1>6, RequeueIs
<1> HIDE DEF next, until
<1>8. due' <= next \/ due' <= now + Minute
  BY <1>1, <1>6, <1>7, DayIs
<1>9. due' < Never
  <2>1. (Until + MaxLate) \div Day \in ClockDays
    BY <1>1, ClockIs
  <2>2. PICK e \in Days[spec.upscale] : e > (Until + MaxLate) \div Day
    BY <1>1, <2>1, PairIs DEF Regular
  <2>3. e \in Nat /\ e <= LastDay /\ LastDay \in Nat /\ Until \in Nat
    BY <1>1, CronIs, PairIs, PeriodAssumption
  <2>4. /\ (Until + MaxLate) \div Day \in Nat
        /\ Until + MaxLate < ((Until + MaxLate) \div Day) * Day + Day
    BY <1>1, <2>3, DayOf
  <2>5. Until + MaxLate < LastDay * Day
    BY <1>1, <2>2, <2>3, <2>4, DayIs
  <2>6. now <= Until + MaxLate /\ Never = Until + (LastDay + 1) * Day
    BY <1>1 DEF OnClock, Never
  <2> QED
    BY <1>1, <1>6, <1>7, <1>8, <2>3, <2>5, <2>6, DayIs
<1>10. did'.at = now /\ did'.spec = spec /\ did'.state = r.state /\ r.state # "none"
  BY <1>3, <1>4 DEF Reference
<1>11. ActedOn(spec, now, r.state, due')
  BY <1>2, <1>3, <1>8 DEF ActedOn, next
<1>12. due' \in Nat /\ now <= due' + MaxLate /\ OnClock(now)'
  BY <1>1, <1>7 DEF OnClock
<1>13. OnClock(did'.at) /\ spec' = spec /\ now' = now
  BY <1>1, <1>10
<1>14. \E by \in Nat : /\ ActedOn(did'.spec, did'.at, did'.state, by)
                       /\ (did'.spec = spec' => due' <= by)
  BY <1>10, <1>11, <1>12
<1>15. now' = now /\ spec' = spec /\ now <= now
  BY <1>1
<1>16. OnClock(now') /\ OnClock(did'.at)
  BY <1>1, <1>10, <1>15, Zenon
<1>17. /\ due' \in Nat /\ now' <= due' + MaxLate /\ spec' \in Specs /\ did'.at \in Nat
  BY <1>1, <1>10, <1>12, <1>15, Zenon
<1>18. did'.at <= now' /\ did'.spec \in Specs /\ did'.spec = spec' /\ did'.state # "none"
  BY <1>1, <1>10, <1>15, Zenon
<1> QED
  BY <1>5, <1>9, <1>14, <1>16, <1>17, <1>18 DEF PeriodInv

\* ... and a wait, an edit and a restart leave the last reconcile as it was, and bring
\* the next one no later than was asked for.
LEMMA TimeKeeps ==
    ASSUME Regular, PeriodInv,
           cache' = cache \/ cache' = [p \in Specs |-> NoEntry], did' = did,
           OnClock(now'), now <= now', due' \in Nat, due' <= due, now' <= due' + MaxLate, now' >= due',
           spec' \in Specs, did.spec = spec' => did.spec = spec
    PROVE  PeriodInv'
<1>1. /\ now \in Nat /\ now' \in Nat /\ due \in Nat /\ did.at \in Nat /\ CacheOK
      /\ did.at <= now /\ OnClock(did.at) /\ did.spec \in Specs
  BY DEF PeriodInv, OnClock
<1>2. CacheOK'
  <2>1. CASE cache' = cache
    <3> SUFFICES ASSUME NEW p \in Specs, NEW t, OnClock(t), t <= now PROVE t <= now'
      BY <1>1, <2>1 DEF CacheOK
    <3> QED
      BY <1>1 DEF OnClock
  <2>2. CASE cache' = [p \in Specs |-> NoEntry]
    BY <2>2 DEF CacheOK
  <2> QED
    BY <2>1, <2>2
<1>3. did.at <= now' /\ ~(now' < due')
  BY <1>1
<1>4. ASSUME did.state # "none"
      PROVE  /\ due' < Never
             /\ \E until \in Nat : ActedOn(did.spec, did.at, did.state, until)
                                 /\ (did.spec = spec' => due' <= until)
  <2>1. PICK until \in Nat : /\ ActedOn(did.spec, did.at, did.state, until)
                             /\ (did.spec = spec => due <= until)
    BY <1>4 DEF PeriodInv
  <2>2. due < Never /\ Never \in Int
    BY <1>4, PeriodAssumption, DayIs DEF PeriodInv, Never
  <2>3. did.spec = spec' => due' <= until
    BY <1>1, <2>1
  <2>4. due' < Never
    BY <1>1, <2>2
  <2> QED
    BY <2>1, <2>3, <2>4
<1> QED
  BY <1>1, <1>2, <1>3, <1>4 DEF PeriodInv

\* Every step preserves the invariant.
LEMMA PeriodStep ==
    ASSUME Regular, PeriodInv, [Next]_vars
    PROVE  PeriodInv'
<1>1. /\ OnClock(now) /\ now \in Nat /\ due \in Nat /\ spec \in Specs /\ did.spec \in Specs
      /\ MaxLate \in Nat /\ Until \in Nat
  BY PeriodAssumption DEF PeriodInv, OnClock
<1>2. ASSUME NEW t, t \in Nat, now <= t, t <= Until + MaxLate PROVE OnClock(t)
  BY <1>1, <1>2, PeriodAssumption DEF OnClock
<1>3. \A p \in Specs : \A t \in Moments(p) : t \in Nat /\ now <= t /\ t < due /\ t <= Until
  <2> SUFFICES ASSUME NEW p \in Specs, NEW t \in Moments(p)
               PROVE  t \in Nat /\ now <= t /\ t < due /\ t <= Until
    OBVIOUS
  <2> DEFINE a == Soonest(p.upscale, now)
             b == Soonest(p.downscale, now)
  <2>1. a \in Nat /\ b \in Nat
    BY <1>1, PairIs, SoonestIs
  <2>2. t \in {a - 1, a, a + 1} \cup {b - 1, b, b + 1} /\ now <= t /\ t < due /\ t <= Until
    BY DEF Moments, CalculatePeriod
  <2> HIDE DEF a, b
  <2> QED
    BY <1>1, <2>1, <2>2
<1>4. CASE Reconcile
  BY <1>4, ReconcileKeeps
<1>5. CASE Wake
  <2>1. PICK late \in 0..MaxLate : now' = due + late
    BY <1>5 DEF Wake
  <2>2. now < due /\ due <= Until /\ UNCHANGED <<spec, cache, did, due>>
    BY <1>5 DEF Wake
  <2>3. now' \in Nat /\ now <= now' /\ now' <= Until + MaxLate /\ now' <= due + MaxLate /\ now' >= due
    BY <1>1, <2>1, <2>2
  <2>4. OnClock(now')
    BY <1>2, <2>3
  <2> QED
    BY <1>1, <2>2, <2>3, <2>4, TimeKeeps
<1>6. CASE Edit
  <2>1. PICK p \in Specs \ {spec} : spec' = p /\ \E t \in Moments(p) : now' = t /\ due' = t
    BY <1>6 DEF Edit
  <2>2. PICK t \in Moments(p) : now' = t /\ due' = t
    BY <2>1
  <2>3. t \in Nat /\ now <= t /\ t < due /\ t <= Until + MaxLate
    BY <1>1, <1>3, <2>2
  <2>4. OnClock(t) /\ t <= t + MaxLate /\ t <= due
    BY <1>1, <1>2, <2>3
  <2>5. did.spec = spec /\ UNCHANGED <<cache, did>>
    BY <1>1, <1>6, <2>3 DEF PeriodInv, Edit
  <2> QED
    BY <1>1, <2>1, <2>2, <2>3, <2>4, <2>5, TimeKeeps
<1>7. CASE Restart
  <2>1. PICK t \in Moments(spec) : now' = t /\ due' = t
    BY <1>7 DEF Restart
  <2>2. t \in Nat /\ now <= t /\ t < due /\ t <= Until + MaxLate
    BY <1>1, <1>3, <2>1
  <2>3. OnClock(t) /\ t <= t + MaxLate /\ t <= due
    BY <1>1, <1>2, <2>2
  <2>4. cache' = [p \in Specs |-> NoEntry] /\ UNCHANGED <<spec, did>>
    BY <1>7 DEF Restart
  <2> QED
    BY <1>1, <2>1, <2>2, <2>3, <2>4, TimeKeeps
<1>8. CASE UNCHANGED vars
  BY <1>8 DEF vars, PeriodInv, CacheOK
<1> QED
  BY <1>4, <1>5, <1>6, <1>7, <1>8 DEF Next

-----------------------------------------------------------------------------
(* The theorems *)

\* Every reconcile asks for another one: no RequeueAfter is zero or goes beyond the calendar.
THEOREM AlwaysComesBack ==
    ASSUME Regular
    PROVE  Spec => []AlwaysWakes
<1>1. PeriodInv => AlwaysWakes
  BY DEF PeriodInv, AlwaysWakes
<1>2. PeriodInv /\ [Next]_vars => PeriodInv'
  BY PeriodStep
<1> QED
  BY <1>1, <1>2, PeriodInit, PTL DEF Spec

\* Between the moment of a cached result and the reconcile, only the transition of that
\* very moment has happened.
LEMMA ActsRightly ==
    ASSUME Regular, PeriodInv
    PROVE  ActsOnLatest
<1> SUFFICES ASSUME did.state # "none"
             PROVE  \/ did.state = Reference(did.spec, did.at)
                    \/ did.at \in {Latest(did.spec.upscale, did.at), Latest(did.spec.downscale, did.at)}
  BY DEF ActsOnLatest
<1> DEFINE p == did.spec
           at == did.at
<1>1. p \in Specs /\ at \in Nat /\ OnClock(at) /\ \E until \in Nat : ActedOn(p, at, did.state, until)
  BY DEF PeriodInv
<1>2. PICK t : /\ OnClock(t) /\ t <= at /\ did.state = Reference(p, t)
               /\ at <= Soonest(p.upscale, t) /\ at <= Soonest(p.downscale, t)
  BY <1>1 DEF ActedOn
<1> HIDE DEF p, at
<1>3. \A c \in {p.upscale, p.downscale} :
         /\ Latest(c, at) \in Int /\ Latest(c, at) <= at /\ Soonest(c, t) \in Nat
         /\ at < Soonest(c, t) => Latest(c, at) = Latest(c, t)
         /\ at >= Soonest(c, t) => Latest(c, at) >= Soonest(c, t)
  BY <1>1, <1>2, PairIs, LatestIs, SoonestIs, Between
<1>4. CASE at < Soonest(p.upscale, t) /\ at < Soonest(p.downscale, t)
  BY <1>2, <1>3, <1>4 DEF Reference, p, at
<1>5. ASSUME NEW c \in {p.upscale, p.downscale}, at = Soonest(c, t) PROVE at = Latest(c, at)
  BY <1>1, <1>3, <1>5
<1> QED
  BY <1>1, <1>2, <1>3, <1>4, <1>5 DEF p, at

\* A reconcile acts on the latest transition there was, whatever was cached, except in
\* the very moment of one.
THEOREM LatestTransitionCounts ==
    ASSUME Regular
    PROVE  Spec => []ActsOnLatest
<1>1. PeriodInv => ActsOnLatest
  BY ActsRightly
<1>2. PeriodInv /\ [Next]_vars => PeriodInv'
  BY PeriodStep
<1> QED
  BY <1>1, <1>2, PeriodInit, PTL DEF Spec

\* What has turned the state since the last reconcile fired after the moment it acted
\* on, and by then the next reconcile was due, or a minute away.
LEMMA InTimeAlways ==
    ASSUME Regular, PeriodInv
    PROVE  InTime
<1> DEFINE U == spec.upscale
           D == spec.downscale
           last == Max({Latest(U, now), Latest(D, now)})
<1> SUFFICES ASSUME did.spec = spec, did.state # "none", did.state # Reference(spec, now)
             PROVE  now - last <= Minute + MaxLate
  BY DEF InTime
<1>1. /\ spec \in Specs /\ OnClock(now) /\ now \in Nat /\ due \in Nat /\ now <= due + MaxLate
      /\ did.at \in Nat /\ did.at <= now /\ MaxLate \in Nat /\ Minute \in Nat
  <2>1. /\ spec \in Specs /\ OnClock(now) /\ due \in Nat /\ now <= due + MaxLate
        /\ did.at \in Nat /\ did.at <= now
    BY DEF PeriodInv
  <2>2. now \in Nat
    BY <2>1 DEF OnClock
  <2>3. MaxLate \in Nat /\ Minute \in Nat
    BY PeriodAssumption DEF Minute
  <2> QED
    BY <2>1, <2>2, <2>3
<1>2. PICK until \in Nat : ActedOn(spec, did.at, did.state, until) /\ due <= until
  BY DEF PeriodInv
<1>3. PICK t : /\ OnClock(t) /\ t <= did.at /\ did.state = Reference(spec, t)
               /\ did.at <= Soonest(U, t) /\ did.at <= Soonest(D, t)
               /\ until <= Opposite(did.state, spec, t) \/ until <= did.at + Minute
  BY <1>2 DEF ActedOn
<1>4. t \in Nat /\ t <= now /\ U \in Crons /\ D \in Crons
  BY <1>1, <1>3, PairIs DEF OnClock
<1> HIDE DEF U, D, last
<1>5. \A c \in {U, D} : /\ Latest(c, now) \in Int /\ Latest(c, t) \in Int /\ Soonest(c, t) \in Nat
                        /\ Latest(c, t) <= Latest(c, now)
                        /\ now < Soonest(c, t) => Latest(c, now) = Latest(c, t)
                        /\ now >= Soonest(c, t) => Latest(c, now) >= Soonest(c, t)
  BY <1>1, <1>3, <1>4, LatestIs, SoonestIs, Between
<1>6. last = IF Latest(U, now) >= Latest(D, now) THEN Latest(U, now) ELSE Latest(D, now)
  BY <1>5, TwoAre DEF last
<1>7. last \in Int /\ last >= Latest(U, now) /\ last >= Latest(D, now)
  BY <1>5, <1>6
<1>8. /\ Reference(spec, t) = IF Latest(U, t) > Latest(D, t) THEN "Up" ELSE "Down"
      /\ Reference(spec, now) = IF Latest(U, now) > Latest(D, now) THEN "Up" ELSE "Down"
      /\ Opposite(did.state, spec, t) = IF did.state = "Up" THEN Soonest(D, t) ELSE Soonest(U, t)
  BY DEF Reference, Opposite, U, D
<1>9. PICK c \in {U, D} : /\ Latest(c, now) # Latest(c, t)
                          /\ until <= Soonest(c, t) \/ until <= did.at + Minute
  <2>1. CASE did.state = "Up"
    <3>1. Latest(D, now) # Latest(D, t)
      BY <1>3, <1>5, <1>8, <2>1
    <3> QED
      BY <1>3, <1>8, <2>1, <3>1
  <2>2. CASE did.state = "Down"
    <3>1. Latest(U, now) # Latest(U, t)
      BY <1>3, <1>5, <1>8, <2>2
    <3> QED
      BY <1>3, <1>8, <2>2, <3>1
  <2> QED
    BY <1>3, <1>8, <2>1, <2>2
<1>10. Latest(c, now) >= Soonest(c, t) /\ last >= Latest(c, now) /\ Soonest(c, t) >= did.at
  BY <1>1, <1>3, <1>5, <1>7, <1>9
<1>11. now <= until + MaxLate /\ Latest(c, now) \in Int /\ Soonest(c, t) \in Nat
  BY <1>1, <1>2, <1>5
<1> QED
  BY <1>1, <1>7, <1>9, <1>10, <1>11

\* No requeue oversleeps a transition: one that has turned the state since the last
\* reconcile is a minute and the delay of the timer back at most.
THEOREM NothingOverslept ==
    ASSUME Regular
    PROVE  Spec => []InTime
<1>1. PeriodInv => InTime
  BY InTimeAlways
<1>2. PeriodInv /\ [Next]_vars => PeriodInv'
  BY PeriodStep
<1> QED
  BY <1>1, <1>2, PeriodInit, PTL DEF Spec
=============================================================================
