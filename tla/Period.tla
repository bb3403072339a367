------------------------------- MODULE Period -------------------------------
(***************************************************************************)
(* When a schedule is up, and when its reconciler looks again: the period  *)
(* calculation with its search windows and its cache (period.go), and the  *)
(* requeue of a reconcile (calculateRequeueAfter, applyTerminationRequeue).*)
(*                                                                         *)
(* Time is counted in half minutes from a 1 January that is a Sunday, in   *)
(* the time zone of the schedules; years have 365 days and no clock is put *)
(* forward or back.                                                        *)
(***************************************************************************)
EXTENDS Integers, FiniteSetsExt

CONSTANTS
    Specs,          \* pairs of crons: [upscale, downscale]
    Starts,         \* when the process may start
    LastDay,        \* bound: the days the calendar has
    Until,          \* bound: when the clock stops
    MaxLate,        \* how late a timer may fire
    Delay,          \* rateLimit.delayBetweenBatches
    MaxExtra        \* bound: early requeues, edits and restarts

Minute == 2
Hour == 60 * Minute
Day == 24 * Hour
WarmupCheckInterval == 1
TerminationCheckInterval == 5 * Minute
Second == 1         \* rounded up

Crons == {p.upscale : p \in Specs} \cup {p.downscale : p \in Specs}

ASSUME PeriodAssumption ==
    /\ {MaxLate, MaxExtra, LastDay, Until} \subseteq Nat /\ Starts \subseteq 0..Until
    /\ Delay \in Nat \ {0}
    /\ \A c \in Crons : /\ c.hour.at # {} /\ c.hour.at \subseteq 0..23
                        /\ c.minute.at # {} /\ c.minute.at \subseteq 0..59

VARIABLES
    now,
    spec,       \* the crons of the schedule
    cache,      \* periodCache: a result with its end of validity, or NoEntry
    did,        \* the last reconcile: when, with which crons, and its state
    due,        \* when the next reconcile is asked for
    extra       \* early requeues, edits and restarts so far

vars == <<now, spec, cache, did, due, extra>>

-----------------------------------------------------------------------------
(* Crons.  A field is how it is written - "*", "*/n", a list, a range or one *)
(* number - and the numbers it stands for.                                   *)

FirstOf == <<0, 31, 59, 90, 120, 151, 181, 212, 243, 273, 304, 334>>
MonthOf(d) == Max({m \in 1..12 : FirstOf[m] <= d % 365})

\* A cron that restricts both days fires on either.
FiresOn(c, d) ==
    LET dom == (d % 365) - FirstOf[MonthOf(d)] + 1 \in c.dom.at
        dow == (d % 7) \in c.dow.at
    IN  /\ MonthOf(d) \in c.month.at
        /\ IF "star" \in {c.dom.kind, c.dow.kind} THEN dom /\ dow ELSE dom \/ dow

Days == [c \in Crons |-> {d \in 0..LastDay : FiresOn(c, d)}]
Times == [c \in Crons |-> {h * Hour + m * Minute : h \in c.hour.at, m \in c.minute.at}]

\* The day nearest to d, before and after it, on which c fires; in the week next to
\* it as a rule.
DaysIn(c, from, to) == {d \in from..to : d \in Days[c]}
DayBefore(c, d) ==
    LET week == DaysIn(c, d - 7, d - 1)
    IN  Max(IF week # {} THEN week ELSE DaysIn(c, 0, d - 8))
DayAfter(c, d) ==
    LET week == DaysIn(c, d + 1, d + 7)
    IN  Min(IF week # {} THEN week ELSE DaysIn(c, d + 8, LastDay))

\* The latest time up to t, and the first time after t, that c fires.
Latest(c, t) ==
    LET d == t \div Day
        today == {x \in Times[c] : d \in Days[c] /\ d * Day + x <= t}
    IN  IF today # {} THEN d * Day + Max(today)
        ELSE DayBefore(c, d) * Day + Max(Times[c])

Soonest(c, t) ==
    LET d == t \div Day
        today == {x \in Times[c] : d \in Days[c] /\ d * Day + x > t}
    IN  IF today # {} THEN d * Day + Min(today)
        ELSE DayAfter(c, d) * Day + Min(Times[c])

-----------------------------------------------------------------------------
(* CalculatePeriod *)

analyzeScheduleFrequency(c) ==
    CASE c.minute.kind \in {"star", "step"} -> "minute"
      [] c.minute.kind \notin {"star", "step"} /\ c.hour.kind \in {"star", "step"} -> "hourly"
      [] OTHER ->
         IF c.dom.kind # "one" /\ c.month.kind = "star" /\ c.dow.kind = "star" THEN "daily"
         ELSE IF c.dow.kind # "star" /\ c.month.kind = "star" THEN "weekly"
         ELSE IF c.month.kind \in {"one", "step"} THEN "rare" ELSE "monthly"

getSearchWindow(freq) ==
    CASE freq = "minute" -> 48 * Hour
      [] freq = "hourly" -> 72 * Hour
      [] freq = "daily" -> 240 * Hour
      [] freq = "weekly" -> 768 * Hour
      [] freq = "monthly" -> 2160 * Hour
      [] freq = "rare" -> 9600 * Hour

\* The search goes from occurrence to occurrence, and finds the latest of those in
\* its window; without one it answers with a date ten years back.
findLastOccurrence(c, from) ==
    LET last == Latest(c, from)
    IN  IF last > from - getSearchWindow(analyzeScheduleFrequency(c)) THEN last
        ELSE from - 3652 * Day

\* Mutant: of two transitions at the same time the upscale counts.
CalculatePeriodTies(p, t) ==
    [state |-> IF findLastOccurrence(p.upscale, t) >= findLastOccurrence(p.downscale, t)
               THEN "Up" ELSE "Down",
     nextUpscale |-> Soonest(p.upscale, t),
     nextDownscale |-> Soonest(p.downscale, t)]

CalculatePeriod(p, t) ==
    [state |-> IF findLastOccurrence(p.upscale, t) > findLastOccurrence(p.downscale, t)
               THEN "Up" ELSE "Down",
     nextUpscale |-> Soonest(p.upscale, t),
     nextDownscale |-> Soonest(p.downscale, t)]

\* Mutant: a result is kept up to the later of the two transitions.
ValidUntilBoth(r) == Max({r.nextUpscale, r.nextDownscale})

\* setCachedPeriod
ValidUntil(r) == Min({r.nextUpscale, r.nextDownscale})

NoEntry == [validUntil |-> -1]
Cached(p, t) == cache[p] # NoEntry /\ t <= cache[p].validUntil

-----------------------------------------------------------------------------
(* How long until the next reconcile *)

TimeUntilNext(r, t) == (IF r.state = "Up" THEN r.nextDownscale ELSE r.nextUpscale) - t

\* Mutant: the floors are left out.
calculateRequeueAfterBare(r, kind, t) ==
    CASE kind = "batch" -> Min({Delay, TimeUntilNext(r, t)})
      [] kind = "poll" -> Min({WarmupCheckInterval, TimeUntilNext(r, t)})
      [] kind = "idle" -> TimeUntilNext(r, t)

\* After a batch, while something warms up or a wave is held, and otherwise.
calculateRequeueAfter(r, kind, t) ==
    CASE kind = "batch" -> Max({Min({Delay, TimeUntilNext(r, t)}), Second})
      [] kind = "poll" -> Max({Min({WarmupCheckInterval, TimeUntilNext(r, t)}), Second})
      [] kind = "idle" -> Max({TimeUntilNext(r, t), Minute})

\* applyTerminationRequeue
Sooner(after, terminating) ==
    IF terminating THEN Min({after, TerminationCheckInterval}) ELSE after

-----------------------------------------------------------------------------

Never == Until + (LastDay + 1) * Day

Init ==
    /\ now \in Starts
    /\ spec \in Specs
    /\ cache = [p \in Specs |-> NoEntry]
    /\ did = [at |-> now, spec |-> spec, state |-> "none"]
    /\ due = now
    /\ extra = 0

\* A reconcile.  A RequeueAfter of zero asks for no reconcile at all.
Reconcile ==
    /\ now >= due
    /\ LET r == IF Cached(spec, now) THEN cache[spec].result ELSE CalculatePeriod(spec, now)
       IN  /\ cache' = IF Cached(spec, now) THEN cache
                       ELSE [cache EXCEPT ![spec] =
                               [validUntil |-> ValidUntil(r), result |-> r]]
           /\ did' = [at |-> now, spec |-> spec, state |-> r.state]
           /\ \E kind \in {"idle", "poll", "batch"}, terminating \in BOOLEAN :
                LET early == kind # "idle" \/ terminating
                    after == Sooner(calculateRequeueAfter(r, kind, now), terminating)
                IN  /\ terminating => r.state = "Down"
                    /\ early => extra < MaxExtra
                    /\ extra' = IF early THEN extra + 1 ELSE extra
                    /\ due' = IF after = 0 THEN Never ELSE now + after
    /\ UNCHANGED <<now, spec>>

\* The timer fires, late perhaps.
Wake ==
    /\ now < due /\ due <= Until
    /\ \E late \in 0..MaxLate : now' = due + late
    /\ UNCHANGED <<spec, cache, did, due, extra>>

\* The moments that matter: around the next transition of the pair p.
Moments(p) ==
    LET next == CalculatePeriod(p, now)
        near(t) == {t - 1, t, t + 1}
    IN  {t \in near(next.nextUpscale) \cup near(next.nextDownscale) :
           now <= t /\ t < due /\ t <= Until}

\* Before that, the user edits the crons, or the process starts anew.
Edit ==
    /\ extra < MaxExtra /\ extra' = extra + 1
    /\ \E p \in Specs \ {spec} :
         /\ spec' = p
         /\ \E t \in Moments(p) : now' = t /\ due' = t
    /\ UNCHANGED <<cache, did>>

Restart ==
    /\ extra < MaxExtra /\ extra' = extra + 1
    /\ cache' = [p \in Specs |-> NoEntry]
    /\ \E t \in Moments(spec) : now' = t /\ due' = t
    /\ UNCHANGED <<spec, did>>

Next == Reconcile \/ Wake \/ Edit \/ Restart

Spec == Init /\ [][Next]_vars

-----------------------------------------------------------------------------

\* A hypothesis about the crons: on every day of the clock, each fired on an earlier
\* day that its search window reaches from anywhere in the day, and fires on a later one.
ClockDays == UNION {(t \div Day)..((Until + MaxLate) \div Day) : t \in Starts}
Regular ==
    \A c \in Crons, d \in ClockDays :
       /\ \E e \in Days[c] :
            e < d /\ e * Day >= (d + 1) * Day - getSearchWindow(analyzeScheduleFrequency(c))
       /\ \E e \in Days[c] : e > d

\* The state by all of the past.
Reference(p, t) == IF Latest(p.upscale, t) > Latest(p.downscale, t) THEN "Up" ELSE "Down"

\* A reconcile acts on the latest transition there was, at whatever distance it lies
\* and whatever was cached before, except in the very moment of a transition.
ActsOnLatest ==
    did.state \in {Reference(did.spec, did.at), "none"}
      \/ did.at \in {Latest(did.spec.upscale, did.at), Latest(did.spec.downscale, did.at)}

\* What a schedule last did is never more than a minute, and the timer's delay,
\* behind its crons: no requeue oversleeps a transition.
InTime ==
    did.spec = spec /\ did.state # "none" /\ did.state # Reference(spec, now) =>
       now - Max({Latest(spec.upscale, now), Latest(spec.downscale, now)}) <= Minute + MaxLate

\* Every reconcile asks for another one: a transition that is zero seconds away does
\* not turn into a RequeueAfter of zero, which is no requeue.
AlwaysWakes == did.state # "none" => due < Never
=============================================================================
