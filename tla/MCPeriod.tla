------------------------------ MODULE MCPeriod ------------------------------
(***************************************************************************)
(* Instances of Period: one pair of crons for each class of frequency,     *)
(* with transitions that coincide, that are a minute apart and that are    *)
(* most of a year apart.                                                   *)
(***************************************************************************)
EXTENDS Period

Star(all) == [kind |-> "star", at |-> all]
Every(n, all) == [kind |-> "step", at |-> {x \in all : x % n = 0}]
Several(kind, some) == [kind |-> kind, at |-> some]
One(x) == [kind |-> "one", at |-> {x}]

AnyDay == Star(1..31)
AnyMonth == Star(1..12)
AnyWeekday == Star(0..6)
Cron(minute, hour, dom, month, dow) ==
    [minute |-> minute, hour |-> hour, dom |-> dom, month |-> month, dow |-> dow]
Daily(minute, hour) == Cron(minute, hour, AnyDay, AnyMonth, AnyWeekday)
Pair(up, down) == [upscale |-> up, downscale |-> down]

\* 0 8 * * 1-5 and 0 20 * * 1-5
Weekdays ==
    LET on(hour) == Cron(One(0), One(hour), AnyDay, AnyMonth, Several("range", 1..5))
    IN  Pair(on(8), on(20))
\* 0 8,12 * * * and 0 8 * * 6: on Saturdays they coincide.
Saturdays ==
    Pair(Daily(One(0), Several("list", {8, 12})),
         Cron(One(0), One(8), AnyDay, AnyMonth, One(6)))
\* 0 */6 * * * and 1 */6 * * *: up for a minute.
Briefly == Pair(Daily(One(0), Every(6, 0..23)), Daily(One(1), Every(6, 0..23)))
\* */30 9 * * * and 15 18 * * *
Minutely == Pair(Daily(Every(30, 0..59), One(9)), Daily(One(15), One(18)))
\* 0 6 1 * * and 0 18 20 * *
Monthly == Pair(Cron(One(0), One(6), One(1), AnyMonth, AnyWeekday),
                Cron(One(0), One(18), One(20), AnyMonth, AnyWeekday))
\* 0 8 1 3 * and 0 20 31 10 *
Seasonal == Pair(Cron(One(0), One(8), One(1), One(3), AnyWeekday),
                 Cron(One(0), One(20), One(31), One(10), AnyWeekday))

MCSpecs == {Weekdays, Saturdays, Briefly, Minutely, Monthly, Seasonal}

\* 31 October of the second year, a Wednesday, in the morning and just before the
\* last transition of the season; until Sunday.
MCStarts == {668 * Day + 7 * Hour + 1, 668 * Day + 20 * Hour - 1}
MCUntil == 672 * Day

\* The crons above are as the theorems about Period suppose.
ASSUME MCCronsRegular == Regular
=============================================================================
