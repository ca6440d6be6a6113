----------------------------- MODULE DcaCalendar -----------------------------
(***************************************************************************)
(* The calendar of the periodic (DCA) schedules, core/dca_manager.py:      *)
(* which instants a schedule names, how the next one is computed, and how  *)
(* many of them the cash check expects in a week.                          *)
(*                                                                         *)
(* An instant is a natural number: day d, slot s is d * Slots + s.  Day 0  *)
(* is a Monday and the first day of month 1.                               *)
(***************************************************************************)
EXTENDS Integers, Sequences, FiniteSetsExt

CONSTANTS
    Slots,         \* instants of a day
    MonthLengths,  \* the months: a sequence of their numbers of days
    MaxDayOfMonth  \* 31: a day no month exceeds, which means the last one

Weekdays == 0..6

Day(t) == t \div Slots
Instant(day, slot) == day * Slots + slot

Months == 1..Len(MonthLengths)
FirstDay(m) == SumFunctionOnSet(MonthLengths, 1..(m - 1))
MonthOf(day) == CHOOSE m \in Months : day \in FirstDay(m)..(FirstDay(m) + MonthLengths[m] - 1)

\* The day a monthly schedule names in month m: a shorter month has its last one.
DayInMonth(dom, m) == FirstDay(m) + Min({dom, MonthLengths[m]}) - 1

\* The months follow one another: of a sum no proof without induction says so.
ASSUME CalendarAssumption ==
    /\ Slots \in Nat \ {0} /\ MaxDayOfMonth \in Nat
    /\ MonthLengths \in Seq(Nat \ {0})
    /\ \A m \in Months : FirstDay(m) \in Nat
    /\ \A m, n \in Months : m < n => FirstDay(m) + MonthLengths[m] <= FirstDay(n)

\* A month of the calendar has the day, and another one follows it.
Covered(day) ==
    \E m \in Months : m + 1 \in Months /\ day \in FirstDay(m)..(FirstDay(m) + MonthLengths[m] - 1)

(***************************************************************************)
(* Frequencies as parse_dca_schedule returns them.  A phrase of the user   *)
(* is abstracted to its form and its numbers; "range" is what the user     *)
(* writes as Friday~Monday, "list" any enumeration of weekdays.            *)
(***************************************************************************)
Daily == [kind |-> "daily", days |-> {}, dom |-> 0]
OnDays(days) == IF days = Weekdays THEN Daily ELSE [kind |-> "days", days |-> days, dom |-> 0]
Monthly(dom) == [kind |-> "monthly", days |-> {}, dom |-> dom]
Rejected == [kind |-> "rejected", days |-> {}, dom |-> 0]

RangeDaysShort(first, last) == IF first <= last THEN first..last ELSE (first..6) \cup (0..(last - 1))

RangeDays(first, last) == IF first <= last THEN first..last ELSE (first..6) \cup (0..last)

ParseSchedule(phrase) ==
    CASE phrase.form = "everyday"   -> Daily
      [] phrase.form = "weekly"     -> OnDays({0})
      [] phrase.form = "monthly"    -> Monthly(1)
      [] phrase.form = "month end"  -> Monthly(MaxDayOfMonth)
      [] phrase.form = "month day"  -> IF phrase.first \in 1..MaxDayOfMonth
                                       THEN Monthly(phrase.first) ELSE Rejected
      [] phrase.form = "list"       -> OnDays(phrase.days)
      [] phrase.form = "range"      -> OnDays(RangeDays(phrase.first, phrase.last))

(***************************************************************************)
(* compute_next_run_at.  With after the current period is over whatever    *)
(* the hour: the caller has just run or skipped it.                        *)
(***************************************************************************)
NextDaily(slot, now, after) ==
    LET today == Instant(Day(now), slot)
    IN  IF after \/ today <= now THEN today + Slots ELSE today

NextOnDays(days, slot, now, after) ==
    LET passed(day) == day = Day(now) /\ (after \/ Instant(day, slot) <= now)
        candidates == {day \in Day(now)..(Day(now) + 7) : day % 7 \in days /\ ~passed(day)}
    IN  Instant(Min(candidates), slot)

NextMonthly(dom, slot, now, after) ==
    LET month == MonthOf(Day(now))
        here == Instant(DayInMonth(dom, month), slot)
    IN  IF after \/ here <= now THEN Instant(DayInMonth(dom, month + 1), slot) ELSE here

NextRunAt(freq, slot, now, after) ==
    CASE freq.kind = "daily"   -> NextDaily(slot, now, after)
      [] freq.kind = "days"    -> NextOnDays(freq.days, slot, now, after)
      [] freq.kind = "monthly" -> NextMonthly(freq.dom, slot, now, after)

(***************************************************************************)
(* _runs_in_next_7_days: what the cash check provides for.                 *)
(***************************************************************************)
RunsInNext7DaysOncePerWeek(freq, remaining) ==
    Min({IF freq.kind = "daily" THEN 7 ELSE 1, remaining})

RunsInNext7Days(freq, remaining) ==
    LET runs == CASE freq.kind = "daily"   -> 7
                  [] freq.kind = "days"    -> Max({1, Cardinality(freq.days)})
                  [] freq.kind = "monthly" -> 1
    IN  Min({runs, remaining})

(***************************************************************************)
(* analyze_user_cash_sufficiency, for one exchange: the schedules that buy *)
(* there, the orders whose money is not locked yet, the cash.              *)
(***************************************************************************)
AnalyzeCash(cash, reserved, amount, runs) ==
    LET next == amount + reserved
        week == amount * runs + reserved
    IN  [status |-> IF next > cash THEN "short_next"
                    ELSE IF week > cash THEN "warn_weekly" ELSE "ok",
         shortfall |-> Max({0, week - cash}),
         runsLeft |-> IF amount = 0 THEN 0 ELSE Max({0, cash - reserved}) \div amount]

(***************************************************************************)
(* The reference: the instants a phrase names, day by day.                 *)
(***************************************************************************)
\* The weekdays met when one walks from the first to the last.
Walk(first, last) ==
    {d \in Weekdays : (d - first) % 7 <= (last - first) % 7}

Names(phrase, day) ==
    CASE phrase.form = "everyday" -> TRUE
      [] phrase.form = "weekly"   -> day % 7 = 0
      [] phrase.form = "list"     -> day % 7 \in phrase.days
      [] phrase.form = "range"    -> day % 7 \in Walk(phrase.first, phrase.last)
      [] phrase.form = "monthly"  -> \E m \in Months : day = FirstDay(m)
      [] phrase.form = "month end" -> \E m \in Months : day = FirstDay(m) + MonthLengths[m] - 1
      [] phrase.form = "month day" ->
            \E m \in Months : /\ day \in FirstDay(m)..(FirstDay(m) + MonthLengths[m] - 1)
                              /\ \/ day = FirstDay(m) + phrase.first - 1
                                 \/ /\ phrase.first > MonthLengths[m]
                                    /\ day = FirstDay(m) + MonthLengths[m] - 1

Occurrences(phrase, slot) ==
    {Instant(day, slot) : day \in {d \in 0..(FirstDay(Len(MonthLengths)) - 1) : Names(phrase, d)}}

\* The last instant of the period of `now` that a run made now has used up.
PeriodEnd(freq, now) ==
    IF freq.kind = "monthly"
    THEN Instant(FirstDay(MonthOf(Day(now))) + MonthLengths[MonthOf(Day(now))] - 1, Slots - 1)
    ELSE Instant(Day(now), Slots - 1)

\* compute_next_run_at names the first instant of the user's phrase that is still
\* to come or, after a run, the first one of a later day (month): none is left out
\* and none is invented, across ranges over Sunday, short months and same-day hours.
NextRunIsNextOccurrence(query) ==
    LET freq == ParseSchedule(query.phrase)
        from == IF query.after THEN PeriodEnd(freq, query.now) ELSE query.now
    IN  freq # Rejected =>
          NextRunAt(freq, query.slot, query.now, query.after)
            = Min({t \in Occurrences(query.phrase, query.slot) : t > from})

\* A balance the cash check calls sufficient pays for every run the calendar holds in the
\* coming week, one it calls short does not pay for the next run, and the runs it says
\* are left can be paid (runs put off by a closed market apart, which it does not count).
WeekIsProvidedFor(query) ==
    LET freq == ParseSchedule(query.phrase)
        week == {t \in Occurrences(query.phrase, query.slot) :
                    query.now < t /\ t <= query.now + 7 * Slots}
        coming == Min({Cardinality(week), query.remaining})
        report == AnalyzeCash(query.cash, query.reserved, query.amount,
                              RunsInNext7Days(freq, query.remaining))
        pays(runs) == query.reserved + runs * query.amount <= query.cash
    IN  freq # Rejected =>
          /\ report.status = "ok" => pays(coming)
          /\ report.status = "short_next" <=> ~pays(1)
          /\ pays(0) /\ query.amount > 0 => pays(report.runsLeft) /\ ~pays(report.runsLeft + 1)
          /\ query.cash + report.shortfall >= query.reserved + coming * query.amount
==============================================================================
