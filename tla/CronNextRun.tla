----------------------------- MODULE CronNextRun -----------------------------
(***************************************************************************)
(* entries/cron-next-run/main.go: the fields of a cron expression, and     *)
(* which minutes it fires at.  An item of a field is what its text says:   *)
(* a star, a range, a number or neither ("bad"), and a step, -1 for none;  *)
(* a field is the sequence of its items, an expression of its fields.  The *)
(* calendar is a small one with the same shape: its constants give the     *)
(* lengths.                                                                *)
(***************************************************************************)
EXTENDS Integers, Sequences

CONSTANTS
    SecondsPerMinute, MinutesPerHour, HoursPerDay, WeekDays,
    MonthDays,      \* the lengths of the months of a common year
    LeapMonth,      \* the month with one day more in a leap year
    LeapEvery       \* every how many years there is a leap year: 4

ASSUME CalendarAssumption ==
    /\ {SecondsPerMinute, MinutesPerHour, HoursPerDay, WeekDays, LeapEvery} \subseteq Nat \ {0}
    /\ MonthDays \in Seq(Nat \ {0}) /\ LeapMonth \in DOMAIN MonthDays
    /\ LeapEvery \in 2..4 /\ \A m \in DOMAIN MonthDays : WeekDays <= MonthDays[m]

NoStep == -1

Smaller(a, b) == IF a <= b THEN a ELSE b

-----------------------------------------------------------------------------
(* Time *)

MonthsPerYear == Len(MonthDays)

\* The length of the k-th month, counted from that of the first leap year.
MonthLength(k) ==
    LET month == (k % MonthsPerYear) + 1
        leap == month = LeapMonth /\ (k \div MonthsPerYear) % LeapEvery = 0
    IN  MonthDays[month] + (IF leap THEN 1 ELSE 0)

\* The days before the k-th month.
DaysBefore[k \in 0..(LeapEvery * MonthsPerYear)] ==
    IF k = 0 THEN 0 ELSE DaysBefore[k - 1] + MonthLength(k - 1)

CycleDays == DaysBefore[LeapEvery * MonthsPerYear]
MinutesPerDay == MinutesPerHour * HoursPerDay
LongestYear == DaysBefore[MonthsPerYear]
LongestMonth ==
    CHOOSE n \in {MonthLength(k) : k \in 0..(MonthsPerYear - 1)} :
        \A k \in 0..(MonthsPerYear - 1) : MonthLength(k) <= n

\* Month and day of each day of a leap cycle.
Dates ==
    [d \in 0..(CycleDays - 1) |->
        LET k == CHOOSE k \in 0..(LeapEvery * MonthsPerYear - 1) :
                    DaysBefore[k] <= d /\ d < DaysBefore[k + 1]
        IN  [month |-> (k % MonthsPerYear) + 1, day |-> d - DaysBefore[k] + 1]]

\* What the clock shows t minutes after the start of the cycle.
Clock(t) ==
    LET d == t \div MinutesPerDay
    IN  [minute |-> t % MinutesPerHour,
         hour |-> (t \div MinutesPerHour) % HoursPerDay,
         dom |-> Dates[d % CycleDays].day,
         month |-> Dates[d % CycleDays].month,
         dow |-> d % WeekDays]

-----------------------------------------------------------------------------
(* Expressions *)

FieldNames == <<"minute", "hour", "dom", "month", "dow">>

Lo(name) == IF name \in {"dom", "month"} THEN 1 ELSE 0

Hi(name) ==
    CASE name = "minute" -> MinutesPerHour - 1
      [] name = "hour"   -> HoursPerDay - 1
      [] name = "dom"    -> LongestMonth
      [] name = "month"  -> MonthsPerYear
      [] name = "dow"    -> WeekDays - 1

\* Where an item starts and ends.
From(item, lo) == IF item.kind = "star" THEN lo ELSE item.from
To(item, hi) == IF item.kind = "star" THEN hi ELSE item.to

ItemOK(item, lo, hi) ==
    /\ item.kind # "bad"
    /\ item.step = NoStep \/ (item.step >= 1 /\ item.kind # "one")
    /\ item.kind = "range" => item.from <= item.to
    /\ From(item, lo) >= lo /\ To(item, hi) <= hi

\* Every which value of the item counts: no more than the field is wide.
Stride(item, lo, hi) == IF item.step = NoStep THEN 1 ELSE Smaller(item.step, hi - lo + 1)

\* The values the loop of parseField reaches.
Bits(item, lo, hi) ==
    {v \in From(item, lo)..To(item, hi) : (v - From(item, lo)) % Stride(item, lo, hi) = 0}

BareStar == [kind |-> "star", from |-> 0, to |-> 0, step |-> NoStep]

ParseField(items, lo, hi) ==
    [restricted |-> items # <<BareStar>>,
     bits |-> UNION {Bits(items[i], lo, hi) : i \in DOMAIN items}]

FieldOK(items, lo, hi) == \A i \in DOMAIN items : ItemOK(items[i], lo, hi)

ExprOK(expr) ==
    /\ Len(expr) = 5
    /\ \A i \in 1..5 : FieldOK(expr[i], Lo(FieldNames[i]), Hi(FieldNames[i]))

ParseExpr(expr) ==
    [name \in {FieldNames[i] : i \in 1..5} |->
        LET i == CHOOSE i \in 1..5 : FieldNames[i] = name
        IN  ParseField(expr[i], Lo(name), Hi(name))]

\* Mutation: both day fields must match.
DayMatchesBoth(s, now) == now.dom \in s.dom.bits /\ now.dow \in s.dow.bits

\* The Vixie rule.
DayMatches(s, now) ==
    \/ s.dom.restricted /\ now.dom \in s.dom.bits
    \/ s.dow.restricted /\ now.dow \in s.dow.bits
    \/ ~s.dom.restricted /\ ~s.dow.restricted

ScheduleMatches(s, t) ==
    LET now == Clock(t)
    IN  /\ now.minute \in s.minute.bits /\ now.hour \in s.hour.bits
        /\ now.month \in s.month.bits
        /\ DayMatches(s, now)

\* What parseInstant makes of a text that is no instant.
NoInstant == -1

\* The minutes searched, and the first of them after an instant in seconds.
SearchMinutes == 4 * LongestYear * MinutesPerDay
FirstMinute(instant) == (instant \div SecondsPerMinute) + 1

-----------------------------------------------------------------------------
(* What an expression means *)

\* A value is named by an item if some number of steps from its start leads there.
Names(item, v, lo, hi) ==
    /\ From(item, lo) <= v /\ v <= To(item, hi)
    /\ \E k \in 0..hi : v = From(item, lo) + k * (IF item.step = NoStep THEN 1 ELSE item.step)

\* An expression fires at t if every field names what the clock shows; one
\* day field is enough if neither of them is a bare star.
Fires(expr, t) ==
    LET now == Clock(t)
        Holds(i) == \E j \in DOMAIN expr[i] :
            Names(expr[i][j], now[FieldNames[i]], Lo(FieldNames[i]), Hi(FieldNames[i]))
    IN  /\ Holds(1) /\ Holds(2) /\ Holds(4)
        /\ IF expr[3] # <<BareStar>> /\ expr[5] # <<BareStar>> THEN Holds(3) \/ Holds(5)
           ELSE Holds(3) /\ Holds(5)

\* After this many minutes the calendar and the days of the week repeat.
Forever == CycleDays * WeekDays * MinutesPerDay
=============================================================================
