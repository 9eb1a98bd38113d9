---------------------------- MODULE TradingCalendar ----------------------------
\* The rule-based exchange calendars: is an exchange expected to trade on a date.
\* The scheduler, the activity priority and the validation ask about single dates;
\* here a clock walks through the dates one by one, and the answers are compared
\* with the holidays' definitions on a civil calendar.
\*
\* The code's dates are days of a year, an observed New Year may be day 0.  The
\* walked date has the month, the day of the month and the weekday (Monday is 0).
EXTENDS Integers, FiniteSets

CONSTANTS FirstYear, FirstWeekday, LastYear   \* the walk, and the weekday it starts on

VARIABLE date   \* [year, day, month, dom, weekday]

IsLeap(year) == year % 4 = 0 /\ (year % 100 # 0 \/ year % 400 = 0)
DaysInYear(year) == IF IsLeap(year) THEN 366 ELSE 365
MonthLengths == <<31, 28, 31, 30, 31, 30, 31, 31, 30, 31, 30, 31>>
DaysBefore   == <<0, 31, 59, 90, 120, 151, 181, 212, 243, 273, 304, 334, 365>>
DaysInMonth(year, month) == MonthLengths[month] + (IF month = 2 /\ IsLeap(year) THEN 1 ELSE 0)

\* date(year, month, day) and date.weekday() of the standard library.
Date(year, month, day) ==
  DaysBefore[month] + day + (IF month > 2 /\ IsLeap(year) THEN 1 ELSE 0)
DaysBeforeYear(year) ==
  (year - 1) * 365 + (year - 1) \div 4 - (year - 1) \div 100 + (year - 1) \div 400
Weekday(year, day) == (DaysBeforeYear(year) + day + 6) % 7

\* The walk starts on a New Year's Day, with the weekday that it has.
Parameters ==
  FirstYear \in Nat \ {0} /\ LastYear \in Nat /\ FirstWeekday = Weekday(FirstYear, 1)

\* ----------------------------------------------------------- the code's rules

\* A faulty variant: a Sunday is not moved.
ObservedDate_Saturday(year, day) == IF Weekday(year, day) = 5 THEN day - 1 ELSE day

ObservedDate(year, day) ==
  CASE Weekday(year, day) = 5 -> day - 1
    [] Weekday(year, day) = 6 -> day + 1
    [] OTHER -> day

NthWeekdayOfMonth(year, month, weekday, n) ==
  LET first == Date(year, month, 1)
  IN first + ((weekday - Weekday(year, first)) % 7) + 7 * (n - 1)

\* The loop goes back from the last day of the month to the weekday.
LastWeekdayOfMonth(year, month, weekday) ==
  LET last == Date(year, month + 1, 1) - 1
  IN CHOOSE d \in (last - 6)..last : Weekday(year, d) = weekday

EasterSunday(year) ==
  LET a == year % 19
      b == year \div 100
      c == year % 100
      h == (19 * a + b - b \div 4 - (b - (b + 8) \div 25 + 1) \div 3 + 15) % 30
      l == (32 + 2 * (b % 4) + 2 * (c \div 4) - h - (c % 4)) % 7
      m == (a + 11 * h + 22 * l) \div 451
      n == h + l - 7 * m + 114
  IN Date(year, n \div 31, (n % 31) + 1)

UsMarketHolidays(year) ==
  {ObservedDate(year, Date(year, 1, 1)),
   NthWeekdayOfMonth(year, 1, 0, 3),
   NthWeekdayOfMonth(year, 2, 0, 3),
   EasterSunday(year) - 2,
   LastWeekdayOfMonth(year, 5, 0),
   ObservedDate(year, Date(year, 6, 19)),
   ObservedDate(year, Date(year, 7, 4)),
   NthWeekdayOfMonth(year, 9, 0, 1),
   NthWeekdayOfMonth(year, 11, 3, 4),
   ObservedDate(year, Date(year, 12, 25))}

CzechFixed == {<<1, 1>>, <<5, 1>>, <<5, 8>>, <<7, 5>>, <<7, 6>>, <<9, 28>>,
               <<10, 28>>, <<11, 17>>, <<12, 24>>, <<12, 25>>, <<12, 26>>}
CzechMarketHolidays(year) ==
  {Date(year, d[1], d[2]) : d \in CzechFixed}
    \cup {EasterSunday(year) - 2, EasterSunday(year) + 1}

\* The launch provider: two exchanges share the rules of one country.
CalendarOf(exchange) ==
  CASE exchange = "NYSE" -> {"XNYS"} [] exchange = "NASDAQ" -> {"XNAS"}
    [] exchange = "PSE" -> {"XPRA"} [] OTHER -> {}
Holidays(calendar, year) ==
  IF calendar = "XPRA" THEN CzechMarketHolidays(year) ELSE UsMarketHolidays(year)

IsTradingDay(calendar, year, day) ==
  Weekday(year, day) < 5 /\ day \notin Holidays(calendar, year)

Evaluate(exchange, year, day) ==
  IF CalendarOf(exchange) = {} THEN "unknown_calendar"
  ELSE IF \E c \in CalendarOf(exchange) : IsTradingDay(c, year, day)
       THEN "expected_trading_day"
  ELSE "market_closed"

\* --------------------------------------------------------------------- the walk

Init ==
  date = [year |-> FirstYear, day |-> 1, month |-> 1, dom |-> 1, weekday |-> FirstWeekday]

Tomorrow == (date.weekday + 1) % 7

NextDay ==
  /\ date.day < DaysInYear(date.year)
  /\ date' = IF date.dom < DaysInMonth(date.year, date.month)
             THEN [date EXCEPT !.day = @ + 1, !.dom = @ + 1, !.weekday = Tomorrow]
             ELSE [date EXCEPT !.day = @ + 1, !.dom = 1, !.month = @ + 1, !.weekday = Tomorrow]

NextYear ==
  /\ date.day = DaysInYear(date.year)
  /\ date.year < LastYear
  /\ date' = [year |-> date.year + 1, day |-> 1, month |-> 1, dom |-> 1, weekday |-> Tomorrow]

Next == NextDay \/ NextYear
Spec == Init /\ [][Next]_date

-------------------------------------------------------------------------------

\* The day of the year of the paschal full moon, by the tables of the Gregorian
\* reform: the age of the moon advances eleven days a year, corrected by centuries.
FullMoon(year) ==
  LET century == year \div 100 + 1
      solar   == (3 * century) \div 4 - 12
      lunar   == (8 * century + 5) \div 25 - 5
      golden  == (year % 19) + 1
      age     == (11 * golden + 20 + lunar - solar) % 30
      epact   == IF age = 24 \/ (age = 25 /\ golden > 11) THEN age + 1 ELSE age
      inMarch == IF epact > 23 THEN 74 - epact ELSE 44 - epact
  IN Date(year, 3, 1) + inMarch - 1

\* Easter is the first Sunday after the full moon: is it k days from the date.
EasterIn(k) ==
  /\ (date.weekday + k) % 7 = 6
  /\ date.day + k \in (FullMoon(date.year) + 1)..(FullMoon(date.year) + 7)

On(month, days) == date.month = month /\ date.dom \in days
UsFixed == {<<1, 1>>, <<6, 19>>, <<7, 4>>, <<12, 25>>}

\* The holidays as the American exchanges define them, on the walked date.
AmericanHoliday ==
  \/ EasterIn(2)
  \/ date.weekday = 0 /\ (On(1, 15..21) \/ On(2, 15..21) \/ On(5, 25..31) \/ On(9, 1..7))
  \/ date.weekday = 3 /\ On(11, 22..28)
  \/ \E h \in UsFixed :
       \/ On(h[1], {h[2]})
       \/ date.weekday = 0 /\ On(h[1], {h[2] + 1})
       \/ date.weekday = 4 /\ On(h[1], {h[2] - 1})

CzechHoliday == EasterIn(2) \/ EasterIn(-1) \/ <<date.month, date.dom>> \in CzechFixed

\* The answer for a date is closed exactly on a weekend or a holiday as defined on
\* the civil calendar, whatever the date arithmetic of the rules: moved holidays,
\* counted weekdays, leap years and centuries, and the Easter formula.
ClosedWhenDefined ==
  /\ \A x \in {"NYSE", "NASDAQ"} :
       Evaluate(x, date.year, date.day) = "market_closed" <=> date.weekday >= 5 \/ AmericanHoliday
  /\ Evaluate("PSE", date.year, date.day) = "market_closed" <=> date.weekday >= 5 \/ CzechHoliday
===============================================================================
