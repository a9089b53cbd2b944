-------------------------- MODULE DateFormatProofs --------------------------
(***************************************************************************)
(* Proofs that DATE_FORMAT follows the calendar, takes what is a date and  *)
(* keeps within its buffers, for walks from every year that the code reads *)
(* and of any number of days within those years, and for any literals and  *)
(* formats.                                                                *)
(*                                                                         *)
(* The day numbers are the link to the calendar: both the one kept by      *)
(* counting and the formulas of the code are described by the number of    *)
(* January 1 and the day of the year, and the week formulas are compared   *)
(* for each weekday of January 1, both lengths of the year and of the one  *)
(* before, and every day.                                                  *)
(***************************************************************************)
EXTENDS DateFormat, WellFoundedInduction, TLAPS

\* is_leap() is the rule of the Gregorian calendar.
LEMMA LeapSame == \A y \in Nat : is_leap(y) <=> LeapYear(y)
  BY DEF is_leap, LeapYear

\* The leap days that get_day_num() counts grow by one in leap years only.
LEMMA LeapStep ==
    ASSUME NEW y \in Nat \ {0}
    PROVE  leap_days(y) = leap_days(y - 1) + (IF LeapYear(y) THEN 1 ELSE 0)
  <1> DEFINE c == (y - 1) \div 100
             r == (y - 1) % 100
  <1>1. c \in Nat /\ r \in 0 .. 99 /\ y - 1 = (100 * c) + r
    OBVIOUS
  <1>2. CASE r < 99
    <2>1. y \div 100 = c /\ y % 100 = r + 1
      BY <1>1, <1>2
    <2> QED
      BY <1>1, <2>1, <1>2 DEF leap_days, IntDiv, LeapYear
  <1>3. CASE r = 99
    <2>1. y \div 100 = c + 1 /\ y % 100 = 0 /\ y = 100 * (c + 1)
      BY <1>1, <1>3
    <2> QED
      BY <1>1, <2>1, <1>3 DEF leap_days, IntDiv, LeapYear
  <1> QED
    BY <1>1, <1>2, <1>3

\* They are never negative.
LEMMA LeapDaysNat == \A y \in Nat : leap_days(y) \in Nat
  BY DEF leap_days, IntDiv

\* MySQL's formula with one division by 100 is the usual one.
LEMMA LeapDaysGregorian ==
    \A y \in Nat : leap_days(y) = (y \div 4) - (y \div 100) + (y \div 400)
  BY DEF leap_days, IntDiv

\* The lengths of the months by cases.
LEMMA MonthLengths ==
    ASSUME NEW y \in Nat, NEW m \in 0 .. 11
    PROVE  MonthLength(y, m) =
             IF m = 1 THEN (IF LeapYear(y) THEN 29 ELSE 28) ELSE IF m \in {3, 5, 8, 10} THEN 30 ELSE 31
  <1> DEFINE f == IF LeapYear(y) THEN 29 ELSE 28
  <1>1. f \in Int
    OBVIOUS
  <1>2. MonthLength(y, m) = <<31, f, 31, 30, 31, 30, 31, 31, 30, 31, 30, 31>>[m + 1]
    BY Zenon DEF MonthLength
  <1> HIDE DEF f
  <1>3. MonthLength(y, m) = IF m = 1 THEN f ELSE IF m \in {3, 5, 8, 10} THEN 30 ELSE 31
    BY <1>1, <1>2
  <1> QED
    BY <1>3, Zenon DEF f

\* Day numbers are positive: the unsigned arithmetic does not wrap.
LEMMA DayNumInt ==
    ASSUME NEW y \in Nat \ {0}, NEW m \in 0 .. 11, NEW d \in 1 .. 31
    PROVE  get_day_num(y, m, d) \in Nat /\ get_day_num(y, m, d) > 300
  <1>1. month_offset(m) \in 0 .. 7
    BY DEF month_offset
  <1>2. leap_days(y) \in Nat /\ leap_days(y - 1) \in Nat
    BY LeapDaysNat
  <1> QED
    BY <1>1, <1>2 DEF get_day_num

\* From the last day of a month to the first of the next one.
LEMMA NextMonth ==
    ASSUME NEW y \in Nat \ {0}, NEW m \in 0 .. 10
    PROVE  get_day_num(y, m + 1, 1) = get_day_num(y, m, MonthLength(y, m)) + 1
  <1>1. leap_days(y) \in Nat /\ leap_days(y - 1) \in Nat
    BY LeapDaysNat
  <1>2. leap_days(y) = leap_days(y - 1) + (IF LeapYear(y) THEN 1 ELSE 0)
    BY LeapStep, Zenon
  <1>3. MonthLength(y, m) =
             IF m = 1 THEN (IF LeapYear(y) THEN 29 ELSE 28) ELSE IF m \in {3, 5, 8, 10} THEN 30 ELSE 31
    BY MonthLengths
  <1> QED
    BY <1>1, <1>2, <1>3 DEF get_day_num, month_offset

\* From the last day of a year to the first of the next one, and over a whole year.
LEMMA NextYear ==
    ASSUME NEW y \in Nat \ {0}
    PROVE  /\ get_day_num(y + 1, 0, 1) = get_day_num(y, 11, 31) + 1
           /\ get_day_num(y + 1, 0, 1) = get_day_num(y, 0, 1) + YearLength(y)
  <1>1. leap_days(y) \in Nat /\ leap_days(y - 1) \in Nat
    BY LeapDaysNat
  <1>2. leap_days(y) = leap_days(y - 1) + (IF LeapYear(y) THEN 1 ELSE 0)
    BY LeapStep, Zenon
  <1> QED
    BY <1>1, <1>2 DEF get_day_num, month_offset, YearLength

\* From one day of a month to the next.
LEMMA NextDay ==
    ASSUME NEW y \in Nat \ {0}, NEW m \in 0 .. 11, NEW d \in 1 .. 31
    PROVE  get_day_num(y, m, d + 1) = get_day_num(y, m, d) + 1
  <1>1. month_offset(m) \in 0 .. 7
    BY DEF month_offset
  <1>2. leap_days(y) \in Nat /\ leap_days(y - 1) \in Nat
    BY LeapDaysNat
  <1> QED
    BY <1>1, <1>2 DEF get_day_num

---------------------------------------------------------------------------
(* get_week() of day yd of year y, whose January 1 is weekday w0, with the lengths *)
(* P of the year before and L of the year.                                         *)
WeekAfter(since, w, len, year, sw, iso) ==
    IF sw = 1 /\ (since < 0 \/ since >= 52 * 7) /\ ~after_week1((w + len) % 7, iso)
    THEN [week |-> 1, year |-> year + 1]
    ELSE [week |-> UDiv7(since) + 1, year |-> year]
CodeWeek(w0, yd, P, L, y, sw, iso) ==
    IF yd < 7 - w0
    THEN IF sw = 0 /\ after_week1(w0, iso) THEN [week |-> 0, year |-> y]
         ELSE WeekAfter(days_since_week1(yd, -P, (w0 + (53 * 7) - P) % 7, iso),
                        (w0 + (53 * 7) - P) % 7, P, y - 1, 1, iso)
    ELSE WeekAfter(days_since_week1(yd, 0, w0, iso), w0, L, y, sw, iso)

Lengths == {365, 366}
(* The week of the deciding day, d days after January 1 of year y. *)
CountWeek(d, P, L, y) ==
    IF d < 0 THEN [year |-> y - 1, week |-> ((d + P) \div 7) + 1]
    ELSE IF d >= L THEN [year |-> y + 1, week |-> ((d - L) \div 7) + 1]
    ELSE [year |-> y, week |-> (d \div 7) + 1]

(* Week c as %U and %u show it for a day of year y. *)
InYear(c, y) == [year |-> y, week |-> IF c.year < y THEN 0 ELSE c.week]
InYear53(c, y) ==
    [year |-> y, week |-> IF c.year < y THEN 0 ELSE IF c.year > y THEN 53 ELSE c.week]

\* %V with %X: the week lies in the year of its Sunday.
LEMMA SundayWeek ==
    ASSUME NEW w0 \in 0 .. 6, NEW P \in Lengths, NEW L \in Lengths, NEW yd \in 0 .. (L - 1),
           NEW y \in Nat
    PROVE  CodeWeek(w0, yd, P, L, y, 1, FALSE) = CountWeek(yd - ((w0 + yd) % 7), P, L, y)
  BY SMTT(60) DEF CodeWeek, WeekAfter, days_since_week1, CountWeek, after_week1, UDiv7, Lengths, InYear, InYear53

\* %v with %x: the week lies in the year of its Thursday.
LEMMA MondayWeek ==
    ASSUME NEW w0 \in 0 .. 6, NEW P \in Lengths, NEW L \in Lengths, NEW yd \in 0 .. (L - 1),
           NEW y \in Nat
    PROVE  CodeWeek(w0, yd, P, L, y, 1, TRUE) = CountWeek(yd + 3 - ((w0 + yd) % 7), P, L, y)
  BY SMTT(60) DEF CodeWeek, WeekAfter, days_since_week1, CountWeek, after_week1, UDiv7, Lengths, InYear, InYear53

\* %U: the days before the first Sunday are in week 0.
LEMMA SundayWeekOfYear ==
    ASSUME NEW w0 \in 0 .. 6, NEW P \in Lengths, NEW L \in Lengths, NEW yd \in 0 .. (L - 1),
           NEW y \in Nat
    PROVE  CodeWeek(w0, yd, P, L, y, 0, FALSE) =
             InYear(CountWeek(yd - ((w0 + yd) % 7), P, L, y), y)
  BY SMTT(60) DEF CodeWeek, WeekAfter, days_since_week1, CountWeek, after_week1, UDiv7, Lengths, InYear, InYear53

\* %u: as %v, but for week 0 and week 53.
LEMMA MondayWeekOfYear ==
    ASSUME NEW w0 \in 0 .. 6, NEW P \in Lengths, NEW L \in Lengths, NEW yd \in 0 .. (L - 1),
           NEW y \in Nat
    PROVE  CodeWeek(w0, yd, P, L, y, 0, TRUE) =
             InYear53(CountWeek(yd + 3 - ((w0 + yd) % 7), P, L, y), y)
  BY SMTT(60) DEF CodeWeek, WeekAfter, days_since_week1, CountWeek, after_week1, UDiv7, Lengths, InYear, InYear53

(* Weekdays from day numbers: of a day, and of the January 1 before it. *)
LEMMA Weekdays ==
    ASSUME NEW J \in Nat, NEW yd \in Nat
    PROVE  /\ get_weekday_from_day_num(J, "Sunday") \in 0 .. 6
           /\ get_weekday_from_day_num(J, "Monday") \in 0 .. 6
           /\ get_weekday_from_day_num(J + yd, "Sunday") = (J + yd + 6) % 7
           /\ get_weekday_from_day_num(J + yd, "Monday") = (((J + yd + 6) % 7) + 6) % 7
           /\ (get_weekday_from_day_num(J, "Sunday") + yd) % 7 = (J + yd + 6) % 7
           /\ (get_weekday_from_day_num(J, "Monday") + yd) % 7 = (((J + yd + 6) % 7) + 6) % 7
  <1>1. /\ get_weekday_from_day_num(J + yd, "Sunday") = (J + yd + 6) % 7
        /\ get_weekday_from_day_num(J + yd, "Monday") = (J + yd + 5) % 7
        /\ get_weekday_from_day_num(J, "Sunday") = (J + 6) % 7
        /\ get_weekday_from_day_num(J, "Monday") = (J + 5) % 7
    BY DEF get_weekday_from_day_num, UMod7
  <1>2. (J + yd + 5) % 7 = (((J + yd + 6) % 7) + 6) % 7
    OBVIOUS
  <1>3. (((J + 6) % 7) + yd) % 7 = (J + yd + 6) % 7 /\ (((J + 5) % 7) + yd) % 7 = (J + yd + 5) % 7
    OBVIOUS
  <1>4. (J + 6) % 7 \in 0 .. 6 /\ (J + 5) % 7 \in 0 .. 6
    OBVIOUS
  <1> QED
    BY <1>1, <1>2, <1>3, <1>4, Zenon

(* A day of the calendar, which is day yd of its year. *)
DayAt(y, m, d, yd) ==
    /\ y \in Nat \ {0} /\ m \in 0 .. 11 /\ d \in 1 .. 31 /\ yd \in Nat
    /\ d <= MonthLength(y, m)
    /\ get_day_num(y, m, d) = get_day_num(y, 0, 1) + yd

\* get_week() by the day of the year.
LEMMA WeekOfDay ==
    ASSUME NEW tm, NEW yd, DayAt(tm.year, tm.mon, tm.mday, yd),
           NEW first \in {"Sunday", "Monday"}, NEW sw \in {0, 1}, NEW iso \in BOOLEAN
    PROVE  get_week(tm, first, sw, iso) =
             CodeWeek(get_weekday_from_day_num(get_day_num(tm.year, 0, 1), first), yd,
                      YearLength(tm.year - 1), YearLength(tm.year), tm.year, sw, iso)
  <1> PICK y \in Nat \ {0}, m \in 0 .. 11, d \in 1 .. 31 : tm.year = y /\ tm.mon = m /\ tm.mday = d
    BY Zenon DEF DayAt
  <1> yd \in Nat /\ get_day_num(y, m, d) = get_day_num(y, 0, 1) + yd
    BY Zenon DEF DayAt
  <1>1. get_day_num(y, 0, 1) \in Nat /\ get_day_num(y, m, d) \in Nat
    <2>1. 0 \in 0 .. 11 /\ 1 \in 1 .. 31
      OBVIOUS
    <2> QED
      BY <2>1, DayNumInt, ZenonT(30)
  <1> PICK w0 \in 0 .. 6 : w0 = get_weekday_from_day_num(get_day_num(y, 0, 1), first)
    BY <1>1, Weekdays, Zenon
  <1> SUFFICES get_week(tm, first, sw, iso) =
                 CodeWeek(w0, yd, YearLength(y - 1), YearLength(y), y, sw, iso)
    BY Zenon
  <1>2. (m = 0 /\ d <= 7 - w0) <=> yd < 7 - w0
    <2>1. leap_days(y) \in Nat /\ leap_days(y - 1) \in Nat
      BY LeapDaysNat
    <2>2. leap_days(y) >= leap_days(y - 1)
      BY LeapStep, <2>1
    <2>3. 31 * m - month_offset(m) >= 31 \/ m = 0
      BY DEF month_offset
    <2> QED
      BY <2>1, <2>2, <2>3 DEF get_day_num, month_offset
  <1>3. get_days_in_year(y) = YearLength(y) /\ get_days_in_year(y - 1) = YearLength(y - 1)
    BY LeapSame DEF get_days_in_year, YearLength
  <1>4. ASSUME NEW P \in Int, NEW w \in Int
        PROVE  days_since_week1(get_day_num(y, m, d), get_day_num(y, 0, 1) - P, w, iso) =
                 days_since_week1(yd, -P, w, iso)
    BY <1>1 DEF days_since_week1
  <1>5. YearLength(y - 1) \in Int /\ (w0 + (53 * 7) - YearLength(y - 1)) % 7 \in Int
    <2>1. YearLength(y - 1) \in {365, 366}
      BY DEF YearLength
    <2> QED
      BY <2>1
  <1>6. days_since_week1(get_day_num(y, m, d), get_day_num(y, 0, 1), w0, iso) = days_since_week1(yd, 0, w0, iso)
    <2>1. get_day_num(y, m, d) - get_day_num(y, 0, 1) = yd - 0
      BY <1>1
    <2> QED
      BY <2>1, Zenon DEF days_since_week1
  <1>7. get_week(tm, first, sw, iso) = get_week_from_jan1(tm, get_day_num(y, 0, 1), w0, sw, iso)
    BY Zenon DEF get_week
  <1>8. CASE yd < 7 - w0
    <2> DEFINE P == YearLength(y - 1)
               w1 == (w0 + (53 * 7) - P) % 7
    <2>1. CASE sw = 0 /\ after_week1(w0, iso)
      BY <1>2, <1>7, <1>8, <2>1, Zenon DEF get_week_from_jan1, CodeWeek
    <2>2. CASE ~(sw = 0 /\ after_week1(w0, iso))
      <3>1. days_since_week1(get_day_num(y, m, d), get_day_num(y, 0, 1) - P, w1, iso) =
              days_since_week1(yd, -P, w1, iso)
        BY <1>4, <1>5, ZenonT(30)
      <3>2. get_week(tm, first, sw, iso) =
              week_after(days_since_week1(yd, -P, w1, iso), w1, y - 1, 1, iso)
        <4>1. get_week_from_jan1(tm, get_day_num(y, 0, 1), w0, sw, iso) =
                week_from(get_day_num(y, m, d), get_day_num(y, 0, 1) - P, w1, y - 1, 1, iso)
          BY <1>2, <1>3, <1>8, <2>2, Zenon DEF get_week_from_jan1
        <4> QED
          BY <1>7, <3>1, <4>1, Zenon DEF week_from
      <3>3. CodeWeek(w0, yd, P, YearLength(y), y, sw, iso) =
              WeekAfter(days_since_week1(yd, -P, w1, iso), w1, P, y - 1, 1, iso)
        BY <1>8, <2>2, Zenon DEF CodeWeek
      <3> HIDE DEF w1
      <3> QED
        BY <1>3, <3>2, <3>3, Zenon DEF week_after, WeekAfter
    <2> QED
      BY <2>1, <2>2, Zenon
  <1>9. CASE ~(yd < 7 - w0)
    BY <1>2, <1>3, <1>6, <1>7, <1>9, Zenon
      DEF get_week_from_jan1, week_from, week_after, CodeWeek, WeekAfter
  <1> QED
    BY <1>8, <1>9, Zenon

\* MAX_YEAR is a natural number.
LEMMA MaxYearNat == MAX_YEAR \in Nat
  BY DEF MAX_YEAR

(* A day of the calendar, written as a literal, is read and formatted. *)
LEMMA DayIsRead ==
    ASSUME NEW c, c.year \in 1 .. MAX_YEAR, c.mon \in 0 .. 11, c.mday \in 1 .. MonthLength(c.year, c.mon),
           NEW fmt
    PROVE  /\ Call(DayLiteral(c), fmt).tm.year = c.year
           /\ Call(DayLiteral(c), fmt).tm.mon = c.mon
           /\ Call(DayLiteral(c), fmt).tm.mday = c.mday
  <1> DEFINE day == DayLiteral(c)
             tm == get_date_from_string(day)
  <1> c.year \in Nat \ {0} /\ c.year <= MAX_YEAR
    BY MaxYearNat
  <1>1. c.mday \in 1 .. 31 /\ c.mday # 0
    <2>1. c.mday \in Nat \ {0}
      BY MonthLengths
    <2> QED
      BY <2>1, MonthLengths
  <1>2. /\ day.num[1] = c.year /\ day.num[2] = c.mon + 1 /\ day.num[3] = c.mday /\ Len(day.num) = 3
        /\ day.delim[1] = "dash" /\ day.delim[2] = "dash"
    BY Zenon DEF DayLiteral
  <1>3. /\ was_read(day, 1) /\ was_read(day, 2) /\ was_read(day, 3)
        /\ ~was_read(day, 4) /\ ~was_read(day, 5) /\ ~was_read(day, 6)
    <2>1. 3 .. (1 - 1) = {} /\ 3 .. (2 - 1) = {} /\ 3 .. (3 - 1) = {}
      OBVIOUS
    <2>2. 1 <= 3 /\ 2 <= 3 /\ 3 <= 3 /\ ~(4 <= 3) /\ ~(5 <= 3) /\ ~(6 <= 3)
      OBVIOUS
    <2> QED
      BY <1>2, <2>1, <2>2, Zenon DEF was_read
  <1>4. 1 .. 6 = {1, 2, 3, 4, 5, 6} /\ 1 .. 2 = {1, 2}
    OBVIOUS
  <1>5. tm.year = c.year /\ tm.mon = c.mon + 1 - 1 /\ tm.mday = c.mday
    <2> DEFINE f == [i \in 1 .. 6 |-> IF was_read(day, i) THEN day.num[i] ELSE Unread[i]]
    <2>1. f[1] = c.year /\ f[2] = c.mon + 1 /\ f[3] = c.mday
      BY <1>2, <1>3, <1>4, Zenon
    <2>2. tm.year = f[1] /\ tm.mon = f[2] - 1 /\ tm.mday = f[3]
      BY Zenon DEF get_date_from_string
    <2> HIDE DEF f, tm
    <2> QED
      BY <2>1, <2>2
  <1>6. tm.mon = c.mon /\ tm.mon # -1 /\ tm.mon >= 0 /\ tm.year # 0
    BY <1>5
  <1>7. date_ok(day)
    <2>1. c.year <= Limit[1] /\ c.mon + 1 <= Limit[2] /\ c.mday <= Limit[3]
      BY <1>1 DEF Limit
    <2> QED
      BY <1>2, <1>3, <1>4, <2>1, Zenon DEF date_ok
  <1>8. ~(tm.mday > month_days(tm))
    <2>1. month_days(tm) = MonthLength(c.year, c.mon)
      BY <1>5, <1>6, MonthLengths, LeapSame DEF month_days
    <2>2. MonthLength(c.year, c.mon) \in Nat
      BY MonthLengths
    <2> QED
      BY <1>1, <1>5, <2>1, <2>2
  <1>9. known_date(tm)
    BY <1>1, <1>5, <1>6, Zenon DEF known_date
  <1>10. date_to_format(day, fmt) = strptime(tm)
    BY <1>6, <1>7, <1>8, <1>9, ZenonT(30) DEF date_to_format
  <1>11. strptime(tm).year = tm.year /\ strptime(tm).mon = tm.mon /\ strptime(tm).mday = tm.mday
    BY SMTT(30) DEF strptime, get_date_from_string
  <1>12. Call(DayLiteral(c), fmt).tm = strptime(tm)
    BY <1>10, Zenon DEF Call
  <1> QED
    BY <1>5, <1>6, <1>11, <1>12, Zenon

---------------------------------------------------------------------------
(* The calendar kept by counting agrees with the day numbers of the code, and the  *)
(* last call formatted its day.  The walk ends within the years of four digits: it *)
(* takes at least 365 days to a year.                                              *)
Walked(from, to) == 365 * (to - from)
DayInv(c, n) ==
    /\ DayAt(c.year, c.mon, c.mday, c.yday)
    /\ get_day_num(c.year, c.mon, c.mday) = get_day_num(start, 0, 1) + n
    /\ c.wday = (get_day_num(c.year, c.mon, c.mday) + 6) % 7
    /\ c.year >= start /\ Walked(start, c.year) + c.yday <= n
CalendarInv ==
    /\ start \in DOMAIN Jan1 /\ days \in 0 .. MaxDays
    /\ cal # NULL => DayInv(cal, days) /\ call = Call(DayLiteral(cal), WeekFormat)

\* What is assumed of the year in which a walk starts.
LEMMA StartYear ==
    ASSUME start \in DOMAIN Jan1
    PROVE  start \in Nat \ {0} /\ start <= MAX_YEAR /\ MaxDays \in Nat
           /\ MaxDays < Walked(start, MAX_YEAR + 1)
  <1>1. start \in 1 .. MAX_YEAR /\ MaxDays \in Nat /\ MaxDays < Walked(start, MAX_YEAR + 1)
    BY WalkAssumption, ZenonT(30) DEF Walked
  <1> QED
    BY <1>1, MaxYearNat

\* Whole weeks leave the weekday as it is.
LEMMA Mod7 ==
    ASSUME NEW a \in Nat, NEW k \in Nat
    PROVE  (a + (7 * k)) % 7 = a % 7 /\ a % 7 \in 0 .. 6
  OBVIOUS

\* The weekday of the next day.
LEMMA NextMod7 == \A a \in Nat : (((a + 6) % 7) + 1) % 7 = (a + 1 + 6) % 7
  OBVIOUS

\* January 1 of the year in which a walk starts.
LEMMA FirstDayInv ==
    ASSUME start \in DOMAIN Jan1
    PROVE  DayInv(FirstDay(start), 0)
  <1> DEFINE c == FirstDay(start)
             g == leap_days(start - 1)
  <1>1. start \in Nat \ {0} /\ start - 1 \in Nat
    BY StartYear
  <1>2. c.year = start /\ c.mon = 0 /\ c.mday = 1 /\ c.yday = 0 /\ c.wday = Jan1[start]
    BY Zenon DEF FirstDay
  <1>3. g = ((start - 1) \div 4) - ((start - 1) \div 100) + ((start - 1) \div 400) /\ g \in Nat
    BY <1>1, LeapDaysGregorian, LeapDaysNat
  <1>4. get_day_num(start, 0, 1) = (365 * start) + 1 + g
    BY <1>1, <1>3 DEF get_day_num, month_offset
  <1>5. Jan1[start] = (start + g) % 7
    <2>1. Jan1[start] = (start + ((start - 1) \div 4) - ((start - 1) \div 100) + ((start - 1) \div 400)) % 7
      BY WalkAssumption, ZenonT(30)
    <2> QED
      BY <1>1, <1>3, <2>1
  <1>6. c.wday = (get_day_num(start, 0, 1) + 6) % 7 /\ c.wday \in 0 .. 6
    <2> HIDE DEF g, c
    <2>1. (365 * start) + 1 + g + 6 = (start + g) + (7 * ((52 * start) + 1))
      BY <1>1, <1>3
    <2>2. (start + g + (7 * ((52 * start) + 1))) % 7 = (start + g) % 7 /\ (start + g) % 7 \in 0 .. 6
      <3>1. start + g \in Nat /\ (52 * start) + 1 \in Nat
        BY <1>1, <1>3
      <3> QED
        BY <3>1, Mod7, Zenon
    <2>3. get_day_num(start, 0, 1) + 6 = (start + g) + (7 * ((52 * start) + 1))
      BY <1>4, <2>1, ZenonT(30)
    <2> QED
      BY <1>2, <1>5, <2>2, <2>3, ZenonT(30)
  <1>7. 1 <= MonthLength(start, 0)
    BY <1>1, MonthLengths
  <1>8. 0 \in 0 .. 11 /\ 1 \in 1 .. 31 /\ 0 \in Nat
    OBVIOUS
  <1>9. /\ get_day_num(start, 0, 1) = get_day_num(start, 0, 1) + 0
        /\ start >= start /\ Walked(start, start) + 0 <= 0
    BY <1>1, <1>3, <1>4 DEF Walked
  <1>10. DayAt(start, 0, 1, 0)
    BY <1>1, <1>7, <1>8, <1>9, Zenon DEF DayAt
  <1>11. DayInv(c, 0)
    <2> HIDE DEF c
    <2> QED
      BY <1>2, <1>6, <1>9, <1>10, Zenon DEF DayInv
  <1> QED
    BY <1>11, Zenon

\* A day of a year is one of its 365 or 366 days.
LEMMA DayInYear ==
    ASSUME NEW y, NEW m, NEW d, NEW yd, DayAt(y, m, d, yd)
    PROVE  yd \in 0 .. (YearLength(y) - 1)
  <1> USE DEF DayAt
  <1>1. leap_days(y) \in Nat /\ leap_days(y - 1) \in Nat
    BY LeapDaysNat
  <1>2. leap_days(y) = leap_days(y - 1) + (IF LeapYear(y) THEN 1 ELSE 0)
    BY LeapStep, Zenon
  <1>3. MonthLength(y, m) =
             IF m = 1 THEN (IF LeapYear(y) THEN 29 ELSE 28) ELSE IF m \in {3, 5, 8, 10} THEN 30 ELSE 31
    BY MonthLengths
  <1> QED
    BY <1>1, <1>2, <1>3 DEF get_day_num, month_offset, YearLength

\* The numbers of January 1 and of any day.
LEMMA TwoDays ==
    ASSUME NEW y, NEW m, NEW d, NEW yd, DayAt(y, m, d, yd)
    PROVE  get_day_num(y, m, d) \in Nat /\ get_day_num(y, 0, 1) \in Nat
  <1>1. 0 \in 0 .. 11 /\ 1 \in 1 .. 31
    OBVIOUS
  <1> QED
    BY <1>1, DayNumInt, ZenonT(30) DEF DayAt

\* The next day of a month.
LEMMA DayAfter ==
    ASSUME NEW y, NEW m, NEW d, NEW yd, DayAt(y, m, d, yd), d # MonthLength(y, m)
    PROVE  /\ DayAt(y, m, d + 1, yd + 1)
           /\ get_day_num(y, m, d + 1) = get_day_num(y, m, d) + 1
  <1>1. get_day_num(y, m, d) \in Nat /\ get_day_num(y, 0, 1) \in Nat
    BY TwoDays, Zenon
  <1>2. get_day_num(y, m, d + 1) = get_day_num(y, m, d) + 1
    BY NextDay, Zenon DEF DayAt
  <1>3. d + 1 \in 1 .. 31 /\ d + 1 <= MonthLength(y, m)
    BY MonthLengths DEF DayAt
  <1>4. get_day_num(y, m, d + 1) = get_day_num(y, 0, 1) + (yd + 1) /\ yd + 1 \in Nat
    BY <1>1, <1>2 DEF DayAt
  <1> QED
    BY <1>2, <1>3, <1>4, Zenon DEF DayAt

\* The first day of the next month.
LEMMA MonthAfter ==
    ASSUME NEW y, NEW m, NEW d, NEW yd, DayAt(y, m, d, yd), m # 11, d = MonthLength(y, m)
    PROVE  /\ DayAt(y, m + 1, 1, yd + 1)
           /\ get_day_num(y, m + 1, 1) = get_day_num(y, m, d) + 1
  <1>1. get_day_num(y, m, d) \in Nat /\ get_day_num(y, 0, 1) \in Nat
    BY TwoDays, Zenon
  <1>2. m \in 0 .. 10 /\ m + 1 \in 0 .. 11 /\ 1 \in 1 .. 31
    BY DEF DayAt
  <1>3. get_day_num(y, m + 1, 1) = get_day_num(y, m, d) + 1
    BY <1>2, NextMonth, Zenon DEF DayAt
  <1>4. 1 <= MonthLength(y, m + 1)
    BY <1>2, MonthLengths DEF DayAt
  <1>5. get_day_num(y, m + 1, 1) = get_day_num(y, 0, 1) + (yd + 1) /\ yd + 1 \in Nat
    BY <1>1, <1>3 DEF DayAt
  <1> QED
    BY <1>2, <1>3, <1>4, <1>5, Zenon DEF DayAt

\* January 1 of the next year.
LEMMA YearAfter ==
    ASSUME NEW y, NEW m, NEW d, NEW yd, DayAt(y, m, d, yd), m = 11, d = MonthLength(y, m)
    PROVE  /\ DayAt(y + 1, 0, 1, 0) /\ yd + 1 = YearLength(y)
           /\ get_day_num(y + 1, 0, 1) = get_day_num(y, m, d) + 1
  <1>1. get_day_num(y, m, d) \in Nat /\ get_day_num(y, 0, 1) \in Nat
    BY TwoDays, Zenon
  <1>2. d = 31
    BY MonthLengths DEF DayAt
  <1>3. /\ get_day_num(y + 1, 0, 1) = get_day_num(y, m, d) + 1
        /\ get_day_num(y + 1, 0, 1) = get_day_num(y, 0, 1) + YearLength(y)
    BY <1>2, NextYear, Zenon DEF DayAt
  <1>4. YearLength(y) \in Nat
    BY DEF YearLength
  <1>5. yd + 1 = YearLength(y) /\ get_day_num(y + 1, 0, 1) = get_day_num(y + 1, 0, 1) + 0
    BY <1>1, <1>3, <1>4 DEF DayAt
  <1>6. y + 1 \in Nat \ {0} /\ 0 \in 0 .. 11 /\ 1 \in 1 .. 31 /\ 0 \in Nat
    BY DEF DayAt
  <1>7. 1 <= MonthLength(y + 1, 0)
    BY <1>6, MonthLengths
  <1> QED
    BY <1>3, <1>5, <1>6, <1>7, Zenon DEF DayAt

(* The next day by counting has the next day number, also over the end of a month *)
(* or of a year.                                                                  *)
LEMMA TomorrowNum ==
    ASSUME NEW c, DayAt(c.year, c.mon, c.mday, c.yday), NEW t, t = Tomorrow(c)
    PROVE  /\ DayAt(t.year, t.mon, t.mday, t.yday)
           /\ get_day_num(t.year, t.mon, t.mday) = get_day_num(c.year, c.mon, c.mday) + 1
           /\ t.wday = (c.wday + 1) % 7
           /\ \/ t.year = c.year /\ t.yday = c.yday + 1
              \/ t.year = c.year + 1 /\ t.yday = 0 /\ c.yday + 1 = YearLength(c.year)
  <1>1. t.wday = (c.wday + 1) % 7
    BY Zenon DEF Tomorrow
  <1>2. CASE c.mday # MonthLength(c.year, c.mon)
    <2>1. t.year = c.year /\ t.mon = c.mon /\ t.mday = c.mday + 1 /\ t.yday = c.yday + 1
      BY <1>2, Zenon DEF Tomorrow
    <2>2. /\ DayAt(c.year, c.mon, c.mday + 1, c.yday + 1)
          /\ get_day_num(c.year, c.mon, c.mday + 1) = get_day_num(c.year, c.mon, c.mday) + 1
      BY <1>2, DayAfter, ZenonT(30)
    <2> QED
      BY <1>1, <2>1, <2>2, Zenon
  <1>3. CASE c.mday = MonthLength(c.year, c.mon) /\ c.mon # 11
    <2>1. t.year = c.year /\ t.mon = c.mon + 1 /\ t.mday = 1 /\ t.yday = c.yday + 1
      BY <1>3, Zenon DEF Tomorrow
    <2>2. /\ DayAt(c.year, c.mon + 1, 1, c.yday + 1)
          /\ get_day_num(c.year, c.mon + 1, 1) = get_day_num(c.year, c.mon, c.mday) + 1
      BY <1>3, MonthAfter, Zenon
    <2> QED
      BY <1>1, <2>1, <2>2, Zenon
  <1>4. CASE c.mday = MonthLength(c.year, c.mon) /\ c.mon = 11
    <2>1. t.year = c.year + 1 /\ t.mon = 0 /\ t.mday = 1 /\ t.yday = 0
      BY <1>4, Zenon DEF Tomorrow
    <2>2. /\ DayAt(c.year + 1, 0, 1, 0) /\ c.yday + 1 = YearLength(c.year)
          /\ get_day_num(c.year + 1, 0, 1) = get_day_num(c.year, c.mon, c.mday) + 1
      BY <1>4, YearAfter, ZenonT(30)
    <2> QED
      BY <1>1, <2>1, <2>2, Zenon
  <1> QED
    BY <1>2, <1>3, <1>4, Zenon

\* A year takes at least 365 days of a walk.
LEMMA YearSum ==
    ASSUME NEW s \in Nat, NEW y \in Nat, NEW yd \in Nat, NEW n \in Nat,
           y >= s, Walked(s, y) + yd <= n
    PROVE  /\ Walked(s, y) + (yd + 1) <= n + 1 /\ y + 1 >= s
           /\ yd + 1 = YearLength(y) => Walked(s, y + 1) + 0 <= n + 1
  BY DEF YearLength, Walked

\* A walk that has not left the years the code reads by its length.
LEMMA YearBound ==
    ASSUME NEW s \in Nat, NEW y \in Nat \ {0}, NEW yd \in Nat, NEW D \in Nat, NEW n \in 0 .. D,
           y >= s, Walked(s, y) + yd <= n, D < Walked(s, MAX_YEAR + 1)
    PROVE  y \in 1 .. MAX_YEAR
  BY MaxYearNat DEF Walked

\* A step of the walk.
LEMMA TomorrowInv ==
    ASSUME start \in DOMAIN Jan1, NEW n \in Nat, NEW c, DayInv(c, n)
    PROVE  DayInv(Tomorrow(c), n + 1)
  <1> PICK t : t = Tomorrow(c)
    BY Zenon
  <1> DEFINE num == get_day_num(c.year, c.mon, c.mday)
             next == get_day_num(t.year, t.mon, t.mday)
             first == get_day_num(start, 0, 1)
  <1>1. /\ DayAt(c.year, c.mon, c.mday, c.yday)
        /\ num = first + n /\ c.wday = (num + 6) % 7
        /\ c.year >= start /\ Walked(start, c.year) + c.yday <= n
    BY Zenon DEF DayInv
  <1>2. /\ DayAt(t.year, t.mon, t.mday, t.yday)
        /\ next = num + 1
        /\ t.wday = (c.wday + 1) % 7
        /\ \/ t.year = c.year /\ t.yday = c.yday + 1
           \/ t.year = c.year + 1 /\ t.yday = 0 /\ c.yday + 1 = YearLength(c.year)
    BY <1>1, TomorrowNum, Zenon
  <1>3. start \in Nat \ {0}
    BY StartYear, Zenon
  <1>4. first \in Nat
    <2>1. 0 \in 0 .. 11 /\ 1 \in 1 .. 31
      OBVIOUS
    <2> QED
      BY <1>3, <2>1, DayNumInt, Zenon
  <1>5. c.year \in Nat /\ c.yday \in Nat
    BY <1>1 DEF DayAt
  <1> HIDE DEF num, next, first
  <1>6. next = first + (n + 1) /\ t.wday = (next + 6) % 7
    <2>1. num = first + n /\ next = num + 1
      BY <1>1, <1>2, Zenon
    <2>2. num \in Nat /\ next = first + (n + 1)
      BY <1>4, <2>1
    <2>3. (((num + 6) % 7) + 1) % 7 = (num + 1 + 6) % 7
      BY <2>2, NextMod7, Zenon
    <2> QED
      BY <1>1, <1>2, <2>2, <2>3, Zenon
  <1>7. t.year >= start /\ Walked(start, t.year) + t.yday <= n + 1
    <2>1. /\ Walked(start, c.year) + (c.yday + 1) <= n + 1 /\ c.year + 1 >= start
          /\ c.yday + 1 = YearLength(c.year) => Walked(start, c.year + 1) + 0 <= n + 1
      BY <1>1, <1>3, <1>5, YearSum, Zenon
    <2> QED
      BY <1>1, <1>2, <2>1, Zenon
  <1> QED
    BY <1>2, <1>6, <1>7, Zenon DEF DayInv, next, first

(* The walk stays within the years that the code reads. *)
LEMMA DayInRange ==
    ASSUME start \in DOMAIN Jan1, NEW n \in 0 .. MaxDays, NEW c, DayInv(c, n)
    PROVE  c.year \in 1 .. MAX_YEAR /\ c.mon \in 0 .. 11 /\ c.mday \in 1 .. MonthLength(c.year, c.mon)
  <1>1. /\ DayAt(c.year, c.mon, c.mday, c.yday)
        /\ c.year >= start /\ Walked(start, c.year) + c.yday <= n
    BY Zenon DEF DayInv
  <1>2. /\ c.year \in Nat \ {0} /\ c.yday \in Nat /\ c.mon \in 0 .. 11 /\ c.mday \in Nat \ {0}
        /\ c.mday <= MonthLength(c.year, c.mon)
    BY <1>1 DEF DayAt
  <1>3. /\ start \in Nat \ {0} /\ start <= MAX_YEAR /\ MaxDays \in Nat
        /\ MaxDays < Walked(start, MAX_YEAR + 1)
    BY StartYear, Zenon
  <1>4. c.year \in 1 .. MAX_YEAR
    BY <1>1, <1>2, <1>3, YearBound, Zenon
  <1>5. c.mday \in 1 .. MonthLength(c.year, c.mon)
    <2>1. MonthLength(c.year, c.mon) \in Nat /\ c.mday <= MonthLength(c.year, c.mon)
      BY <1>2, MonthLengths
    <2> QED
      BY <1>2, <2>1
  <1> QED
    BY <1>2, <1>4, <1>5, Zenon

\* The first day.
LEMMA CalendarInit == FormatInit => CalendarInv
  <1>1. 0 + 0 = 0 /\ (MaxDays \in Nat => 0 \in 0 .. MaxDays)
    OBVIOUS
  <1> QED
    BY <1>1, FirstDayInv, StartYear, Zenon DEF FormatInit, CalendarInv

\* Every step keeps the invariant; a literal of the client ends the walk.
LEMMA CalendarStep == CalendarInv /\ [FormatNext]_formatVars => CalendarInv'
  <1> SUFFICES ASSUME CalendarInv, [FormatNext]_formatVars
               PROVE  CalendarInv'
    BY Zenon
  <1>1. start' = start
    BY Zenon DEF FormatNext, FormatNextDay, FormatFirstDay, FormatLiteral, formatVars
  <1>2. ASSUME NEW c, NEW n
        PROVE  DayInv(c, n)' <=> DayInv(c, n)
    BY <1>1, Zenon DEF DayInv
  <1>3. start \in DOMAIN Jan1 /\ days \in 0 .. MaxDays /\ MaxDays \in Nat
    BY StartYear, Zenon DEF CalendarInv
  <1>4. CASE FormatNextDay
    <2>1. days \in Nat /\ days + 1 \in 0 .. MaxDays
      BY <1>3, <1>4 DEF FormatNextDay
    <2>2. DayInv(Tomorrow(cal), days + 1)
      BY <1>3, <1>4, <2>1, TomorrowInv, Zenon DEF FormatNextDay, CalendarInv
    <2>3. DayInv(cal', days')
      BY <1>4, <2>2, Zenon DEF FormatNextDay
    <2> QED
      BY <1>1, <1>3, <1>4, <2>1, <2>3, Zenon DEF FormatNextDay, CalendarInv, DayInv
  <1>5. CASE FormatFirstDay
    <2>1. 0 \in 0 .. MaxDays
      BY <1>3
    <2>2. DayInv(cal', days')
      BY <1>3, <1>5, FirstDayInv, Zenon DEF FormatFirstDay
    <2> QED
      BY <1>1, <1>3, <1>5, <2>1, <2>2, Zenon DEF FormatFirstDay, CalendarInv, DayInv
  <1>6. ASSUME NEW in \in FormatInputs, FormatLiteral(in[1], in[2])
        PROVE  CalendarInv'
    BY <1>1, <1>3, <1>6, Zenon DEF FormatLiteral, CalendarInv
  <1>7. CASE UNCHANGED formatVars
    BY <1>1, <1>7, Zenon DEF formatVars, CalendarInv, DayInv
  <1> QED
    BY <1>4, <1>5, <1>6, <1>7, Zenon DEF FormatNext

\* The invariant implies what is claimed of each day.
LEMMA CalendarFollows ==
    ASSUME CalendarInv
    PROVE  CalendarFollowed
  <1> SUFFICES ASSUME cal # NULL
               PROVE  CalendarFollowed
    BY Zenon DEF CalendarFollowed
  <1> DEFINE J == get_day_num(cal.year, 0, 1)
             yd == cal.yday
             num == get_day_num(cal.year, cal.mon, cal.mday)
             P == YearLength(cal.year - 1)
             L == YearLength(cal.year)
             sun == WeekByCounting("Sunday")
             mon == WeekByCounting("Monday")
             s0 == get_weekday_from_day_num(J, "Sunday")
             m0 == get_weekday_from_day_num(J, "Monday")
  <1>1. /\ start \in DOMAIN Jan1 /\ days \in 0 .. MaxDays /\ DayInv(cal, days)
        /\ call = Call(DayLiteral(cal), WeekFormat)
    BY Zenon DEF CalendarInv
  <1>2. DayAt(cal.year, cal.mon, cal.mday, yd) /\ cal.year \in Nat \ {0} /\ yd \in Nat
    BY <1>1, Zenon DEF DayInv, DayAt
  <1>3. num = get_day_num(start, 0, 1) + days /\ num = J + yd /\ cal.wday = (num + 6) % 7
    BY <1>1, Zenon DEF DayInv, DayAt
  <1>4. call.tm.year = cal.year /\ call.tm.mon = cal.mon /\ call.tm.mday = cal.mday
    BY <1>1, DayInRange, DayIsRead, Zenon
  <1>5. J \in Nat /\ yd \in Nat
    BY <1>2, TwoDays, Zenon
  <1>6. P \in Lengths /\ L \in Lengths /\ yd \in 0 .. (L - 1)
    <2>1. P \in Lengths /\ L \in Lengths
      BY DEF YearLength, Lengths
    <2>2. yd \in 0 .. (L - 1)
      BY <1>2, DayInYear, Zenon
    <2> QED
      BY <2>1, <2>2, Zenon
  <1>7. /\ get_weekday_from_day_num(num, "Sunday") = cal.wday
        /\ get_weekday_from_day_num(num, "Monday") = (cal.wday + 6) % 7
        /\ s0 \in 0 .. 6 /\ m0 \in 0 .. 6
        /\ yd - ((s0 + yd) % 7) = yd + (-cal.wday)
        /\ yd + 3 - ((m0 + yd) % 7) = yd + (3 - ((cal.wday + 6) % 7))
    <2> HIDE DEF J, yd, num
    <2>1. cal.wday = (J + yd + 6) % 7
      BY <1>3, Zenon
    <2>2. /\ s0 \in 0 .. 6 /\ m0 \in 0 .. 6
          /\ get_weekday_from_day_num(J + yd, "Sunday") = (J + yd + 6) % 7
          /\ get_weekday_from_day_num(J + yd, "Monday") = (((J + yd + 6) % 7) + 6) % 7
          /\ (s0 + yd) % 7 = (J + yd + 6) % 7
          /\ (m0 + yd) % 7 = (((J + yd + 6) % 7) + 6) % 7
      BY <1>5, Weekdays, Zenon
    <2> HIDE DEF s0, m0
    <2>3. yd - cal.wday = yd + (-cal.wday) /\ yd + 3 - ((cal.wday + 6) % 7) = yd + (3 - ((cal.wday + 6) % 7))
      BY <1>5, <2>1, Zenon
    <2> QED
      BY <1>3, <2>1, <2>2, <2>3, Zenon
  <1>8. /\ sun = CountWeek(yd - ((s0 + yd) % 7), P, L, cal.year)
        /\ mon = CountWeek(yd + 3 - ((m0 + yd) % 7), P, L, cal.year)
    <2>1. sun = CountWeek(yd + (-cal.wday), P, L, cal.year)
      BY Zenon DEF WeekByCounting, Deciding, CountWeek
    <2>2. mon = CountWeek(yd + (3 - ((cal.wday + 6) % 7)), P, L, cal.year)
      BY "Monday" # "Sunday", Zenon DEF WeekByCounting, Deciding, CountWeek
    <2> HIDE DEF sun, mon, yd, s0, m0, P, L
    <2> QED
      BY <1>7, <2>1, <2>2, Zenon
  <1>9. ASSUME NEW sw \in {0, 1}, NEW iso \in BOOLEAN
        PROVE  /\ get_week(call.tm, "Sunday", sw, iso) = CodeWeek(s0, yd, P, L, cal.year, sw, iso)
               /\ get_week(call.tm, "Monday", sw, iso) = CodeWeek(m0, yd, P, L, cal.year, sw, iso)
    <2>1. DayAt(call.tm.year, call.tm.mon, call.tm.mday, yd)
      BY <1>2, <1>4, Zenon
    <2> HIDE DEF yd
    <2>2. get_week(call.tm, "Sunday", sw, iso) =
            CodeWeek(get_weekday_from_day_num(get_day_num(call.tm.year, 0, 1), "Sunday"), yd,
                     YearLength(call.tm.year - 1), YearLength(call.tm.year), call.tm.year, sw, iso)
      BY <2>1, WeekOfDay, Zenon
    <2>3. get_week(call.tm, "Monday", sw, iso) =
            CodeWeek(get_weekday_from_day_num(get_day_num(call.tm.year, 0, 1), "Monday"), yd,
                     YearLength(call.tm.year - 1), YearLength(call.tm.year), call.tm.year, sw, iso)
      BY <2>1, WeekOfDay, Zenon
    <2> QED
      BY <1>4, <2>2, <2>3, Zenon
  <1> HIDE DEF J, yd, P, L, s0, m0, sun, mon, num
  <1>10. cal.year \in Nat
    BY <1>2, Zenon
  <1>11. /\ week_of("V", call.tm) = get_week(call.tm, "Sunday", 1, FALSE)
         /\ week_of("v", call.tm) = get_week(call.tm, "Monday", 1, TRUE)
         /\ week_of("U", call.tm) = get_week(call.tm, "Sunday", 0, FALSE)
         /\ week_of("u", call.tm) = get_week(call.tm, "Monday", 0, TRUE)
    BY Zenon DEF week_of
  <1>12. 0 \in {0, 1} /\ 1 \in {0, 1} /\ TRUE \in BOOLEAN /\ FALSE \in BOOLEAN
    BY Zenon
  <1>13. week_of("V", call.tm) = sun
    BY <1>6, <1>7, <1>8, <1>9, <1>10, <1>11, <1>12, SundayWeek, Zenon
  <1>14. week_of("v", call.tm) = mon
    BY <1>6, <1>7, <1>8, <1>9, <1>10, <1>11, <1>12, MondayWeek, Zenon
  <1>15. week_of("U", call.tm) = [year |-> cal.year, week |-> IF sun.year < cal.year THEN 0 ELSE sun.week]
    <2>1. s0 \in 0 .. 6 /\ sun = CountWeek(yd - ((s0 + yd) % 7), P, L, cal.year)
      BY <1>7, <1>8, Zenon
    <2>2. CodeWeek(s0, yd, P, L, cal.year, 0, FALSE) =
            InYear(CountWeek(yd - ((s0 + yd) % 7), P, L, cal.year), cal.year)
      BY <1>6, <1>10, <2>1, SundayWeekOfYear, Zenon
    <2> QED
      BY <1>9, <1>11, <1>12, <2>1, <2>2, Zenon DEF InYear
  <1>16. week_of("u", call.tm) =
           [year |-> cal.year, week |-> IF mon.year < cal.year THEN 0
                                        ELSE IF mon.year > cal.year THEN 53 ELSE mon.week]
    <2>1. m0 \in 0 .. 6 /\ mon = CountWeek(yd + 3 - ((m0 + yd) % 7), P, L, cal.year)
      BY <1>7, <1>8, Zenon
    <2>2. CodeWeek(m0, yd, P, L, cal.year, 0, TRUE) =
            InYear53(CountWeek(yd + 3 - ((m0 + yd) % 7), P, L, cal.year), cal.year)
      BY <1>6, <1>10, <2>1, MondayWeekOfYear, Zenon
    <2> QED
      BY <1>9, <1>11, <1>12, <2>1, <2>2, Zenon DEF InYear53
  <1> QED
    BY <1>3, <1>7, <1>13, <1>14, <1>15, <1>16, Zenon DEF CalendarFollowed, num, sun, mon

(* DATE_FORMAT follows the calendar on every day of every year the code reads: *)
(* the formulas that get_day_num(), get_weekday_from_day_num() and get_week()  *)
(* take from MySQL agree with the calendar kept by counting.                   *)
THEOREM DateFormatFollowsTheCalendar == FormatSpec => []CalendarFollowed
  <1>1. FormatSpec => []CalendarInv
    BY CalendarInit, CalendarStep, PTL DEF FormatSpec
  <1> QED
    BY <1>1, CalendarFollows, PTL

---------------------------------------------------------------------------
(* A literal has something after each of its numbers. *)
LiteralOk(l) == l.num \in Seq(Nat) /\ l.delim \in Seq(Delim) /\ Len(l.num) = Len(l.delim)

\* A number is read unless letters came before it.
LEMMA WasRead ==
    ASSUME NEW l, LiteralOk(l), NEW i \in 1 .. 6
    PROVE  was_read(l, i) <=>
             i <= Len(l.num) /\ \A j \in 3 .. (i - 1) : l.delim[j] \in {"dash", "other", "end"}
  <1>1. ASSUME i <= Len(l.num), NEW j \in 3 .. (i - 1)
        PROVE  l.delim[j] \in Delim
    BY <1>1, SMT DEF LiteralOk
  <1>2. \A d \in Delim : d \notin Alpha <=> d \in {"dash", "other", "end"}
    BY SMT DEF Delim, Alpha
  <1> QED
    BY <1>1, <1>2, Zenon DEF was_read

\* What date_ok() asks of the numbers of a literal with a whole date.
LEMMA DateOk ==
    ASSUME NEW l, LiteralOk(l), Len(l.num) >= 3, l.delim[1] = "dash", l.delim[2] = "dash"
    PROVE  /\ was_read(l, 1) /\ was_read(l, 2) /\ was_read(l, 3)
           /\ l.num[1] \in Nat /\ l.num[2] \in Nat /\ l.num[3] \in Nat
           /\ date_ok(l) <=>
                /\ l.num[1] <= 9999 /\ l.num[2] <= 12 /\ l.num[3] <= 31
                /\ was_read(l, 4) => l.num[4] < 24
                /\ was_read(l, 5) => l.num[5] < 60
                /\ was_read(l, 6) => l.num[6] < 60
  <1>1. was_read(l, 1) /\ was_read(l, 2) /\ was_read(l, 3)
    <2>1. 3 .. (1 - 1) = {} /\ 3 .. (2 - 1) = {} /\ 3 .. (3 - 1) = {}
      BY SMT
    <2>2. 1 <= Len(l.num) /\ 2 <= Len(l.num) /\ 3 <= Len(l.num)
      BY SMT DEF LiteralOk
    <2> QED
      BY <2>1, <2>2, Zenon DEF was_read
  <1>2. \A i \in 1 .. 6 : was_read(l, i) => l.num[i] \in Nat
    BY SMTT(90) DEF LiteralOk, was_read
  <1>3. 1 .. 6 = {1, 2, 3, 4, 5, 6} /\ 1 .. 2 = {1, 2}
    BY SMT
  <1>4. /\ l.num[1] \in Nat /\ l.num[2] \in Nat /\ l.num[3] \in Nat
        /\ (was_read(l, 4) => l.num[4] \in Nat)
        /\ (was_read(l, 5) => l.num[5] \in Nat)
        /\ (was_read(l, 6) => l.num[6] \in Nat)
    BY <1>1, <1>2, <1>3, Zenon
  <1>5. date_ok(l) <=>
          /\ l.num[1] <= Limit[1] /\ l.num[2] <= Limit[2] /\ l.num[3] <= Limit[3]
          /\ was_read(l, 4) => l.num[4] <= Limit[4]
          /\ was_read(l, 5) => l.num[5] <= Limit[5]
          /\ was_read(l, 6) => l.num[6] <= Limit[6]
    BY <1>1, <1>3, Zenon DEF date_ok
  <1>6. Limit[1] = 9999 /\ Limit[2] = 12 /\ Limit[3] = 31
    BY SMT DEF Limit, MAX_YEAR
  <1>7. \A x \in Nat : x <= Limit[4] <=> x < 24
    BY SMT DEF Limit, MAX_YEAR
  <1>8. \A x \in Nat : (x <= Limit[5] <=> x < 60) /\ (x <= Limit[6] <=> x < 60)
    BY SMT DEF Limit, MAX_YEAR
  <1>9. /\ was_read(l, 4) => (l.num[4] <= Limit[4] <=> l.num[4] < 24)
        /\ was_read(l, 5) => (l.num[5] <= Limit[5] <=> l.num[5] < 60)
        /\ was_read(l, 6) => (l.num[6] <= Limit[6] <=> l.num[6] < 60)
    BY <1>4, <1>7, <1>8, Zenon
  <1>10. (l.num[1] <= Limit[1] /\ l.num[2] <= Limit[2] /\ l.num[3] <= Limit[3])
          <=> (l.num[1] <= 9999 /\ l.num[2] <= 12 /\ l.num[3] <= 31)
    BY <1>6, SMT
  <1> QED
    BY <1>1, <1>4, <1>5, <1>9, <1>10, SMT

\* A broken-down time is not NULL.
LEMMA TimeNotNull ==
    ASSUME NEW l
    PROVE  get_date_from_string(l) # NULL /\ strptime(get_date_from_string(l)) # NULL
  <1> DEFINE tm == get_date_from_string(l)
  <1>1. "year" \in DOMAIN tm /\ DOMAIN strptime(tm) = DOMAIN tm
    <2>1. "year" \in DOMAIN tm
      BY SMT DEF get_date_from_string
    <2>2. DOMAIN strptime(tm) = DOMAIN tm
      BY SMT DEF strptime
    <2> QED
      BY <2>1, <2>2
  <1>2. "year" \notin DOMAIN NULL
    BY SMT DEF NULL
  <1> HIDE DEF tm
  <1> QED
    BY <1>1, <1>2, Zenon DEF tm

\* ydboctoDateFormatC() formats a whole date exactly when the calendar has it.
LEMMA RealDate ==
    ASSUME NEW l, LiteralOk(l), NEW fmt, Len(l.num) >= 3, l.num[1] > 0,
           l.delim[1] = "dash", l.delim[2] = "dash", letters(fmt) \cap {"b", "M"} = {}
    PROVE  date_to_format(l, fmt) # NULL <=>
             /\ l.num[1] <= 9999 /\ l.num[2] <= 12
             /\ l.num[3] <= (IF l.num[2] = 0 THEN 31 ELSE MonthLength(l.num[1], l.num[2] - 1))
             /\ was_read(l, 4) => l.num[4] < 24
             /\ was_read(l, 5) => l.num[5] < 60
             /\ was_read(l, 6) => l.num[6] < 60
  <1> DEFINE tm == get_date_from_string(l)
             y == l.num[1]
             m == l.num[2]
             d == l.num[3]
             clock == /\ was_read(l, 4) => l.num[4] < 24
                      /\ was_read(l, 5) => l.num[5] < 60
                      /\ was_read(l, 6) => l.num[6] < 60
  <1>0. date_ok(l) <=> y <= 9999 /\ m <= 12 /\ d <= 31 /\ clock
    BY DateOk, SMT
  <1>1. was_read(l, 1) /\ was_read(l, 2) /\ was_read(l, 3) /\ y \in Nat /\ m \in Nat /\ d \in Nat
    BY DateOk, SMT
  <1>2. tm.year = y /\ tm.mon = m - 1 /\ tm.mday = d
    <2> DEFINE f == [i \in 1 .. 6 |-> IF was_read(l, i) THEN l.num[i] ELSE Unread[i]]
    <2>1. 1 \in 1 .. 6 /\ 2 \in 1 .. 6 /\ 3 \in 1 .. 6
      BY SMT
    <2>2. f[1] = y /\ f[2] = m /\ f[3] = d
      BY <1>1, <2>1, Zenon
    <2>3. tm.year = f[1] /\ tm.mon = f[2] - 1 /\ tm.mday = f[3]
      BY Zenon DEF get_date_from_string
    <2> HIDE DEF f, tm
    <2> QED
      BY <2>2, <2>3, Zenon
  <1>3. y # 0 /\ y > 0
    BY <1>1, SMT
  <1>4. date_to_format(l, fmt) # NULL <=> date_ok(l) /\ ~(tm.mday > month_days(tm))
    <2>1. tm # NULL /\ strptime(tm) # NULL
      BY TimeNotNull, Zenon
    <2> HIDE DEF tm, y
    <2>2. tm.year # 0
      BY <1>2, <1>3, Zenon
    <2>3. date_to_format(l, fmt) =
            IF ~date_ok(l) \/ tm.mday > month_days(tm) THEN NULL
            ELSE IF known_date(tm) THEN strptime(tm) ELSE tm
      BY <2>2, Zenon DEF date_to_format, tm
    <2> QED
      BY <2>1, <2>3, Zenon
  <1>5. ASSUME m <= 12
        PROVE  /\ month_days(tm) \in Nat /\ month_days(tm) <= 31
               /\ month_days(tm) = IF m = 0 THEN 31 ELSE MonthLength(y, m - 1)
    <2> HIDE DEF tm, y, m, d
    <2>1. CASE m = 0
      BY <1>2, <2>1, SMT DEF month_days
    <2>2. CASE m # 0
      <3>1. m - 1 \in 0 .. 11
        BY <1>1, <1>5, <2>2, SMT
      <3>2. is_leap(y) <=> LeapYear(y)
        BY <1>1, LeapSame
      <3>3. MonthLength(y, m - 1) =
              IF m - 1 = 1 THEN (IF LeapYear(y) THEN 29 ELSE 28) ELSE IF m - 1 \in {3, 5, 8, 10} THEN 30 ELSE 31
        BY <1>1, <3>1, MonthLengths, SMTT(30)
      <3>4. month_days(tm) =
              IF m - 1 \in {3, 5, 8, 10} THEN 30 ELSE IF m - 1 = 1 THEN (IF LeapYear(y) THEN 29 ELSE 28) ELSE 31
        BY <1>2, <3>2, Zenon DEF month_days
      <3> QED
        BY <2>2, <3>1, <3>3, <3>4, SMT
    <2> QED
      BY <2>1, <2>2
  <1> HIDE DEF tm, y, m, d, clock
  <1>6. date_ok(l) /\ ~(tm.mday > month_days(tm)) <=>
          y <= 9999 /\ m <= 12 /\ d <= (IF m = 0 THEN 31 ELSE MonthLength(y, m - 1)) /\ clock
    BY <1>0, <1>1, <1>2, <1>5, SMT
  <1> QED
    BY <1>4, <1>6, SMTT(30) DEF y, m, d, clock

(* The last call is that of a literal, also when it ended a walk. *)
LiteralInv ==
    /\ CalendarInv
    /\ cal = NULL => /\ LiteralOk(call.lit) /\ Len(call.fmt) \in Nat
                     /\ call.tm = date_to_format(call.lit, call.fmt)

\* A day of the calendar, written as a literal, is one.
LEMMA DayLiteralOk ==
    ASSUME NEW c, c.year \in Nat, c.mon \in Nat, c.mday \in Nat
    PROVE  LiteralOk(DayLiteral(c))
  <1>1. DayLiteral(c).num = <<c.year, c.mon + 1, c.mday>> /\ DayLiteral(c).delim = <<"dash", "dash", "end">>
    BY Zenon DEF DayLiteral
  <1>2. c.mon + 1 \in Nat
    BY SMT
  <1>3. <<c.year, c.mon + 1, c.mday>> \in Seq(Nat) /\ Len(<<c.year, c.mon + 1, c.mday>>) = 3
    BY <1>2, SMT
  <1>4. <<"dash", "dash", "end">> \in Seq(Delim) /\ Len(<<"dash", "dash", "end">>) = 3
    BY SMT DEF Delim
  <1> QED
    BY <1>1, <1>3, <1>4, Zenon DEF LiteralOk

\* The invariant holds in the beginning and every step keeps it.
LEMMA LiteralInit == FormatInit => LiteralInv
  <1>1. ASSUME NEW y PROVE FirstDay(y) # NULL
    BY SMTT(30) DEF FirstDay, NULL
  <1> QED
    BY <1>1, CalendarInit, Zenon DEF LiteralInv, FormatInit

LEMMA LiteralStep == LiteralInv /\ [FormatNext]_formatVars => LiteralInv'
  <1> SUFFICES ASSUME LiteralInv, [FormatNext]_formatVars
               PROVE  LiteralInv'
    BY Zenon
  <1>1. CalendarInv'
    BY CalendarStep, Zenon DEF LiteralInv
  <1>2. CASE FormatNextDay
    <2>1. ASSUME NEW c PROVE Tomorrow(c) # NULL
      BY SMT DEF Tomorrow, NULL
    <2> QED
      BY <1>1, <1>2, <2>1, Zenon DEF FormatNextDay, LiteralInv
  <1>3. CASE FormatFirstDay
    <2>1. ASSUME NEW y PROVE FirstDay(y) # NULL
      BY SMT DEF FirstDay, NULL
    <2> QED
      BY <1>1, <1>3, <2>1, Zenon DEF FormatFirstDay, LiteralInv
  <1>4. ASSUME NEW in \in FormatInputs, FormatLiteral(in[1], in[2])
        PROVE  LiteralInv'
    <2>1. LiteralOk(in[1]) /\ Len(in[2]) \in Nat
      <3>1. LiteralOk(in[1]) /\ in[2] \in Seq(STRING)
        BY WalkAssumption, ZenonT(40) DEF LiteralOk
      <3> QED
        BY <3>1, SMT
    <2>2. call'.lit = in[1] /\ call'.fmt = in[2] /\ call'.tm = date_to_format(in[1], in[2])
      BY <1>4, Zenon DEF FormatLiteral, Call
    <2> QED
      BY <1>1, <2>1, <2>2, Zenon DEF LiteralInv
  <1>5. CASE UNCHANGED formatVars
    BY <1>1, <1>5, Zenon DEF formatVars, LiteralInv
  <1> QED
    BY <1>2, <1>3, <1>4, <1>5, Zenon DEF FormatNext

\* The last call, of a walk or not, is that of a literal in a format.
LEMMA LastCall ==
    ASSUME LiteralInv
    PROVE  /\ LiteralOk(call.lit) /\ Len(call.fmt) \in Nat
           /\ call.tm = date_to_format(call.lit, call.fmt)
  <1>1. CASE cal = NULL
    BY <1>1, Zenon DEF LiteralInv
  <1>2. CASE cal # NULL
    <2>1. call = Call(DayLiteral(cal), WeekFormat) /\ DayAt(cal.year, cal.mon, cal.mday, cal.yday)
      BY <1>2, Zenon DEF LiteralInv, CalendarInv, DayInv
    <2>2. cal.year \in Nat /\ cal.mon \in Nat /\ cal.mday \in Nat
      BY <2>1, SMT DEF DayAt
    <2>3. LiteralOk(DayLiteral(cal))
      BY <2>2, DayLiteralOk, Zenon
    <2>4. Len(WeekFormat) \in Nat
      <3>1. Len(WeekFormat) = 12
        BY Zenon DEF WeekFormat
      <3> QED
        BY <3>1, SMT
    <2> QED
      BY <2>1, <2>3, <2>4, Zenon DEF Call
  <1> QED
    BY <1>1, <1>2, Zenon

\* The invariant implies that real dates are taken, and no others.
LEMMA LiteralsFormatted == LiteralInv => FormatsRealDates
  <1> SUFFICES ASSUME LiteralInv
               PROVE  FormatsRealDates
    BY Zenon
  <1> DEFINE l == call.lit
             n == l.num
             d == l.delim
             Before(i) == i <= Len(n) /\ \A j \in 3 .. (i - 1) : d[j] \in {"dash", "other", "end"}
  <1>1. LiteralOk(l) /\ call.tm = date_to_format(l, call.fmt)
    BY LastCall, Zenon
  <1>2. Before(4) <=> was_read(l, 4)
    BY <1>1, WasRead, 4 \in 1 .. 6, Zenon
  <1>3. Before(5) <=> was_read(l, 5)
    BY <1>1, WasRead, 5 \in 1 .. 6, Zenon
  <1>4. Before(6) <=> was_read(l, 6)
    BY <1>1, WasRead, 6 \in 1 .. 6, Zenon
  <1>5. ASSUME Len(n) >= 3, n[1] > 0, d[1] = "dash", d[2] = "dash", letters(call.fmt) \cap {"b", "M"} = {}
        PROVE  call.tm # NULL <=>
                 /\ n[1] <= 9999 /\ n[2] <= 12
                 /\ n[3] <= (IF n[2] = 0 THEN 31 ELSE MonthLength(n[1], n[2] - 1))
                 /\ was_read(l, 4) => n[4] < 24
                 /\ was_read(l, 5) => n[5] < 60
                 /\ was_read(l, 6) => n[6] < 60
    <2> HIDE DEF l
    <2>1. date_to_format(l, call.fmt) # NULL <=>
             /\ n[1] <= 9999 /\ n[2] <= 12
             /\ n[3] <= (IF n[2] = 0 THEN 31 ELSE MonthLength(n[1], n[2] - 1))
             /\ was_read(l, 4) => n[4] < 24
             /\ was_read(l, 5) => n[5] < 60
             /\ was_read(l, 6) => n[6] < 60
      BY <1>1, <1>5, RealDate, SMT
    <2> QED
      BY <1>1, <2>1, SMT
  <1> HIDE DEF Before
  <1> QED
    BY <1>2, <1>3, <1>4, <1>5, SMT DEF FormatsRealDates, Before

---------------------------------------------------------------------------
\* Every set of natural numbers with a member has a least one.
LEMMA NatMin ==
    ASSUME NEW T, T \subseteq Nat, T # {}
    PROVE  \E m \in T : \A n \in T : m <= n
  <1> DEFINE R == OpToRel(<, Nat)
  <1>1. IsWellFoundedOn(R, Nat)
    BY NatLessThanWellFounded, Zenon
  <1>2. \A x, y \in Nat : x < y => <<x, y>> \in R
    BY SMT DEF OpToRel
  <1> HIDE DEF R
  <1>3. PICK m \in T : \A n \in T : ~(<<n, m>> \in R)
    BY <1>1, WFMin, Zenon
  <1>4. ASSUME NEW n \in T
        PROVE  m <= n
    <2>1. m \in Nat /\ n \in Nat /\ ~(<<n, m>> \in R)
      BY <1>3, Zenon
    <2>2. ~(n < m)
      BY <1>2, <2>1, Zenon
    <2> QED
      BY <2>1, <2>2, SMT
  <1> QED
    BY <1>4, Zenon

\* Induction, for a set in place of a predicate.
LEMMA SetInduction ==
    ASSUME NEW T, 0 \in T, \A n \in Nat : n \in T => n + 1 \in T
    PROVE  \A n \in Nat : n \in T
  <1> SUFFICES ASSUME \E n \in Nat : n \notin T
               PROVE  FALSE
    BY Zenon
  <1> DEFINE F == {n \in Nat : n \notin T}
  <1>1. F \subseteq Nat /\ F # {}
    BY Zenon
  <1> HIDE DEF F
  <1>2. PICK m \in F : \A n \in F : m <= n
    BY <1>1, NatMin, Zenon
  <1>3. m \in Nat /\ m \notin T
    BY Zenon DEF F
  <1>4. m # 0
    BY <1>3, Zenon
  <1>5. m - 1 \in Nat /\ (m - 1) + 1 = m /\ ~(m <= m - 1)
    BY <1>3, <1>4, SMT
  <1>6. m - 1 \in T
    BY <1>2, <1>5, Zenon DEF F
  <1> QED
    BY <1>3, <1>5, <1>6, Zenon

\* What a recursive function on 0 .. n computes, the step given as a function.
Computes(f, a, step, n) == f[0] = a /\ \A i \in 1 .. n : f[i] = step[<<i, f[i - 1]>>]
LEMMA Recursion ==
    ASSUME NEW S, NEW a \in S, NEW step \in [Nat \X S -> S], NEW n \in Nat
    PROVE  \E f \in [0 .. n -> S] : Computes(f, a, step, n)
  <1> DEFINE T == {k \in Nat : \E f \in [0 .. k -> S] : Computes(f, a, step, k)}
  <1>1. 0 \in T
    <2> DEFINE f == [i \in 0 .. 0 |-> a]
    <2>1. 0 \in 0 .. 0 /\ 1 .. 0 = {} /\ 0 \in Nat
      BY SMT
    <2>2. f \in [0 .. 0 -> S] /\ Computes(f, a, step, 0)
      BY <2>1, Zenon DEF Computes
    <2> QED
      BY <2>1, <2>2, Zenon
  <1>2. ASSUME NEW k \in Nat, k \in T
        PROVE  k + 1 \in T
    <2>1. PICK f \in [0 .. k -> S] : Computes(f, a, step, k)
      BY <1>2, Zenon
    <2> DEFINE v == step[<<k + 1, f[k]>>]
               g == [i \in 0 .. (k + 1) |-> IF i = k + 1 THEN v ELSE f[i]]
    <2>2. k + 1 \in Nat /\ k \in 0 .. k /\ 0 \in 0 .. (k + 1) /\ 0 # k + 1 /\ k + 1 - 1 = k
      BY SMT
    <2>3. v \in S
      BY <2>2, Zenon
    <2>4. \A i \in 0 .. (k + 1) : i # k + 1 => i \in 0 .. k
      BY SMT
    <2>5. \A i \in 1 .. (k + 1) : /\ i \in 0 .. (k + 1) /\ i - 1 \in 0 .. (k + 1) /\ i - 1 # k + 1
                                  /\ (i # k + 1 => i \in 1 .. k)
      BY SMT
    <2> HIDE DEF v
    <2>6. g \in [0 .. (k + 1) -> S]
      BY <2>3, <2>4, Zenon
    <2>7. Computes(g, a, step, k + 1)
      <3>1. g[0] = a
        BY <2>1, <2>2, Zenon DEF Computes
      <3>2. ASSUME NEW i \in 1 .. (k + 1)
            PROVE  g[i] = step[<<i, g[i - 1]>>]
        <4>1. g[i - 1] = f[i - 1]
          BY <2>5, Zenon
        <4>2. CASE i = k + 1
          <5>1. i - 1 = k
            BY <4>2, SMT
          <5>2. g[i] = v
            BY <2>5, <4>2, Zenon
          <5> QED
            BY <4>1, <4>2, <5>1, <5>2, Zenon DEF v
        <4>3. CASE i # k + 1
          BY <2>1, <2>5, <4>1, <4>3, Zenon DEF Computes
        <4> QED
          BY <4>2, <4>3, Zenon
      <3> QED
        BY <3>1, <3>2, Zenon DEF Computes
    <2> QED
      BY <2>2, <2>6, <2>7, Zenon
  <1> HIDE DEF T
  <1>3. n \in T
    BY <1>1, <1>2, SetInduction, Zenon
  <1> QED
    BY <1>3, Zenon DEF T

\* The sums of the first numbers of a sequence.
Sums(f, s) ==
    /\ s[0] = 0 /\ \A i \in 0 .. Len(f) : s[i] \in Nat
    /\ \A i \in 1 .. Len(f) : s[i] = s[i - 1] + f[i]
LEMMA TotalSums ==
    ASSUME NEW f \in Seq(Nat)
    PROVE  \E s : Sums(f, s) /\ Total(f) = s[Len(f)]
  <1> DEFINE n == Len(f)
             step == [x \in Nat \X Nat |-> x[2] + (IF x[1] \in 1 .. n THEN f[x[1]] ELSE 0)]
             sum[i \in 0 .. Len(f)] == IF i = 0 THEN 0 ELSE sum[i - 1] + f[i]
  <1>1. n \in Nat /\ \A i \in 1 .. n : f[i] \in Nat
    BY SMT
  <1>2. step \in [Nat \X Nat -> Nat]
    BY <1>1, SMT
  <1>3. PICK g \in [0 .. n -> Nat] : Computes(g, 0, step, n)
    BY <1>1, <1>2, Recursion, 0 \in Nat, Zenon
  <1>4. g[0] = 0 /\ \A i \in 1 .. n : g[i] = step[<<i, g[i - 1]>>]
    BY <1>3, Zenon DEF Computes
  <1>5. \A i \in 1 .. n : i \in Nat /\ i - 1 \in 0 .. n /\ g[i - 1] \in Nat
    <2> HIDE DEF step, n
    <2>1. \A i \in 1 .. n : i \in Nat /\ i - 1 \in 0 .. n
      BY <1>1, SMT
    <2> QED
      BY <1>3, <2>1, Zenon
  <1>6. \A i \in Nat, v \in Nat : i \in 1 .. n => step[<<i, v>>] = v + f[i]
    BY SMTT(30)
  <1> HIDE DEF step, n
  <1>7. \A i \in 1 .. n : g[i] = g[i - 1] + f[i]
    BY <1>4, <1>5, <1>6, Zenon
  <1>8. \A i \in 0 .. n : i # 0 => i \in 1 .. n
    BY <1>1, SMT
  <1>9. g = [i \in 0 .. n |-> IF i = 0 THEN 0 ELSE g[i - 1] + f[i]]
    BY <1>3, <1>4, <1>7, <1>8, Zenon
  <1>10. sum = [i \in 0 .. n |-> IF i = 0 THEN 0 ELSE sum[i - 1] + f[i]]
    BY <1>9, Zenon DEF n
  <1>11. Total(f) = sum[n]
    BY Zenon DEF Total, n
  <1> HIDE DEF sum
  <1>12. sum[0] = 0 /\ \A i \in 1 .. n : sum[i] = sum[i - 1] + f[i]
    <2>1. 0 \in 0 .. n /\ \A i \in 1 .. n : i \in 0 .. n /\ i # 0
      BY <1>1, SMT
    <2> QED
      BY <1>10, <2>1, Zenon
  <1>13. \A i \in 0 .. n : sum[i] \in Nat
    <2> DEFINE T == {k \in Nat : k \in 0 .. n => sum[k] \in Nat}
    <2>1. 0 \in T
      BY <1>12, SMT
    <2>2. ASSUME NEW k \in Nat, k \in T PROVE k + 1 \in T
      <3>1. CASE k + 1 \in 0 .. n
        <4> DEFINE j == k + 1
        <4>1. k \in 0 .. n /\ j \in 1 .. n /\ j \in Nat /\ j - 1 = k
          BY <1>1, <3>1, SMT
        <4> HIDE DEF j
        <4>2. sum[k] \in Nat /\ f[j] \in Nat /\ sum[j] = sum[k] + f[j]
          BY <1>1, <1>12, <2>2, <4>1, Zenon
        <4>3. sum[j] \in Nat
          BY <4>2, SMT
        <4> QED
          BY <4>1, <4>3, Zenon DEF j
      <3>2. CASE k + 1 \notin 0 .. n
        BY <3>2, SMT
      <3> QED
        BY <3>1, <3>2, Zenon
    <2> HIDE DEF T
    <2>3. \A k \in Nat : k \in T
      BY <2>1, <2>2, SetInduction, Zenon
    <2>4. \A i \in 0 .. n : i \in Nat
      BY <1>1, SMT
    <2> QED
      BY <2>3, <2>4, Zenon DEF T
  <1> QED
    BY <1>11, <1>12, <1>13, Zenon DEF Sums, n

\* A sum grows with its terms.
LEMMA TotalMono ==
    ASSUME NEW f \in Seq(Nat), NEW g \in Seq(Nat), Len(f) = Len(g), \A i \in 1 .. Len(f) : f[i] <= g[i]
    PROVE  Total(f) \in Nat /\ Total(g) \in Nat /\ Total(f) <= Total(g)
  <1> DEFINE n == Len(f)
  <1>1. PICK s : Sums(f, s) /\ Total(f) = s[n]
    BY TotalSums, Zenon
  <1>2. PICK t : Sums(g, t) /\ Total(g) = t[n]
    BY TotalSums, Zenon
  <1>3. n \in Nat /\ n \in 0 .. n
    BY SMT
  <1>4. /\ s[0] = 0 /\ t[0] = 0 /\ \A i \in 0 .. n : s[i] \in Nat /\ t[i] \in Nat
        /\ \A i \in 1 .. n : s[i] = s[i - 1] + f[i] /\ t[i] = t[i - 1] + g[i]
    BY <1>1, <1>2, Zenon DEF Sums
  <1>5. \A i \in 1 .. n : f[i] \in Nat /\ g[i] \in Nat /\ f[i] <= g[i]
    BY SMTT(30)
  <1> HIDE DEF n
  <1> DEFINE T == {k \in Nat : k \in 0 .. n => s[k] <= t[k]}
  <1>6. 0 \in T
    BY <1>4, SMT
  <1>7. ASSUME NEW k \in Nat, k \in T PROVE k + 1 \in T
    <2>1. CASE k + 1 \in 0 .. n
      <3> DEFINE j == k + 1
      <3>1. k \in 0 .. n /\ j \in 1 .. n /\ j \in Nat /\ j - 1 = k
        BY <1>3, <2>1, SMT
      <3> HIDE DEF j
      <3>2. /\ s[k] <= t[k] /\ s[k] \in Nat /\ t[k] \in Nat
            /\ f[j] \in Nat /\ g[j] \in Nat /\ f[j] <= g[j]
            /\ s[j] = s[k] + f[j] /\ t[j] = t[k] + g[j]
        BY <1>4, <1>5, <1>7, <3>1, Zenon
      <3>3. s[j] <= t[j]
        BY <3>2, SMTT(90)
      <3> QED
        BY <3>1, <3>3, Zenon DEF j
    <2>2. CASE k + 1 \notin 0 .. n
      BY <2>2, SMT
    <2> QED
      BY <2>1, <2>2, Zenon
  <1> HIDE DEF T
  <1>8. n \in T
    BY <1>3, <1>6, <1>7, SetInduction, Zenon
  <1>9. s[n] <= t[n]
    BY <1>3, <1>8, Zenon DEF T
  <1> QED
    BY <1>1, <1>2, <1>3, <1>4, <1>9, Zenon

\* A conversion starts at a percent sign that is not the last character.
LEMMA Conversions ==
    ASSUME NEW fmt, Len(fmt) \in Nat, NEW i \in conversions(fmt)
    PROVE  i \in 1 .. Len(fmt) /\ fmt[i] = "%" /\ i < Len(fmt)
  <1> DEFINE n == Len(fmt)
             Pct(j) == fmt[j] = "%" /\ j < Len(fmt)
             step == [x \in Nat \X BOOLEAN |-> Pct(x[1]) /\ ~x[2]]
             at[j \in 0 .. Len(fmt)] == IF j = 0 THEN FALSE ELSE fmt[j] = "%" /\ j < Len(fmt) /\ ~at[j - 1]
  <1>1. n \in Nat
    BY SMT
  <1>2. step \in [Nat \X BOOLEAN -> BOOLEAN]
    BY Zenon
  <1>3. PICK g \in [0 .. n -> BOOLEAN] : Computes(g, FALSE, step, n)
    <2> HIDE DEF step, n
    <2> QED
      BY <1>1, <1>2, Recursion, FALSE \in BOOLEAN, Zenon
  <1>4. g[0] = FALSE /\ \A j \in 1 .. n : g[j] = step[<<j, g[j - 1]>>]
    BY <1>3, Zenon DEF Computes
  <1>5. \A j \in 1 .. n : j \in Nat /\ j - 1 \in 0 .. n
    BY <1>1, SMT
  <1>6. \A j \in Nat, v \in BOOLEAN : step[<<j, v>>] = (Pct(j) /\ ~v)
    BY Zenon
  <1> HIDE DEF step, n
  <1>7. \A j \in 1 .. n : g[j] = (Pct(j) /\ ~g[j - 1])
    BY <1>3, <1>4, <1>5, <1>6, ZenonT(40)
  <1>8. \A j \in 0 .. n : j # 0 => j \in 1 .. n
    BY <1>1, SMT
  <1>9. g = [j \in 0 .. n |-> IF j = 0 THEN FALSE ELSE fmt[j] = "%" /\ j < n /\ ~g[j - 1]]
    BY <1>3, <1>4, <1>7, <1>8, Zenon DEF n
  <1>10. at = [j \in 0 .. n |-> IF j = 0 THEN FALSE ELSE fmt[j] = "%" /\ j < n /\ ~at[j - 1]]
    BY <1>9, Zenon DEF n
  <1>11. i \in 1 .. n /\ at[i]
    BY Zenon DEF conversions, n
  <1> HIDE DEF at
  <1>12. i \in 0 .. n /\ i # 0
    BY <1>1, <1>11, SMT
  <1> QED
    BY <1>10, <1>11, <1>12, Zenon DEF n

\* What of a broken-down time decides how long its text is.
Broken(tm) ==
    /\ tm.mday \in 0 .. 31 /\ tm.hour \in 0 .. 23 /\ tm.mon \in -1 .. 11
    /\ weekday(tm) \in 0 .. 6

\* No conversion takes more characters than max_length() makes room for.
LEMMA ResultFits ==
    ASSUME NEW tm, Broken(tm), NEW c, c = "M" => tm.mon # -1
    PROVE  result_length(c, tm) \in Nat /\ max_length(c) \in Nat /\ 1 <= max_length(c)
           /\ result_length(c, tm) <= max_length(c)
  <1> DEFINE Ok == result_length(c, tm) \in Nat /\ max_length(c) \in Nat /\ 1 <= max_length(c)
                   /\ result_length(c, tm) <= max_length(c)
             T == tm.mday \in 0 .. 31 /\ tm.hour \in 0 .. 23 /\ tm.mon \in -1 .. 11
             n == number_shown(c, tm)
  <1>0. T
    BY Zenon DEF Broken
  <1>1. ASSUME c \in {"e", "k", "l", "c"} PROVE Ok
    <2>1. n \in Int /\ n < 100
      <3>1. CASE c = "e"
        BY <1>0, <3>1, SMT DEF number_shown
      <3>2. CASE c = "k"
        BY <1>0, <3>2, SMT DEF number_shown
      <3>3. CASE c = "l"
        BY <1>0, <3>3, SMT DEF number_shown, twenty_four_to_twelve_hour
      <3>4. CASE c = "c"
        BY <1>0, <3>4, SMT DEF number_shown
      <3> QED
        BY <1>1, <3>1, <3>2, <3>3, <3>4, Zenon
    <2>2. result_length(c, tm) = digits(n) /\ max_length(c) = 2
      BY <1>1, SMT DEF result_length, max_length, other_max_length
    <2> HIDE DEF n
    <2> QED
      BY <2>1, <2>2, SMT DEF digits
  <1>2. ASSUME c = "D" PROVE Ok
    <2>1. result_length(c, tm) = digits(tm.mday) + 2 /\ max_length(c) = 4
      BY <1>2, SMT DEF result_length, max_length, other_max_length
    <2> QED
      BY <1>0, <2>1, SMT DEF digits
  <1>3. ASSUME c \in {"U", "u", "V", "v"} PROVE Ok
    <2>1. result_length(c, tm) = (IF n < 100 THEN 2 ELSE digits(n)) /\ max_length(c) = 10
      BY <1>3, SMT DEF result_length, max_length
    <2> HIDE DEF n
    <2> QED
      BY <2>1, SMT DEF digits
  <1>4. ASSUME c = "W" PROVE Ok
    <2> DEFINE w == weekday(tm)
    <2>1. result_length(c, tm) = weekday_names[w + 1] /\ max_length(c) = 9
      BY <1>4, SMT DEF result_length, max_length, other_max_length
    <2>2. w \in 0 .. 6
      BY Zenon DEF Broken
    <2> HIDE DEF w
    <2> QED
      BY <2>1, <2>2, SMT DEF weekday_names
  <1>5. ASSUME c = "M" PROVE Ok
    <2>1. result_length(c, tm) = month_names[tm.mon + 1] /\ max_length(c) = 9
      BY <1>5, SMT DEF result_length, max_length, other_max_length
    <2>2. tm.mon \in 0 .. 11
      BY <1>0, <1>5, SMT
    <2> QED
      BY <2>1, <2>2, SMT DEF month_names
  <1>6. ASSUME c \notin {"e", "k", "l", "c", "D", "U", "u", "V", "v", "W", "M"} PROVE Ok
    BY <1>6, SMT DEF result_length, max_length, other_max_length
  <1> QED
    BY <1>1, <1>2, <1>3, <1>4, <1>5, <1>6, Zenon

\* The buffers are as long as the text needs, the conversions in kept copied or not.
LEMMA LengthFits ==
    ASSUME NEW fmt, Len(fmt) \in Nat, NEW tm, Broken(tm), "M" \in letters(fmt) => tm.mon # -1, NEW kept
    PROVE  /\ length_with(fmt, tm, kept) \in Nat /\ get_max_date_length(fmt) \in Nat
           /\ length_with(fmt, tm, kept) + 1 <= get_max_date_length(fmt)
  <1> DEFINE n == Len(fmt)
             at == conversions(fmt)
             of(c) == IF c \in kept THEN 1 ELSE result_length(c, tm)
             Len1(i) == IF i \in at THEN of(fmt[i + 1])
                        ELSE IF i - 1 \in at /\ fmt[i] \notin kept THEN 0 ELSE 1
             Max1(i) == IF fmt[i] = "%" /\ i < Len(fmt) THEN max_length(fmt[i + 1]) ELSE 1
             f == [i \in 1 .. Len(fmt) |-> Len1(i)]
             g == [i \in 1 .. Len(fmt) |-> Max1(i)]
  <1>1. \A i \in at : fmt[i] = "%" /\ i < Len(fmt)
    BY Conversions, Zenon
  <1>2. \A c : (c = "M" => tm.mon # -1) =>
                 /\ result_length(c, tm) \in Nat /\ max_length(c) \in Nat /\ 1 <= max_length(c)
                 /\ result_length(c, tm) <= max_length(c)
    BY ResultFits, Zenon
  <1>3. \A c : max_length(c) \in Nat /\ 1 <= max_length(c)
    BY SMT DEF max_length, other_max_length
  <1>4. \A i \in at : fmt[i + 1] = "M" => tm.mon # -1
    BY Zenon DEF letters
  <1> HIDE DEF at
  <1>5. \A i \in at : of(fmt[i + 1]) \in Nat /\ of(fmt[i + 1]) <= max_length(fmt[i + 1])
    <2> SUFFICES ASSUME NEW i \in at
                 PROVE  of(fmt[i + 1]) \in Nat /\ of(fmt[i + 1]) <= max_length(fmt[i + 1])
      BY Zenon
    <2>1. CASE fmt[i + 1] \in kept
      BY <1>3, <2>1, 1 \in Nat, Zenon
    <2>2. CASE fmt[i + 1] \notin kept
      BY <1>2, <1>4, <2>2, Zenon
    <2> QED
      BY <2>1, <2>2, Zenon
  <1> HIDE DEF of
  <1>6. 0 \in Nat /\ 1 \in Nat /\ 0 <= 1 /\ 1 <= 1 /\ \A m \in Nat : 1 <= m => 0 <= m
    BY SMT
  <1>7. ASSUME NEW i \in 1 .. n
        PROVE  Len1(i) \in Nat /\ Max1(i) \in Nat /\ Len1(i) <= Max1(i)
    <2>1. CASE i \in at
      BY <1>1, <1>3, <1>5, <2>1, Zenon
    <2>2. CASE i \notin at
      BY <1>3, <1>6, <2>2, Zenon
    <2> QED
      BY <2>1, <2>2, Zenon
  <1>8. length_with(fmt, tm, kept) = Total(f) /\ get_max_date_length(fmt) = 1 + Total(g)
    BY Zenon DEF length_with, get_max_date_length, at, of
  <1> HIDE DEF Len1, Max1
  <1>9. f \in [1 .. n -> Nat] /\ g \in [1 .. n -> Nat] /\ \A i \in 1 .. n : f[i] <= g[i]
    BY <1>7, Zenon
  <1> HIDE DEF f, g
  <1>10. n \in Nat
    BY SMT
  <1> HIDE DEF n
  <1>11. f \in Seq(Nat) /\ g \in Seq(Nat) /\ Len(f) = n /\ Len(g) = n
    BY <1>9, <1>10, SMT
  <1>12. Total(f) \in Nat /\ Total(g) \in Nat /\ Total(f) <= Total(g)
    BY <1>9, <1>11, TotalMono, Zenon
  <1> QED
    BY <1>8, <1>12, SMT

\* A date that is formatted has fields in their ranges, and a month if its name is asked for.
LEMMA FieldsInRange ==
    ASSUME NEW l, LiteralOk(l), date_ok(l)
    PROVE  LET tm == get_date_from_string(l)
           IN  tm.year \in Nat /\ tm.mon \in -1 .. 11 /\ tm.mday \in 0 .. 31 /\ tm.hour \in 0 .. 23
  <1> DEFINE tm == get_date_from_string(l)
             f == [i \in 1 .. 6 |-> IF was_read(l, i) THEN l.num[i] ELSE Unread[i]]
  <1>1. \A i \in 1 .. 6 : was_read(l, i) => l.num[i] \in Nat
    BY SMT DEF LiteralOk, was_read
  <1>2. \A i \in 1 .. 6 : was_read(l, i) => l.num[i] <= Limit[i]
    BY Zenon DEF date_ok
  <1>3. Limit[2] = 12 /\ Limit[3] = 31 /\ Limit[4] = 23
    BY SMT DEF Limit, MAX_YEAR
  <1>4. Unread[1] \in Nat /\ Unread[2] = 1 /\ Unread[3] = 0 /\ Unread[4] = 0
    BY SMT DEF Unread
  <1>5. 1 \in 1 .. 6 /\ 2 \in 1 .. 6 /\ 3 \in 1 .. 6 /\ 4 \in 1 .. 6
    BY SMT
  <1>6. /\ f[1] = (IF was_read(l, 1) THEN l.num[1] ELSE Unread[1])
        /\ f[2] = (IF was_read(l, 2) THEN l.num[2] ELSE Unread[2])
        /\ f[3] = (IF was_read(l, 3) THEN l.num[3] ELSE Unread[3])
        /\ f[4] = (IF was_read(l, 4) THEN l.num[4] ELSE Unread[4])
    BY <1>5, Zenon
  <1>7. tm.year = f[1] /\ tm.mon = f[2] - 1 /\ tm.mday = f[3] /\ tm.hour = f[4]
    BY Zenon DEF get_date_from_string
  <1> HIDE DEF f, tm
  <1>8. f[1] \in Nat
    BY <1>1, <1>4, <1>5, <1>6, Zenon
  <1>9. f[2] \in 0 .. 12
    BY <1>1, <1>2, <1>3, <1>4, <1>5, <1>6, SMTT(30)
  <1>10. f[3] \in 0 .. 31
    BY <1>1, <1>2, <1>3, <1>4, <1>5, <1>6, SMTT(30)
  <1>11. f[4] \in 0 .. 23
    BY <1>1, <1>2, <1>3, <1>4, <1>5, <1>6, SMTT(30)
  <1>12. tm.mon \in -1 .. 11
    BY <1>7, <1>9, SMT
  <1> QED
    BY <1>7, <1>8, <1>10, <1>11, <1>12, Zenon DEF tm

\* The weekday of any date, a known one or not.
LEMMA WeekdayInRange ==
    ASSUME NEW y \in Nat, NEW m \in -1 .. 11, NEW d \in 0 .. 31
    PROVE  get_weekday_from_day_num(get_day_num(y, m, d), "Sunday") \in 0 .. 6
  <1> DEFINE num == get_day_num(y, m, d)
  <1>1. month_offset(m) \in Int
    BY SMT DEF month_offset
  <1>2. \A x \in Int : leap_days(x) \in Int
    BY SMT DEF leap_days, IntDiv
  <1>3. num \in Int
    BY <1>1, <1>2, SMT DEF get_day_num
  <1> HIDE DEF num
  <1>4. UMod7(num + 6) \in 0 .. 6
    BY <1>3, SMT DEF UMod7
  <1> QED
    BY <1>4, SMT DEF get_weekday_from_day_num, num

LEMMA BrokenDate ==
    ASSUME NEW l, LiteralOk(l), NEW fmt, date_to_format(l, fmt) # NULL
    PROVE  LET tm == date_to_format(l, fmt)
           IN  Broken(tm) /\ ("M" \in letters(fmt) => tm.mon # -1)
  <1> DEFINE t == get_date_from_string(l)
             tm == date_to_format(l, fmt)
             s == strptime(t)
             y == t.year - 1
             yd == month_starts[t.mon + 1]
                     + (IF t.year % 4 = 0 /\ (t.year % 100 # 0 \/ t.year % 400 = 0) /\ t.mon > 1 THEN 1 ELSE 0)
                     + t.mday - 1
  <1>1. date_ok(l) /\ ~(t.mon = -1 /\ letters(fmt) \cap {"b", "M"} # {})
        /\ tm = (IF known_date(t) THEN s ELSE t)
    BY Zenon DEF date_to_format
  <1>2. t.year \in Nat /\ t.mon \in -1 .. 11 /\ t.mday \in 0 .. 31 /\ t.hour \in 0 .. 23
    BY <1>1, FieldsInRange, Zenon
  <1>3. {"year", "mon", "mday", "hour", "wday", "yday"} \subseteq DOMAIN t
    BY SMT DEF get_date_from_string
  <1> HIDE DEF t
  <1>4. s.year = t.year /\ s.mon = t.mon /\ s.mday = t.mday /\ s.hour = t.hour
        /\ s.wday = ((365 * y) + (y \div 4) - (y \div 100) + (y \div 400) + yd + 1) % 7
    BY <1>3, SMT DEF strptime
  <1> HIDE DEF s, tm, y, yd
  <1>5. tm.mon = t.mon /\ tm.mday = t.mday /\ tm.hour = t.hour /\ tm.year = t.year
        /\ (known_date(tm) <=> known_date(t))
    <2>1. CASE known_date(t)
      BY <1>1, <1>4, <2>1, ZenonT(40) DEF known_date
    <2>2. CASE ~known_date(t)
      BY <1>1, <2>2, Zenon
    <2> QED
      BY <2>1, <2>2, Zenon
  <1>6. weekday(tm) \in 0 .. 6
    <2>1. CASE known_date(t)
      <3>1. t.mon \in 0 .. 11
        BY <1>2, <2>1, SMT DEF known_date
      <3>2. yd \in Int
        BY <1>2, <3>1, SMTT(30) DEF yd, month_starts
      <3>3. y \in Int
        BY <1>2, SMT DEF y
      <3>4. s.wday \in 0 .. 6
        BY <1>4, <3>2, <3>3, SMT
      <3> QED
        BY <1>1, <1>5, <2>1, <3>4, Zenon DEF weekday
    <2>2. CASE ~known_date(t)
      BY <1>2, <1>5, <2>2, WeekdayInRange, Zenon DEF weekday
    <2> QED
      BY <2>1, <2>2, Zenon
  <1>7. Broken(tm)
    BY <1>2, <1>5, <1>6, Zenon DEF Broken
  <1>8. "M" \in letters(fmt) => tm.mon # -1
    BY <1>1, <1>5, Zenon
  <1> QED
    BY <1>7, <1>8, Zenon DEF tm

\* The invariant implies that the buffers suffice.
LEMMA LiteralsFit == LiteralInv => BuffersSuffice
  <1> SUFFICES ASSUME LiteralInv, call.tm # NULL
               PROVE  BuffersSuffice
    BY Zenon DEF BuffersSuffice
  <1> DEFINE fmt == call.fmt
             tm == call.tm
  <1>1. /\ LiteralOk(call.lit) /\ Len(fmt) \in Nat
        /\ tm = date_to_format(call.lit, fmt)
    BY LastCall, Zenon
  <1> HIDE DEF fmt, tm
  <1>2. tm # NULL
    BY Zenon DEF tm
  <1>3. Broken(tm) /\ ("M" \in letters(fmt) => tm.mon # -1)
    BY <1>1, <1>2, BrokenDate, Zenon
  <1>4. /\ populated_length(fmt, tm) \in Nat /\ get_max_date_length(fmt) \in Nat
        /\ populated_length(fmt, tm) + 1 <= get_max_date_length(fmt)
    BY <1>1, <1>3, LengthFits, Zenon DEF populated_length
  <1>5. text_length(fmt, tm) + 1 <= get_max_date_length(fmt)
    BY <1>1, <1>3, LengthFits, Zenon DEF text_length
  <1>6. populated_length(fmt, tm) + 1 <= get_max_date_length(fmt) + 1
    BY <1>4, SMT
  <1> QED
    BY <1>5, <1>6, Zenon DEF BuffersSuffice, fmt, tm

(* DATE_FORMAT formats a literal with a whole date exactly when the calendar    *)
(* has that date and its time, up to the first letter, is a time of the day:    *)
(* the checks of get_date_from_string() and ydboctoDateFormatC() together leave *)
(* out no date, and let no other through.  Whatever the format, the text that   *)
(* populate_sql_time_format() writes and the one that strftime() makes of it    *)
(* fit into the buffers of get_max_date_length().                               *)
THEOREM DateFormatTakesDates == FormatSpec => []DatesFormatted
  <1>1. FormatSpec => []LiteralInv
    BY LiteralInit, LiteralStep, PTL DEF FormatSpec
  <1>2. LiteralInv => DatesFormatted
    BY LiteralsFormatted, LiteralsFit, Zenon DEF DatesFormatted
  <1> QED
    BY <1>1, <1>2, PTL
=============================================================================
