----------------------------- MODULE DateFormat -----------------------------
(***************************************************************************)
(* DATE_FORMAT(date, format): src/src/aux/ydboctodateformat.c.             *)
(*                                                                         *)
(* A call reads a date literal into a broken-down time (struct tm), looks  *)
(* the day up in the calendar, and expands the format.  A literal is the   *)
(* sequence of its numbers with what stands after each of them.  A format  *)
(* is the sequence of its conversion letters; of an expanded conversion    *)
(* only the number it shows and the number of characters it takes count.   *)
(*                                                                         *)
(* Calls keep nothing from one another.  The state holds the last call and *)
(* a calendar that moves on day by day from the start of some year, kept   *)
(* by counting and not by the formulas of the code, against which those    *)
(* formulas are checked.                                                   *)
(***************************************************************************)
EXTENDS Integers, Sequences

CONSTANTS
    Jan1,         \* the weekday of January 1 (0 is Sunday) of the years a walk may start in
    MaxDays,      \* how many days a walk takes
    FormatInputs  \* pairs of a date literal, [num : Seq(Nat), delim : Seq(Delim)], and a format

(* What stands after a number: nothing more; characters that start with a dash  *)
(* or with another one, among which there may be letters.                       *)
Delim == {"end", "dash", "other", "dashAlpha", "alpha"}

VARIABLES
    start,    \* the year in which the walk started
    cal,      \* the calendar: year, month (0 is January), day, day of the year, weekday
    days,     \* how many days the walk has taken
    call      \* the last call, its broken-down time and its result

formatVars == <<start, cal, days, call>>

NULL == [null |-> TRUE]
MAX_YEAR == 9999
(***************************************************************************)
(* Calendar formulas, after MySQL's.  Division in C truncates.  Unsigned   *)
(* arithmetic wraps at 2^32, which leaves the remainder 4 when divided by  *)
(* 7 into 613566756 parts.                                                 *)
(***************************************************************************)
IntDiv(a, b) == IF a < 0 THEN -((-a) \div b) ELSE a \div b
UDiv7(a) == IF a < 0 THEN 613566756 + ((a + 4) \div 7) ELSE a \div 7
UMod7(a) == IF a < 0 THEN (a + 4) % 7 ELSE a % 7

is_leap_no400(year) == year % 4 = 0 /\ year % 100 > 0
is_leap(year) == (year % 4 = 0 /\ year % 100 > 0) \/ year % 400 = 0
get_days_in_year(year) == IF is_leap(year) THEN 366 ELSE 365

month_offset(mon) == IF mon <= 1 THEN 0 ELSE ((((mon + 1) * 4) + 23) \div 10)
leap_days(y) == IntDiv(y, 4) - IntDiv((IntDiv(y, 100) + 1) * 3, 4)
get_day_num_same_year(year, mon, mday) ==
    (365 * year) + (31 * mon) + mday - month_offset(mon) + leap_days(year)
get_day_num(year, mon, mday) ==
    (365 * year) + (31 * mon) + mday - month_offset(mon)
      + leap_days(IF mon <= 1 THEN year - 1 ELSE year)

(* first is "Sunday" or "Monday", the first day of the week. *)
get_weekday_from_day_num(num, first) == UMod7(num + (IF first = "Sunday" THEN 6 ELSE 5))

(* January 1 of year 1 is a Monday, and every year moves the weekday on by one,  *)
(* every leap year by two.  Years have four digits at most.                      *)
ASSUME WalkAssumption ==
    /\ DOMAIN Jan1 \subseteq 1 .. MAX_YEAR /\ MaxDays \in Nat
    /\ \A y \in DOMAIN Jan1 :
          /\ Jan1[y] = (y + ((y - 1) \div 4) - ((y - 1) \div 100) + ((y - 1) \div 400)) % 7
          /\ MaxDays < 365 * ((MAX_YEAR + 1) - y)
    /\ \A in \in FormatInputs :
          /\ in[1].num \in Seq(Nat) /\ in[1].delim \in Seq(Delim) /\ Len(in[1].num) = Len(in[1].delim)
          /\ in[2] \in Seq(STRING)

(***************************************************************************)
(* The week of the year and the year it belongs to.  Week 1 is the first   *)
(* with four days in the year (iso) or the first that starts in it.  With  *)
(* start 0 the days before it are in week 0, with start 1 in the last week *)
(* of the year before.                                                     *)
(***************************************************************************)
after_week1_sunday(w, iso) == IF iso THEN w > 4 ELSE w # 0
after_week1(w, iso) == IF iso THEN w >= 4 ELSE w # 0
days_since_week1(num, jan1, w, iso) == num - jan1 - (IF after_week1(w, iso) THEN 7 - w ELSE -w)
week_after(since, w, year, start_week, iso) ==
    IF /\ start_week = 1 /\ (since < 0 \/ since >= 52 * 7)
       /\ ~after_week1((w + get_days_in_year(year)) % 7, iso)
    THEN [week |-> 1, year |-> year + 1]
    ELSE [week |-> UDiv7(since) + 1, year |-> year]
week_from(num, jan1, w, year, start_week, iso) ==
    week_after(days_since_week1(num, jan1, w, iso), w, year, start_week, iso)
get_week_from_jan1(tm, jan1, w, start_week, iso) ==
    IF tm.mon = 0 /\ tm.mday <= 7 - w
    THEN IF start_week = 0 /\ after_week1(w, iso) THEN [week |-> 0, year |-> tm.year]
         ELSE week_from(get_day_num(tm.year, tm.mon, tm.mday), jan1 - get_days_in_year(tm.year - 1),
                        (w + (53 * 7) - get_days_in_year(tm.year - 1)) % 7, tm.year - 1, 1, iso)
    ELSE week_from(get_day_num(tm.year, tm.mon, tm.mday), jan1, w, tm.year, start_week, iso)
get_week(tm, first, start_week, iso) ==
    get_week_from_jan1(tm, get_day_num(tm.year, 0, 1),
                       get_weekday_from_day_num(get_day_num(tm.year, 0, 1), first), start_week, iso)

(* The four conversions and the mode of MySQL's WEEK() each stands for. *)
week_of(c, tm) ==
    CASE c = "U" -> get_week(tm, "Sunday", 0, FALSE)
      [] c = "u" -> get_week(tm, "Monday", 0, TRUE)
      [] c \in {"V", "X"} -> get_week(tm, "Sunday", 1, FALSE)
      [] c \in {"v", "x"} -> get_week(tm, "Monday", 1, TRUE)

(***************************************************************************)
(* get_date_from_string(): letters end the literal once the day is read,   *)
(* and what is not read keeps the value that ydboctoDateFormatC() gave it. *)
(***************************************************************************)
Alpha == {"dashAlpha", "alpha"}
Limit == <<MAX_YEAR, 12, 31, 23, 59, 59>>
Unread == <<1900, 1, 0, 0, 0, 0>>

was_read_all(lit, i) == i <= Len(lit.num)
was_read(lit, i) == i <= Len(lit.num) /\ \A j \in 3 .. (i - 1) : lit.delim[j] \notin Alpha
date_ok(lit) ==
    /\ \A i \in 1 .. 6 : was_read(lit, i) => lit.num[i] <= Limit[i]
    /\ \A i \in 1 .. 2 : was_read(lit, i) => lit.delim[i] = "dash"
get_date_from_string(lit) ==
    LET f == [i \in 1 .. 6 |-> IF was_read(lit, i) THEN lit.num[i] ELSE Unread[i]]
    IN  [year |-> f[1], mon |-> f[2] - 1, mday |-> f[3],
         hour |-> f[4], min |-> f[5], sec |-> f[6], wday |-> 0, yday |-> 0]

month_days(tm) ==
    IF tm.mon \in {3, 5, 8, 10} THEN 30
    ELSE IF tm.mon = 1 THEN (IF is_leap(tm.year) THEN 29 ELSE 28)
    ELSE 31
known_date(tm) == tm.mday # 0 /\ tm.mon >= 0 /\ tm.year # 0

(* The C library: strptime() sets the day of the week and of the year. *)
month_starts == <<0, 31, 59, 90, 120, 151, 181, 212, 243, 273, 304, 334>>
strptime(tm) ==
    LET y == tm.year - 1
        leap == tm.year % 4 = 0 /\ (tm.year % 100 # 0 \/ tm.year % 400 = 0)
        yday == month_starts[tm.mon + 1] + (IF leap /\ tm.mon > 1 THEN 1 ELSE 0) + tm.mday - 1
    IN  [tm EXCEPT !.yday = yday,
                   !.wday = ((365 * y) + (y \div 4) - (y \div 100) + (y \div 400) + yday + 1) % 7]

(***************************************************************************)
(* populate_sql_time_format() and the strftime() that may follow it.  Of a *)
(* conversion: the number it shows, the characters it takes in the result  *)
(* and those that get_max_date_length() makes room for.                    *)
(***************************************************************************)
twenty_four_to_twelve_hour(h) == IF h = 0 THEN 12 ELSE IF h <= 12 THEN h ELSE h - 12
weekday_names == <<6, 6, 7, 9, 8, 6, 8>>
month_names == <<7, 8, 5, 5, 3, 4, 4, 6, 9, 7, 8, 8>>
digits(n) == IF n < 10 THEN 1 ELSE IF n < 100 THEN 2 ELSE 9

weekday(tm) == IF known_date(tm) THEN tm.wday
               ELSE get_weekday_from_day_num(get_day_num(tm.year, tm.mon, tm.mday), "Sunday")
day_of_year(tm) ==
    IF tm.mday = 0 \/ tm.mon <= 0
    THEN get_day_num(tm.year, tm.mon, tm.mday) - get_day_num(tm.year, 0, 1)
    ELSE tm.yday

number_shown(c, tm) ==
    CASE c \in {"e", "d", "D"} -> tm.mday
      [] c \in {"m", "c"} -> tm.mon + 1
      [] c = "Y" -> tm.year
      [] c \in {"H", "k"} -> tm.hour
      [] c \in {"h", "I", "l"} -> twenty_four_to_twelve_hour(tm.hour)
      [] c \in {"a", "w", "W"} -> weekday(tm)
      [] c = "j" -> day_of_year(tm) + 1
      [] c \in {"U", "u", "V", "v"} -> week_of(c, tm).week
      [] c \in {"X", "x"} -> week_of(c, tm).year
      [] OTHER -> 0

ToStrftime == {"a", "w", "W", "h", "i", "M", "s", "b", "d", "H", "I", "j", "p", "r",
               "S", "T", "m", "y", "%"}
result_length(c, tm) ==
    CASE c \in {"e", "k", "l", "c"} -> digits(number_shown(c, tm))
      [] c = "D" -> digits(tm.mday) + 2
      [] c \in {"U", "u", "V", "v"} ->
            IF number_shown(c, tm) < 100 THEN 2 ELSE digits(number_shown(c, tm))
      [] c = "W" -> weekday_names[weekday(tm) + 1]
      [] c = "M" -> month_names[tm.mon + 1]
      [] c \in {"a", "b", "j"} -> 3
      [] c \in {"Y", "X", "x"} -> 4
      [] c = "f" -> 6
      [] c = "T" -> 8
      [] c = "r" -> 11
      [] c \in {"h", "i", "s", "d", "H", "I", "S", "p", "m", "y"} -> 2
      [] OTHER -> 1
other_max_length(c) ==
    CASE c \in {"d", "H", "h", "I", "i", "k", "l", "p", "S", "s", "m", "w", "y", "e", "c"} -> 2
      [] c \in {"a", "b", "j"} -> 3
      [] c \in {"Y", "D", "X", "x"} -> 4
      [] c = "f" -> 6
      [] c = "T" -> 8
      [] c \in {"M", "W"} -> 9
      [] c = "r" -> 11
      [] OTHER -> 1
max_length_two_digits(c) == IF c \in {"U", "u", "V", "v"} THEN 2 ELSE other_max_length(c)
max_length(c) == IF c \in {"U", "u", "V", "v"} THEN 10 ELSE other_max_length(c)

(* The loop of get_max_date_length() does not step over the letter it has counted. *)
Total(f) ==
    LET sum[i \in 0 .. Len(f)] == IF i = 0 THEN 0 ELSE sum[i - 1] + f[i]
    IN  sum[Len(f)]
get_max_date_length(fmt) ==
    1 + Total([i \in 1 .. Len(fmt) |->
                  IF fmt[i] = "%" /\ i < Len(fmt) THEN max_length(fmt[i + 1]) ELSE 1])

(* Where a conversion starts: at a percent sign that is not the letter of another one. *)
conversions(fmt) ==
    LET at[i \in 0 .. Len(fmt)] ==
            IF i = 0 THEN FALSE ELSE fmt[i] = "%" /\ i < Len(fmt) /\ ~at[i - 1]
    IN  {i \in 1 .. Len(fmt) : at[i]}
letters(fmt) == {fmt[i + 1] : i \in conversions(fmt)}
(* The conversions in kept are copied, the others replaced by what they stand for. *)
length_with(fmt, tm, kept) ==
    LET at == conversions(fmt)
        of(c) == IF c \in kept THEN 1 ELSE result_length(c, tm)
    IN  Total([i \in 1 .. Len(fmt) |->
                  IF i \in at THEN of(fmt[i + 1])
                  ELSE IF i - 1 \in at /\ fmt[i] \notin kept THEN 0 ELSE 1])
(* populate_sql_time_format() writes the days -9 to -1 of a year itself, as 0-n. *)
left_to_strftime(tm) == IF number_shown("j", tm) \in -9 .. -1 THEN ToStrftime \ {"j"} ELSE ToStrftime
populated_length(fmt, tm) == length_with(fmt, tm, left_to_strftime(tm))
text_length(fmt, tm) == length_with(fmt, tm, {})

(* ydboctoDateFormatC(): the broken-down time it formats, or NULL.  The name of *)
(* month 0 makes populate_sql_time_format() give up.                            *)
date_to_format(lit, fmt) ==
    LET tm == get_date_from_string(lit)
    IN  IF \/ ~date_ok(lit)
           \/ tm.mday = 0 /\ tm.mon = -1 /\ tm.year = 0
           \/ tm.mday > month_days(tm)
           \/ tm.mon = -1 /\ letters(fmt) \cap {"b", "M"} # {}
        THEN NULL
        ELSE IF known_date(tm) THEN strptime(tm) ELSE tm
---------------------------------------------------------------------------
WeekFormat == <<"%", "U", "%", "u", "%", "V", "%", "v", "%", "j", "%", "a">>
Call(lit, fmt) == [lit |-> lit, fmt |-> fmt, tm |-> date_to_format(lit, fmt)]
DayLiteral(c) == [num |-> <<c.year, c.mon + 1, c.mday>>, delim |-> <<"dash", "dash", "end">>]

(* The calendar by counting: no formula of the code is used. *)
LeapYear(y) == y % 4 = 0 /\ (y % 100 = 0 => y % 400 = 0)
YearLength(y) == IF LeapYear(y) THEN 366 ELSE 365
MonthLength(y, m) == <<31, IF LeapYear(y) THEN 29 ELSE 28, 31, 30, 31, 30, 31, 31, 30, 31, 30, 31>>[m + 1]
FirstDay(y) == [year |-> y, mon |-> 0, mday |-> 1, yday |-> 0, wday |-> Jan1[y]]
Tomorrow(c) ==
    LET monthEnds == c.mday = MonthLength(c.year, c.mon)
        yearEnds == monthEnds /\ c.mon = 11
    IN  [year |-> IF yearEnds THEN c.year + 1 ELSE c.year,
         mon |-> IF yearEnds THEN 0 ELSE IF monthEnds THEN c.mon + 1 ELSE c.mon,
         mday |-> IF monthEnds THEN 1 ELSE c.mday + 1,
         yday |-> IF yearEnds THEN 0 ELSE c.yday + 1,
         wday |-> (c.wday + 1) % 7]

FormatInit ==
    /\ start \in DOMAIN Jan1
    /\ cal = FirstDay(start) /\ days = 0
    /\ call = Call(DayLiteral(FirstDay(start)), WeekFormat)

(* DATE_FORMAT of the next day of the calendar, or of the first one again. *)
FormatNextDay ==
    /\ days < MaxDays /\ cal # NULL
    /\ days' = days + 1 /\ cal' = Tomorrow(cal)
    /\ call' = Call(DayLiteral(Tomorrow(cal)), WeekFormat)
    /\ UNCHANGED start
FormatFirstDay ==
    /\ days = MaxDays \/ cal = NULL
    /\ days' = 0 /\ cal' = FirstDay(start)
    /\ call' = Call(DayLiteral(FirstDay(start)), WeekFormat)
    /\ UNCHANGED start

(* DATE_FORMAT of any literal in any format instead of a walk; as all walks are *)
(* alike to it, the one from the first year stands for them.                    *)
FormatLiteral(lit, fmt) ==
    /\ cal # NULL /\ days = 0 /\ \A y \in DOMAIN Jan1 : start <= y
    /\ cal' = NULL
    /\ call' = Call(lit, fmt)
    /\ UNCHANGED <<start, days>>

FormatNext ==
    \/ FormatNextDay
    \/ FormatFirstDay
    \/ \E in \in FormatInputs : FormatLiteral(in[1], in[2])
FormatSpec == FormatInit /\ [][FormatNext]_formatVars
---------------------------------------------------------------------------
(* The day, counted from today, in whose year today's week lies: the first day  *)
(* of a week that starts on Sunday, the Thursday of one that starts on Monday.  *)
Deciding(first) == IF first = "Sunday" THEN -cal.wday ELSE 3 - ((cal.wday + 6) % 7)
WeekByCounting(first) ==
    LET d == cal.yday + Deciding(first)
    IN  IF d < 0 THEN [year |-> cal.year - 1, week |-> ((d + YearLength(cal.year - 1)) \div 7) + 1]
        ELSE IF d >= YearLength(cal.year)
        THEN [year |-> cal.year + 1, week |-> ((d - YearLength(cal.year)) \div 7) + 1]
        ELSE [year |-> cal.year, week |-> (d \div 7) + 1]

(* The formulas of get_day_num(), get_weekday_from_day_num() and get_week()     *)
(* follow the calendar.  Day after day, over month ends, leap days and century  *)
(* years, the number of the day grows by one and the weekday moves on by one;   *)
(* %V with %X and %v with %x name the week by its deciding day, %U is %V or     *)
(* week 0 when that lies in the year before, and %u is %v, or week 0, or week   *)
(* 53 where the week belongs to the next year.                                  *)
CalendarFollowed ==
    cal # NULL =>
    LET num == get_day_num(cal.year, cal.mon, cal.mday)
        sun == WeekByCounting("Sunday")
        mon == WeekByCounting("Monday")
    IN  /\ num = get_day_num(start, 0, 1) + days
        /\ get_weekday_from_day_num(num, "Sunday") = cal.wday
        /\ get_weekday_from_day_num(num, "Monday") = (cal.wday + 6) % 7
        /\ week_of("V", call.tm) = sun /\ week_of("v", call.tm) = mon
        /\ week_of("U", call.tm) = [year |-> cal.year, week |-> IF sun.year < cal.year THEN 0 ELSE sun.week]
        /\ week_of("u", call.tm) =
             [year |-> cal.year, week |-> IF mon.year < cal.year THEN 0
                                          ELSE IF mon.year > cal.year THEN 53 ELSE mon.week]

(* A literal that names a whole date is formatted exactly when the calendar has *)
(* that date and the time before any letter is a time of the day; a date with a *)
(* zero month or day is formatted too.                                          *)
FormatsRealDates ==
    LET n == call.lit.num
        d == call.lit.delim
        Before(i) == i <= Len(n) /\ \A j \in 3 .. (i - 1) : d[j] \in {"dash", "other", "end"}
    IN  (Len(n) >= 3 /\ n[1] > 0 /\ d[1] = "dash" /\ d[2] = "dash"
           /\ letters(call.fmt) \cap {"b", "M"} = {}) =>
        ((call.tm # NULL) <=>
            /\ n[1] <= 9999 /\ n[2] <= 12
            /\ n[3] <= (IF n[2] = 0 THEN 31 ELSE MonthLength(n[1], n[2] - 1))
            /\ Before(4) => n[4] < 24
            /\ Before(5) => n[5] < 60
            /\ Before(6) => n[6] < 60)

(* The buffers made from get_max_date_length() hold what is written to them:    *)
(* the text of populate_sql_time_format() and the result of strftime(), each    *)
(* with its terminator, also for the week numbers of 9 digits that a zero month *)
(* gives.                                                                       *)
BuffersSuffice ==
    call.tm # NULL =>
        /\ populated_length(call.fmt, call.tm) + 1 <= get_max_date_length(call.fmt) + 1
        /\ text_length(call.fmt, call.tm) + 1 <= get_max_date_length(call.fmt)

(* DATE_FORMAT takes what is a date, and writes it within its buffers. *)
DatesFormatted == FormatsRealDates /\ BuffersSuffice
=============================================================================
