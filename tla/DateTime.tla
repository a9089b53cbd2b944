------------------------------ MODULE DateTime ------------------------------
(***************************************************************************)
(* Date and time values: src/src/aux/ydboctodateoperations.c and           *)
(* set_date_time_format_from_datestyle.c.                                  *)
(*                                                                         *)
(* A value is one integer in the internal format: the seconds since the    *)
(* epoch followed by the digits of the microseconds.  An expression takes  *)
(* a literal and casts it, adds to it and subtracts from it; at the end    *)
(* the value is printed as text and the text is validated.                 *)
(*                                                                         *)
(* The C library is external.  Its struct tm is a day number and a second  *)
(* of the day, and the time zone of the process has a fixed offset.  How   *)
(* many digits the microseconds have, the width of an integer, the range   *)
(* of dates and the day on which a time without a date falls are constants *)
(* so that TLC can compute with them.                                      *)
(***************************************************************************)
EXTENDS Integers, Sequences, Functions

CONSTANTS
    FracDigits,      \* digits of the microseconds
    WordRange,       \* how many integers a ydb_long_t has
    IntMax,          \* the largest number of days that may be added
    MinDay, MaxDay,  \* the first and the last day of the range of dates
    Day0,            \* the day of a struct tm that was filled with zeros
    Off,             \* seconds by which local time is ahead of UTC
    Texts,           \* what the literals show: [day, sod, micro, zone]
    Days,            \* the integers that are added to and subtracted from a date
    Times,           \* the times that are: [sod, micro, zone]
    Styles,          \* the values given to DATESTYLE, as sequences of tokens
    Inputs,          \* the literals that are validated: <<type, format, literal>>
    MaxOps           \* how many operations an expression has

DaySecs == 86400
Power10 == <<1, 10, 100, 1000, 10000, 100000, 1000000>>    \* of 0 to 6
Base == Power10[FracDigits + 1]
Word == WordRange \div 2
MaxOff == 57599    \* 15:59:59

(* The range of dates, with some days to spare, fits in a ydb_long_t and its days  *)
(* in an int, and no expression is long enough to carry a time of day out of it.   *)
(* The offset of the zone is not west of Greenwich by less than a minute: the sign *)
(* of such an offset is lost when it is read from text.                            *)
ASSUME RangeAssumption ==
    /\ FracDigits \in 1 .. 6 /\ MaxOps \in Nat /\ MaxOps >= 1 /\ WordRange \in Nat /\ IntMax \in Nat
    /\ MinDay \in Int /\ MaxDay \in Int /\ Day0 \in Int /\ Off \in Int
    /\ -MaxOff <= Off /\ Off <= MaxOff /\ (Off < 0 => Off <= -60)
    /\ MinDay + MaxOps + 4 <= Day0 /\ Day0 < 0 /\ Day0 + MaxOps + 4 <= MaxDay /\ 0 < MaxDay
    /\ MaxDay - MinDay + 4 <= IntMax
    /\ Base * (DaySecs * (MaxDay + 8)) <= Word /\ Base * (DaySecs * (8 - MinDay)) <= Word

(* What literals show is a date in the range and a time, 23:59:60 included. *)
ZoneText ==
    {[sign |-> 0, min |-> 0, sec |-> 0]} \cup [sign : {-1, 1}, min : 0 .. 959, sec : 0 .. 59]
ASSUME LiteralAssumption ==
    /\ Texts \subseteq [day : MinDay .. MaxDay, sod : 0 .. DaySecs, micro : 0 .. (Base - 1), zone : ZoneText]
    /\ Times \subseteq [sod : 0 .. (DaySecs - 1), micro : 0 .. (Base - 1), zone : ZoneText]
    /\ Days \subseteq Int

(* A date style is text; the parts of the other literals are numbers and digits. *)
ASSUME StyleAssumption == Styles \subseteq Seq(Seq(STRING))
ASSUME InputAssumption ==
    \A in \in Inputs :
        /\ in[2] = "horolog" => in[3] \in Seq([given : BOOLEAN, v : Int])
        /\ in[2] = "fileman" => in[3].time \in Seq(0 .. 9)
        /\ in[2] = "text" => in[3] \in Seq(STRING \X Nat \X Int)

Zoned == {"timetz", "timestamptz"}
Type == {"date", "time", "timestamp"} \cup Zoned

VARIABLES
    style,    \* config->datestyle: the order of year, month and day
    val,      \* the value of the expression so far, or Error
    shown,    \* ghost: what the value should show, in local time
    exact,    \* ghost: no operation was one that the code does not do exactly
    ops,      \* how many operations it took
    lit       \* the literal that was validated last, and the verdict

vars == <<style, val, shown, exact, ops, lit>>

Error == [type |-> "error", int |-> 0]
---------------------------------------------------------------------------
(* C division truncates; a ydb_long_t wraps.                               *)
CDiv(a, b) == IF a < 0 THEN -((-a) \div b) ELSE a \div b
Abs(a) == IF a < 0 THEN -a ELSE a
Wrap(a) == ((a + Word) % WordRange) - Word

(***************************************************************************)
(* REMOVE_MICRO_SECONDS and ADD_MICRO_SECONDS: the digits of the           *)
(* microseconds are put behind those of the seconds, whatever their sign.  *)
(***************************************************************************)
seconds_of(int) == CDiv(int, Base)
micro_of(int) == Abs(int - (seconds_of(int) * Base))
add_micro_seconds_signed(sec, micro) == Wrap((sec * Base) + micro)
add_micro_seconds(sec, micro) == Wrap((sec * Base) + (IF sec < 0 THEN -micro ELSE micro))

(* The C library. *)
gmtime(sec) == [day |-> sec \div DaySecs, sod |-> sec % DaySecs]
localtime(sec) == gmtime(sec + Off)
utc_mktime(tm) == (tm.day * DaySecs) + tm.sod
mktime(tm) == utc_mktime(tm) - Off

in_range_seconds(int) == int <= (MaxDay + 1) * DaySecs /\ int >= MinDay * DaySecs
in_range(int) ==
    int <= add_micro_seconds((MaxDay + 1) * DaySecs - 1, Base - 1)
      /\ int >= add_micro_seconds(MinDay * DaySecs, Base - 1)
checked(type, int) == IF in_range(int) THEN [type |-> type, int |-> int] ELSE Error

tm_of(v) == IF v.type \in Zoned THEN localtime(seconds_of(v.int)) ELSE gmtime(seconds_of(v.int))

(* ydboctoText2InternalFormatC(): a zone in the text counts only for a type     *)
(* with a time zone, and the local zone stands in for one that is missing.      *)
(* strptime() reads hours and minutes of the zone, the seconds are read after.  *)
NoZone == [sign |-> 0, min |-> 0, sec |-> 0]
zone_offset(zone) ==
    LET gmtoff == zone.sign * zone.min * 60
    IN  gmtoff + (IF gmtoff < 0 THEN -zone.sec ELSE zone.sec)
Text2Internal(type, text) ==
    LET tm == [day |-> IF type \in {"time", "timetz"} THEN Day0 ELSE text.day,
               sod |-> IF type = "date" THEN 0 ELSE text.sod]
        off == IF type \notin Zoned THEN 0
               ELSE IF text.zone = NoZone THEN Off ELSE zone_offset(text.zone)
    IN  add_micro_seconds(utc_mktime(tm) - off, IF type = "date" THEN 0 ELSE text.micro)

(* ydboctoDateTimeInternalFormat2TextC() *)
zone_of_offset == [sign |-> IF Off < 0 THEN -1 ELSE 1, min |-> Abs(Off) \div 60, sec |-> Abs(Off) % 60]
InternalFormat2Text(v) ==
    [day |-> tm_of(v).day, sod |-> tm_of(v).sod, micro |-> micro_of(v.int),
     zone |-> IF v.type \in Zoned THEN zone_of_offset ELSE NoZone]

(* ydboctoDateTimeCastC(): which casts there are and what each does. *)
Casts ==
    {<<t, t>> : t \in Type}
      \cup ({"timetz", "timestamp", "timestamptz"} \X {"time"})
      \cup ({"timestamp", "timestamptz"} \X {"date"})
      \cup ({"date", "timestamptz"} \X {"timestamp"})
      \cup ({"time"} \X {"timetz"})
      \cup ({"date", "timestamp"} \X {"timestamptz"})
DateTimeCast(v, out) ==
    LET tm == tm_of(v)
        midnight == [tm EXCEPT !.sod = 0]
        sec == CASE v.type = out -> seconds_of(v.int)
                 [] out = "time" /\ v.type = "timetz" -> utc_mktime(tm)
                 [] out = "time" /\ v.type \in {"timestamp", "timestamptz"} -> utc_mktime([tm EXCEPT !.day = Day0])
                 [] out = "date" /\ v.type = "timestamp" -> utc_mktime(midnight)
                 [] out = "date" /\ v.type = "timestamptz" -> mktime(midnight)
                 [] out = "timestamp" /\ v.type = "date" -> utc_mktime(midnight)
                 [] out = "timestamp" /\ v.type = "timestamptz" -> utc_mktime(tm)
                 [] out = "timetz" /\ v.type = "time" -> mktime(tm)
                 [] out = "timestamptz" /\ v.type = "date" -> mktime(midnight)
                 [] out = "timestamptz" /\ v.type = "timestamp" -> mktime(tm)
    IN  [type |-> out, int |-> add_micro_seconds(sec, IF out = "date" THEN 0 ELSE micro_of(v.int))]

(* ydboctoAddDateTimeC() and ydboctoSubDateC() with an integer. *)
AddDays(v, n) ==
    IF n > IntMax \/ n < -IntMax - 1 THEN Error
    ELSE LET tm == gmtime(seconds_of(v.int))
         IN  checked("date", add_micro_seconds(utc_mktime([tm EXCEPT !.day = @ + n]), micro_of(v.int)))

(* The microseconds of sec can be appended without an overflow. *)
fits_long(sec) == -Word <= sec * Base /\ sec * Base < Word

(* ydboctoSubDateC() with a date: the number of days. *)
SubDate_with_micro(a, b) == CDiv(CDiv(CDiv(a - b, 60), 60), 24)
SubDate(a, b) ==
    CDiv(CDiv(CDiv(seconds_of(a) - seconds_of(b), 60), 60), 24)

(* ydboctoAddDateTimeC() and ydboctoSubDateTimeC() with a time: the types that may be *)
(* added, those of the results, and the value of a time that is added or subtracted.  *)
(* A time with time zone is read in local time, and the sum taken back to UTC.        *)
Sums ==
    ({"date", "timestamp", "timestamptz", "timetz"} \X {"time"}) \cup ({"date", "time"} \X {"timetz"})
sum_type(a, b) ==
    CASE a = "date" -> IF b = "timetz" THEN "timestamptz" ELSE "timestamp"
      [] a = "time" -> b
      [] OTHER -> a
back_to_utc(op1, op2, sec) == IF op1.type \in Zoned \/ op2.type \in Zoned THEN sec - Off ELSE sec
TimeValue(type, t) ==
    [type |-> type,
     int |-> Text2Internal(type, [day |-> Day0, sod |-> t.sod, micro |-> t.micro, zone |-> t.zone])]
AddTime_utc(op1, op2) ==
    LET sec == utc_mktime(tm_of(op1)) + gmtime(seconds_of(op2.int)).sod
        micro == micro_of(op1.int) + micro_of(op2.int)
        carry == IF micro >= Base THEN 1 ELSE 0
    IN  checked(sum_type(op1.type, op2.type),
                add_micro_seconds(back_to_utc(op1, op2, sec + carry), micro - (carry * Base)))
AddTime(op1, op2) ==
    LET sec == utc_mktime(tm_of(op1)) + tm_of(op2).sod
        micro == micro_of(op1.int) + micro_of(op2.int)
        carry == IF micro >= Base THEN 1 ELSE 0
    IN  checked(sum_type(op1.type, op2.type),
                add_micro_seconds(back_to_utc(op1, op2, sec + carry), micro - (carry * Base)))
SubTime(op1, op2) ==
    LET sec == utc_mktime(tm_of(op1)) - tm_of(op2).sod
        micro == micro_of(op1.int) - micro_of(op2.int)
        borrow == IF micro < -Base THEN 1 ELSE 0
    IN  checked(sum_type(op1.type, op2.type),
                add_micro_seconds(back_to_utc(op1, op2, sec - borrow), micro + (borrow * Base)))

(* tmpl_print_date_time_addition: the operands that are added, in the order of the call. *)
sums_of(a, b) ==
    IF {a.type, b.type} = {"time", "timetz"} THEN {AddTime(a, b), AddTime(b, a)} ELSE {AddTime(a, b)}

(* ydboctoConvertToLocalTimezoneC(), for comparing with a type without time zone *)
ConvertToLocalTimezone_back(v) == add_micro_seconds(seconds_of(v.int) - Off, micro_of(v.int))
ConvertToLocalTimezone(v) == add_micro_seconds(seconds_of(v.int) + Off, micro_of(v.int))

(* ydboctoZutC(): the date or the timestamp of a Unix time *)
Zut(type, sec, micro) ==
    [type |-> type, int |-> IF type = "timestamp" THEN add_micro_seconds(sec, micro)
                            ELSE add_micro_seconds(utc_mktime([gmtime(sec) EXCEPT !.sod = 0]), 0)]
---------------------------------------------------------------------------
(***************************************************************************)
(* Text is a sequence of tokens <<kind, digits, value>>: a number, kind    *)
(* "n", or a separator.  is_date_time_literal_in_valid_format() matches    *)
(* them with the format that the date style gives.                         *)
(***************************************************************************)
Num(digits, value) == <<"n", digits, value>>
Sep(kind) == <<kind, 0, 0>>
is_valid_number(c, tok) ==
    /\ tok[1] = "n"
    /\ IF c = "Y" THEN tok[2] = 4 ELSE tok[2] <= 2
    /\ c = "m" => tok[3] \in 1 .. 12
    /\ c = "d" => tok[3] \in 1 .. 31
    /\ c = "H" => tok[3] <= 23
    /\ c = "M" => tok[3] <= 59
    /\ c = "S" => tok[3] <= 60
is_time_zone_no_seconds(toks) == Len(toks) \in {0, 2, 4}
is_time_zone(toks) ==
    \/ toks = <<>>
    \/ /\ Len(toks) \in {2, 4, 6} /\ toks[1][1] \in {"+", "-"}
       /\ \A i \in {2, 4, 6} : i <= Len(toks) =>
            toks[i][1] = "n" /\ toks[i][2] = 2 /\ toks[i][3] <= (IF i = 2 THEN 15 ELSE 59)
       /\ \A i \in {3, 5} : i <= Len(toks) => toks[i][1] = ":"

(* IS_MICROSECOND_VALID: what follows the fraction, which may lack digits before a zone. *)
fraction_ok_any(rest) ==
    (rest # <<>> /\ rest[1][1] = ".") => Len(rest) > 1 /\ rest[2][1] \in {"n", "+", "-"}
fraction_ok(rest) ==
    (rest # <<>> /\ rest[1][1] = ".") =>
        Len(rest) > 1 /\ (rest[2][1] = "n" => rest[2][2] <= 6) /\ rest[2][1] \in {"n", "+", "-"}
after_fraction(rest) ==
    IF rest = <<>> \/ rest[1][1] # "." THEN rest
    ELSE SubSeq(rest, IF rest[2][1] = "n" THEN 3 ELSE 2, Len(rest))
is_time(toks) ==
    /\ Len(toks) >= 5
    /\ is_valid_number("H", toks[1]) /\ toks[2][1] = ":"
    /\ is_valid_number("M", toks[3]) /\ toks[4][1] = ":"
    /\ is_valid_number("S", toks[5])
    /\ LET rest == SubSeq(toks, 6, Len(toks))
       IN  fraction_ok(rest) /\ is_time_zone(after_fraction(rest))
is_date_time_literal_in_valid_format(type, toks) ==
    IF type \in {"time", "timetz"} THEN is_time(toks)
    ELSE /\ Len(toks) >= 5
         /\ \A i \in 1 .. 3 : is_valid_number(style[i], toks[(2 * i) - 1])
         /\ toks[2][1] = "-" /\ toks[4][1] = "-"
         /\ LET rest == SubSeq(toks, 6, Len(toks))
            IN  \/ rest = <<>>
                \/ rest[1][1] = " " /\ is_time(Tail(rest))
                \/ rest[1][1] = " " /\ Len(rest) = 1 /\ type # "date"
                \/ type = "date" /\ is_time_zone(rest)

(* The text that is printed; civil() is the calendar of the C library, with     *)
(* eras of 400 years, years that start in March and EpochDay days before 1970.  *)
EpochDay == 719468
EraDays == 146097
YearOfEra(doe) == (doe - (doe \div 1460) + (doe \div 36524) - (doe \div (EraDays - 1))) \div 365
DaysBefore(yoe) == (365 * yoe) + (yoe \div 4) - (yoe \div 100)
MonthPart(doy) == ((5 * doy) + 2) \div 153
MonthOf(doy) == IF MonthPart(doy) < 10 THEN MonthPart(doy) + 3 ELSE MonthPart(doy) - 9
DayOf(doy) == doy - (((153 * MonthPart(doy)) + 2) \div 5) + 1
civil(day) ==
    LET era == (day + EpochDay) \div EraDays
        doe == (day + EpochDay) % EraDays
        yoe == YearOfEra(doe)
        doy == doe - DaysBefore(yoe)
    IN  [Y |-> yoe + (era * 400) + (IF MonthOf(doy) <= 2 THEN 1 ELSE 0), m |-> MonthOf(doy), d |-> DayOf(doy)]
date_tokens(day) ==
    LET N(c) == Num(IF c = "Y" THEN 4 ELSE 2, civil(day)[c])
    IN  <<N(style[1]), Sep("-"), N(style[2]), Sep("-"), N(style[3])>>
time_tokens(sod) ==
    <<Num(2, sod \div 3600), Sep(":"), Num(2, (sod \div 60) % 60), Sep(":"), Num(2, sod % 60)>>
micro_tokens(micro) ==
    LET zeros == CHOOSE z \in 0 .. (FracDigits - 1) : micro % Power10[z + 1] = 0 /\ micro % Power10[z + 2] # 0
    IN  IF micro = 0 THEN <<>> ELSE <<Sep("."), Num(FracDigits - zeros, micro \div Power10[zeros + 1])>>
zone_tokens(zone) ==
    LET hh == <<Sep(IF zone.sign < 0 THEN "-" ELSE "+"), Num(2, zone.min \div 60)>>
        mm == <<Sep(":"), Num(2, zone.min % 60)>>
        ss == <<Sep(":"), Num(2, zone.sec)>>
    IN  IF zone.sign = 0 THEN <<>>
        ELSE IF zone.min % 60 = 0 /\ zone.sec = 0 THEN hh
        ELSE IF zone.sec = 0 THEN hh \o mm ELSE hh \o mm \o ss
text_tokens(v) ==
    LET text == InternalFormat2Text(v)
        time == time_tokens(text.sod) \o micro_tokens(text.micro) \o zone_tokens(text.zone)
    IN  CASE v.type = "date" -> date_tokens(text.day)
          [] v.type \in {"time", "timetz"} -> time
          [] OTHER -> date_tokens(text.day) \o <<Sep(" ")>> \o time
---------------------------------------------------------------------------
(***************************************************************************)
(* The other input formats.  HOROLOG and ZHOROLOG literals are numbers     *)
(* between commas, each [given, v]; a missing one counts as zero where it  *)
(* is allowed.  A FILEMAN literal is year, month and day in seven digits   *)
(* and the digits of a time, if any.                                       *)
(***************************************************************************)
has_delims(f, n) == Len(f) = n + 1 /\ \E i \in DOMAIN f : f[i].given
date_in_horolog_range_from0(f) == f[1].given /\ f[1].v >= 0 /\ f[1].v <= 2980013
is_date_in_horolog_range(f) == f[1].given /\ f[1].v >= -365 /\ f[1].v <= 2980013
is_time_in_horolog_range(f) ==
    LET t == IF Len(f) = 1 THEN f[1] ELSE f[2]
    IN  /\ Len(f) > 1 => t.given
        /\ t.v \in 0 .. 86399
        /\ Len(f) > 2 => f[3].v \in 0 .. 999999
is_time_zone_in_zhorolog_range(f) == f[4].v >= -50400 /\ f[4].v <= 43200
horolog_ok(type, f) ==
    CASE type = "date" -> (has_delims(f, 0) \/ has_delims(f, 1)) /\ is_date_in_horolog_range(f)
      [] type \in {"time", "timetz"} -> has_delims(f, 0) /\ is_time_in_horolog_range(f)
      [] OTHER -> has_delims(f, 1) /\ is_date_in_horolog_range(f) /\ is_time_in_horolog_range(f)
zhorolog_ok(type, f) ==
    /\ has_delims(f, 3)
    /\ type \notin {"time", "timetz"} => is_date_in_horolog_range(f)
    /\ type # "date" => is_time_in_horolog_range(f)
    /\ type \in Zoned => is_time_zone_in_zhorolog_range(f)

is_date_in_fileman_range(l) ==
    /\ ~l.signed /\ l.digits = 7
    /\ l.m <= 12 /\ l.d <= 31 /\ l.y # 0 /\ (l.m = 0 => l.d = 0)
is_time_in_fileman_range(t) ==
    LET D(i) == IF i <= Len(t) THEN t[i] ELSE 0
        Two(i) == IF Len(t) > i THEN (10 * D(i)) + D(i + 1) ELSE D(i)
        h == IF Len(t) >= 2 THEN Two(1) ELSE 0
    IN  /\ Len(t) <= 6
        /\ Len(t) = 2 => h \notin {10, 20}
        /\ Len(t) = 1 => h < 3
        /\ Len(t) = 3 => Two(3) < 6
        /\ Len(t) = 5 => Two(5) < 6
        /\ h <= 24
        /\ IF h = 24 THEN Two(3) = 0 /\ Two(5) = 0 ELSE Two(3) <= 59 /\ Two(5) <= 59
fileman_ok(type, l) ==
    /\ type \notin {"time", "timetz"}
    /\ is_date_in_fileman_range(l)
    /\ type # "date" => is_time_in_fileman_range(l.time)

(* Unix time in microseconds: a true integer, not the internal format. *)
zut_ok(type, n) ==
    /\ type \in {"date", "timestamp"} /\ n >= MinDay * DaySecs * Base
    /\ n <= (IF type = "date" THEN MaxDay * DaySecs * Base ELSE ((MaxDay + 1) * DaySecs * Base) - 1)

validate_date_time_value(type, format, in) ==
    CASE format = "horolog" -> horolog_ok(type, in)
      [] format = "zhorolog" -> zhorolog_ok(type, in)
      [] format = "fileman" -> fileman_ok(type, in)
      [] format = "zut" -> zut_ok(type, in)
      [] format = "text" -> is_date_time_literal_in_valid_format(type, in)

(***************************************************************************)
(* A date style is a sequence of tokens: "iso", a run of the letters of    *)
(* year, month and day, a comma, blanks.                                   *)
(***************************************************************************)
is_order_any(run) == Len(run) = 3 /\ Range(run) \subseteq {"Y", "m", "d"}
is_order(run) == Len(run) = 3 /\ Range(run) = {"Y", "m", "d"}
style_ok(s) ==
    LET t == SelectSeq(s, LAMBDA x : x # <<"blank">>)
        Iso(i) == t[i] = <<"iso">>
        Comma == t[2] = <<",">>
    IN  \/ t = <<>>
        \/ Len(t) = 1 /\ (Iso(1) \/ is_order(t[1]))
        \/ Len(t) = 3 /\ Comma /\ Iso(1) /\ is_order(t[3])
        \/ Len(t) = 3 /\ Comma /\ is_order(t[1]) /\ Iso(3)
orders(s) == {run \in Range(s) : is_order(run)}
---------------------------------------------------------------------------
NoLit == [type |-> "date", format |-> "none", in |-> <<>>, ok |-> FALSE]
Init ==
    /\ style = <<"m", "d", "Y">>
    /\ val = [type |-> "timestamp", int |-> 0]
    /\ shown = [day |-> 0, sod |-> 0, micro |-> 0]
    /\ exact = TRUE /\ ops = 0 /\ lit = NoLit

(* SET DATESTYLE: an order of the fields replaces the formats, anything wrong nothing. *)
set_date_time_format_from_datestyle(s) ==
    /\ ops = 0 /\ lit.format = "none"
    /\ style' \in (IF style_ok(s) /\ orders(s) # {} THEN orders(s) ELSE {style})
    /\ UNCHANGED <<val, shown, exact, ops, lit>>

Fields(sec, micro) == [day |-> sec \div DaySecs, sod |-> sec % DaySecs, micro |-> micro]
sign_kept(zone) == ~(zone.sign < 0 /\ zone.min = 0 /\ zone.sec > 0)
TrueOffset(zone) == zone.sign * ((zone.min * 60) + zone.sec)

(* A literal starts an expression. *)
Literal(type, text) ==
    LET shift == IF type \in Zoned /\ text.zone # NoZone THEN Off - TrueOffset(text.zone) ELSE 0
    IN  /\ ops = 0 /\ ops' = 1 /\ lit' = NoLit
        /\ val' = [type |-> type, int |-> Text2Internal(type, text)]
        /\ shown' = IF type = "date" THEN Fields(text.day * DaySecs, 0)
                    ELSE Fields(utc_mktime(text) + shift, text.micro)
        /\ exact' = (type \in Zoned => sign_kept(text.zone))
        /\ UNCHANGED style
ZutLiteral(type, text) ==
    /\ ops = 0 /\ ops' = 1 /\ lit' = NoLit
    /\ val' = Zut(type, utc_mktime(text), text.micro)
    /\ shown' = IF type = "date" THEN [Fields(utc_mktime(text), 0) EXCEPT !.sod = 0]
                ELSE Fields(utc_mktime(text), text.micro)
    /\ exact' = TRUE
    /\ UNCHANGED style

InExpression == ops > 0 /\ ops < MaxOps /\ val # Error /\ ops' = ops + 1 /\ UNCHANGED <<style, lit>>

Cast(out) ==
    /\ InExpression /\ <<val.type, out>> \in Casts
    /\ val' = DateTimeCast(val, out)
    /\ shown' = IF out = "date" THEN [shown EXCEPT !.sod = 0, !.micro = 0] ELSE shown
    /\ exact' = (exact /\ ~(val.type = "timestamptz" /\ out = "date" /\ Off # 0))
PlusDays(n) ==
    /\ InExpression /\ val.type = "date"
    /\ val' = AddDays(val, n)
    /\ shown' = [shown EXCEPT !.day = @ + n]
    /\ exact' = (exact /\ (n \in -IntMax - 1 .. IntMax => fits_long(utc_mktime(shown'))))
PlusTime(type, t) ==
    LET zoned == type = "timetz" /\ t.zone # NoZone
        sod == t.sod + (IF zoned THEN Off - TrueOffset(t.zone) ELSE 0)
        micro == shown.micro + t.micro
    IN  /\ InExpression /\ <<val.type, type>> \in Sums
        /\ val' \in sums_of(val, TimeValue(type, t))
        /\ shown' = Fields(utc_mktime(shown) + sod + (micro \div Base), micro % Base)
        /\ exact' = (exact /\ (zoned => sign_kept(t.zone))
                           /\ (val.type = "date" => sod \in 0 .. (DaySecs - 1)))
MinusTime(t) ==
    /\ InExpression /\ val.type # "time"
    /\ val' = SubTime(val, TimeValue("time", t))
    /\ LET micro == shown.micro - t.micro
           sec == utc_mktime(shown) - t.sod
       IN  /\ shown' = Fields(sec + (micro \div Base), micro % Base)
           /\ exact' = (exact /\ ~(micro < 0 /\ back_to_utc(val, TimeValue("time", t), utc_mktime(tm_of(val)) - t.sod) <= 0))

(* The parser and the plans validate what they are given. *)
Validate(type, format, in) ==
    /\ ops = 0 /\ lit.format = "none"
    /\ lit' = [type |-> type, format |-> format, in |-> in,
               ok |-> validate_date_time_value(type, format, in)]
    /\ UNCHANGED <<style, val, shown, exact, ops>>
Finish ==
    /\ ops = MaxOps \/ val = Error \/ lit.format # "none"
    /\ val' = [type |-> "timestamp", int |-> 0] /\ shown' = [day |-> 0, sod |-> 0, micro |-> 0]
    /\ exact' = TRUE /\ ops' = 0 /\ lit' = NoLit /\ UNCHANGED style

Next ==
    \/ \E s \in Styles : set_date_time_format_from_datestyle(s)
    \/ \E type \in Type, text \in Texts : Literal(type, text)
    \/ \E type \in {"date", "timestamp"}, text \in Texts : ZutLiteral(type, text)
    \/ \E out \in Type : Cast(out)
    \/ \E n \in Days : PlusDays(n)
    \/ \E type \in {"time", "timetz"}, t \in Times : PlusTime(type, t)
    \/ \E t \in Times : MinusTime(t)
    \/ \E in \in Inputs : Validate(in[1], in[2], in[3])
    \/ Finish

Spec == Init /\ [][Next]_vars
---------------------------------------------------------------------------
(* Casts, additions and subtractions in any order show what SQL means by them: the *)
(* text of the result (ydboctoDateTimeInternalFormat2TextC) has the day, the time  *)
(* and the microseconds that the exact calculation gives, before and after the     *)
(* epoch and with a time zone or without.  What is added is a number of days or a  *)
(* literal of type TIME or TIME WITH TIME ZONE.  ERR_DATE_TIME_RESULT_OUT_OF_RANGE *)
(* is given only when the result is outside the range of dates or on its first or  *)
(* last day, since in_range() looks at the value in UTC.  date - date is the       *)
(* number of days between the two (ydboctoSubDateC).                               *)
(* Left out (exact): a date added to a time with time zone that in local time is   *)
(* on another day, which the code forgets; the sign of a zone offset of less than  *)
(* a minute; a timestamp with time zone cast to a date in a zone other than UTC;   *)
(* days that overflow the word; and microseconds borrowed at or before the epoch.  *)
ShownAsMeant ==
    exact =>
        IF val = Error THEN shown.day \notin MinDay + 1 .. MaxDay - 1
        ELSE LET text == InternalFormat2Text(val)
             IN  /\ val.type \notin {"time", "timetz"} => text.day = shown.day
                 /\ val.type # "date" => text.sod = shown.sod /\ text.micro = shown.micro
                 /\ val.type = "date" =>
                      \A other \in Texts :
                          SubDate(val.int, Text2Internal("date", other)) = shown.day - other.day

(* A value is found again by its text: equal values have equal internal formats,  *)
(* so comparisons and keys on the internal format agree with what is printed.  A  *)
(* time with time zone may have moved to another day, so its types are left out.  *)
(* And every value in range that a query prints passes the validation to which    *)
(* PrintDateTimeResultColumnValue() in _ydboctoplanhelpers.m subjects the text: a *)
(* result is never refused after it was computed, whatever DATESTYLE was set to,   *)
(* and no two days are printed alike.                                             *)
TextReadsBack ==
    val # Error =>
        /\ (exact /\ val.type \in {"date", "timestamp", "timestamptz"}) =>
              /\ Text2Internal(val.type, InternalFormat2Text(val)) = val.int
              /\ val.type = "timestamptz" =>
                   ConvertToLocalTimezone(val) = Text2Internal("timestamp", InternalFormat2Text(val))
        /\ InternalFormat2Text(val).day \in MinDay .. MaxDay =>
              /\ is_date_time_literal_in_valid_format(val.type, text_tokens(val))
              /\ \A other \in Texts :
                   date_tokens(other.day) = date_tokens(InternalFormat2Text(val).day) =>
                       other.day = InternalFormat2Text(val).day

(* The ranges of the numeric formats are those of the calendar: a HOROLOG day is  *)
(* accepted exactly when it falls in the years 1840 to 9999, and a FILEMAN time   *)
(* of two digits or more only if it is a time of day once the trailing zeros that *)
(* FILEMAN drops are put back.                                                    *)
NumericFormatsAreDates ==
    /\ (lit.format = "horolog" /\ lit.type = "date" /\ Len(lit.in) = 1 /\ lit.in[1].given) =>
          (lit.ok <=> civil(lit.in[1].v - 47117).Y >= 1840 /\ civil(lit.in[1].v - 47117).Y <= 9999)
    /\ (lit.ok /\ lit.format = "fileman" /\ lit.type # "date" /\ Len(lit.in.time) > 1) =>
          LET D(i) == IF i <= Len(lit.in.time) THEN lit.in.time[i] ELSE 0
              Two(i) == (10 * D(i)) + D(i + 1)
          IN  (Two(1) < 24 /\ Two(3) < 60 /\ Two(5) < 60) \/ <<Two(1), Two(3), Two(5)>> = <<24, 0, 0>>

(* The characters of a text. *)
characters(toks) ==
    LET count[i \in 0 .. Len(toks)] ==
            IF i = 0 THEN 0 ELSE count[i - 1] + (IF toks[i][1] = "n" THEN toks[i][2] ELSE 1)
    IN  count[Len(toks)]

(* A text that passes the validation has at most six digits of microseconds and   *)
(* nine characters of time zone after them, the sizes of micro[] and time_zone[]  *)
(* into which ydboctoText2InternalFormatC() copies them without a check of its    *)
(* own.                                                                           *)
FractionFits(rest) == (rest[2][1] = "n" => rest[2][2] <= 6) /\ characters(after_fraction(rest)) <= 9
AcceptedFitsBuffers ==
    (lit.ok /\ lit.format = "text" /\ lit.type # "date") =>
        \A i \in DOMAIN lit.in : lit.in[i][1] = "." => FractionFits(SubSeq(lit.in, i, Len(lit.in)))

(* Both together: the ranges of HOROLOG days and FILEMAN times, and the buffers.  *)
(* Whether a day exists in its month is not asked: text 02-31-2023 and FILEMAN    *)
(* 3230231 pass the validation.  FILEMAN hours of one digit are left out.         *)
LiteralsValidated == NumericFormatsAreDates /\ AcceptedFitsBuffers
=============================================================================
