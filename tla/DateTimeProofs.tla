--------------------------- MODULE DateTimeProofs ---------------------------
(***************************************************************************)
(* Proofs about DateTime for any literals, any range of dates that fits    *)
(* the word and any zone of the process.                                   *)
(*                                                                         *)
(* ValueInv: the value of an expression is the number that what it shows   *)
(* encodes, at most one day per operation outside the range of dates, so   *)
(* that no sum or product wraps.  TextInv adds the type of the value and   *)
(* that DATESTYLE is an order of year, month and day; the calendar of the  *)
(* text gives different days different dates.  LitInv: the literal that    *)
(* was validated last has the parts of its format and was accepted for     *)
(* them; an accepted text has its fraction and zone in one place only.     *)
(***************************************************************************)
EXTENDS DateTime, TLAPS

\* Multiplication by a positive number keeps the order.
LEMMA Times1 ==
    ASSUME NEW b \in Nat \ {0}, NEW x \in Int
    PROVE  b * x \in Int /\ x * b = b * x /\ (x >= 1 => b * x >= b) /\ (x <= -1 => b * x <= -b)
  OBVIOUS

\* The j-th place of what starts at place i of a text, 6 places after a date.
LEMMA PlaceInTime ==
    ASSUME NEW i \in Int, NEW n \in Int, NEW j \in Int, i >= 7, i <= n, 1 <= j, j <= n - i + 1
    PROVE  /\ i - 6 + j - 1 \in 1 .. (n - 6) /\ i - 6 + j - 1 + 1 \in 1 .. (n - 5)
           /\ (i - 6 + j - 1 + 1) + 5 = i + j - 1
  OBVIOUS

LEMMA DivMod ==
    ASSUME NEW b \in Nat \ {0}, NEW a \in Int
    PROVE  a \div b \in Int /\ a % b \in 0 .. (b - 1) /\ ((a \div b) * b) + (a % b) = a
  OBVIOUS

LEMMA MulMono ==
    ASSUME NEW b \in Nat, NEW x \in Int, NEW y \in Int, x <= y
    PROVE  b * x \in Int /\ b * y \in Int /\ b * x <= b * y
  OBVIOUS

\* Division by a positive number has one quotient and one remainder.
LEMMA DivUnique ==
    ASSUME NEW b \in Nat \ {0}, NEW q \in Int, NEW r \in 0 .. (b - 1)
    PROVE  ((q * b) + r) \div b = q /\ ((q * b) + r) % b = r
  <1> DEFINE a == (q * b) + r
             p == a \div b
             s == a % b
  <1>1. a \in Int /\ p \in Int /\ s \in 0 .. (b - 1) /\ a = (b * p) + s
    OBVIOUS
  <1>2. b * (q - p) = s - r
    BY <1>1
  <1> HIDE DEF a, p, s
  <1>3. q - p \in Int /\ s - r < b /\ s - r > -b
    BY <1>1
  <1>4. q - p = 0
    BY <1>2, <1>3, <1>1, Times1
  <1> QED
    BY <1>1, <1>2, <1>4 DEF a, p, s

\* The constants that the arithmetic is about.
LEMMA Constants ==
    /\ Base \in Nat \ {0} /\ Off \in Int /\ -DaySecs < Off /\ Off < DaySecs /\ DaySecs \in Nat \ {0}
    /\ WordRange \in Nat \ {0} /\ Word \in Nat /\ 2 * Word <= WordRange
    /\ MinDay \in Int /\ MaxDay \in Int /\ Day0 \in Int /\ IntMax \in Int /\ MaxOps \in Nat
    /\ MinDay < 0 /\ 0 < MaxDay
  <1>1. Base \in Nat \ {0}
    <2>1. \A i \in 1 .. 6 : Power10[i + 1] \in Nat \ {0}
      BY SMT DEF Power10
    <2> QED
      BY <2>1, RangeAssumption, Zenon DEF Base
  <1>2. Off \in Int /\ -DaySecs < Off /\ Off < DaySecs /\ DaySecs \in Nat \ {0}
    BY RangeAssumption, SMT DEF DaySecs, MaxOff
  <1>3. /\ MinDay \in Int /\ MaxDay \in Int /\ Day0 \in Int /\ IntMax \in Int /\ MaxOps \in Nat
        /\ MinDay < 0 /\ 0 < MaxDay /\ WordRange \in Nat
    BY RangeAssumption, SMT
  <1>4. DaySecs * (MaxDay + 8) \in Nat \ {0}
    BY <1>2, <1>3, SMT DEF DaySecs
  <1>5. Base * (DaySecs * (MaxDay + 8)) \in Int /\ Base * (DaySecs * (MaxDay + 8)) >= Base
    BY <1>1, <1>4, Times1, SMT
  <1>6. Base * (DaySecs * (MaxDay + 8)) <= Word
    BY RangeAssumption, Zenon
  <1>7. Word \in Int /\ 2 * Word <= WordRange
    BY <1>3, SMT DEF Word
  <1>8. Word >= 1 /\ WordRange \in Nat \ {0}
    BY <1>1, <1>3, <1>5, <1>6, <1>7, SMT
  <1> QED
    BY <1>1, <1>2, <1>3, <1>7, <1>8, SMT

LEMMA BaseNat == Base \in Nat \ {0}
  BY Constants, Zenon

LEMMA MicroInt == \A m \in 0 .. (Base - 1) : m \in Int /\ -Base < m /\ m < Base
  BY BaseNat, SMT

LEMMA WordFits == Base * (DaySecs * (MaxDay + 8)) <= Word /\ Base * (DaySecs * (8 - MinDay)) <= Word
  BY RangeAssumption, Zenon

\* The internal format, as long as it does not overflow.
Enc(sec, micro) == (sec * Base) + (IF sec < 0 THEN -micro ELSE micro)

\* The seconds that values and intermediate results have.
SecOk(sec) == sec \in Int /\ DaySecs * (MinDay - 7) <= sec /\ sec <= DaySecs * (MaxDay + 7)

\* A number that fits is not changed by the width of a ydb_long_t.
LEMMA NoWrap ==
    ASSUME NEW a \in Int, -Word <= a, a < Word
    PROVE  Wrap(a) = a
  <1>1. a + Word \in 0 .. (WordRange - 1)
    BY Constants
  <1>2. ((0 * WordRange) + (a + Word)) % WordRange = a + Word
    BY <1>1, Constants, DivUnique
  <1> QED
    BY <1>1, <1>2, Constants DEF Wrap

LEMMA Fits ==
    ASSUME NEW sec, SecOk(sec)
    PROVE  (sec * Base) \in Int /\ -Word + Base <= sec * Base /\ sec * Base <= Word - Base
  <1> DEFINE hi == DaySecs * (MaxDay + 7)
             lo == DaySecs * (MinDay - 7)
  <1>1. sec \in Int /\ hi \in Int /\ lo \in Int /\ lo <= sec /\ sec <= hi
        /\ hi + 1 <= DaySecs * (MaxDay + 8) /\ -(lo - 1) <= DaySecs * (8 - MinDay)
        /\ DaySecs * (MaxDay + 8) \in Int /\ DaySecs * (8 - MinDay) \in Int
    BY Constants DEF SecOk, DaySecs
  <1> HIDE DEF hi, lo
  <1>2. Base * sec <= Base * hi /\ Base * lo <= Base * sec
    BY <1>1, Constants, MulMono
  <1>3. Base * (hi + 1) <= Word
    <2>1. Base * (hi + 1) <= Base * (DaySecs * (MaxDay + 8))
      BY <1>1, Constants, MulMono
    <2> QED
      BY <2>1, <1>1, Constants, WordFits, SMT
  <1>4. Base * (-(lo - 1)) <= Word
    <2>1. Base * (-(lo - 1)) <= Base * (DaySecs * (8 - MinDay))
      BY <1>1, Constants, MulMono
    <2> QED
      BY <2>1, <1>1, Constants, WordFits, SMT
  <1>5. Base * (hi + 1) = (Base * hi) + Base /\ Base * (-(lo - 1)) = Base - (Base * lo)
    BY <1>1, Constants
  <1> QED
    BY <1>1, <1>2, <1>3, <1>4, <1>5, Constants

LEMMA AddMicro ==
    ASSUME NEW sec, SecOk(sec), NEW micro \in Int, -Base < micro, micro < Base
    PROVE  add_micro_seconds(sec, micro) = Enc(sec, micro) /\ Enc(sec, micro) \in Int
  <1> DEFINE p == sec * Base
             e == IF sec < 0 THEN -micro ELSE micro
  <1>1. p \in Int /\ -Word + Base <= p /\ p <= Word - Base
    BY Fits
  <1>2. e \in Int /\ -Base < e /\ e < Base
    BY Constants, SMT DEF SecOk
  <1> HIDE DEF p, e
  <1>3. p + e \in Int /\ -Word <= p + e /\ p + e < Word
    BY <1>1, <1>2, Constants, SMT
  <1>4. Wrap(p + e) = p + e
    BY <1>3, NoWrap, Zenon
  <1> QED
    BY <1>3, <1>4, Zenon DEF add_micro_seconds, Enc, p, e

\* REMOVE_MICRO_SECONDS takes apart what ADD_MICRO_SECONDS put together.
LEMMA Decode ==
    ASSUME NEW sec \in Int, NEW micro \in 0 .. (Base - 1)
    PROVE  seconds_of(Enc(sec, micro)) = sec /\ micro_of(Enc(sec, micro)) = micro
  <1> DEFINE v == Enc(sec, micro)
  <1>1. CASE sec >= 0
    <2>1. v = (sec * Base) + micro /\ v >= 0 /\ v \in Int /\ sec * Base \in Int
      BY <1>1, Constants, MulMono DEF Enc
    <2>2. v \div Base = sec
      BY <2>1, BaseNat, DivUnique, Zenon
    <2>3. seconds_of(v) = sec
      BY <2>1, <2>2 DEF seconds_of, CDiv
    <2> HIDE DEF v
    <2> QED
      BY <2>1, <2>3 DEF micro_of, Abs, v
  <1>2. CASE sec < 0
    <2>1. v = (sec * Base) - micro /\ v < 0 /\ v \in Int /\ sec * Base \in Int
          /\ -v = ((-sec) * Base) + micro
      BY <1>2, Constants, Times1 DEF Enc
    <2>2. (((-sec) * Base) + micro) \div Base = -sec
      BY Constants, DivUnique, SMT
    <2>3. seconds_of(v) = sec
      BY <2>1, <2>2 DEF seconds_of, CDiv
    <2> HIDE DEF v
    <2> QED
      BY <2>1, <2>3 DEF micro_of, Abs, v
  <1> QED
    BY <1>1, <1>2

\* gmtime() and utc_mktime() are inverse to each other.
LEMMA BrokenDown ==
    ASSUME NEW sec \in Int
    PROVE  /\ gmtime(sec) = [day |-> sec \div DaySecs, sod |-> sec % DaySecs]
           /\ sec \div DaySecs \in Int /\ sec % DaySecs \in 0 .. (DaySecs - 1)
           /\ ((sec \div DaySecs) * DaySecs) + (sec % DaySecs) = sec
  <1>1. gmtime(sec) = [day |-> sec \div DaySecs, sod |-> sec % DaySecs]
    BY Zenon DEF gmtime
  <1> QED
    BY <1>1, DivMod, Constants, Zenon

\* Whole days leave the second of the day as it is.
LEMMA WholeDays ==
    ASSUME NEW sec \in Int, NEW n \in Int
    PROVE  /\ ((n * DaySecs) + sec) % DaySecs = sec % DaySecs
           /\ ((n * DaySecs) + sec) \div DaySecs = n + (sec \div DaySecs)
           /\ (n * DaySecs) + sec \in Int
  BY SMT DEF DaySecs

-----------------------------------------------------------------------------
\* loc is the number of seconds, in local time, that the value v stands for,
\* and sh is what it should show; a time may be on any day that ops operations
\* can have carried it to.
TimeTypes == {"time", "timetz"}
TimeLoc(loc, k) == DaySecs * (Day0 - (2 + k)) <= loc /\ loc <= DaySecs * (Day0 + (2 + k))
DateLoc(loc) == DaySecs * (MinDay - 2) <= loc /\ loc <= DaySecs * (MaxDay + 3)
Shows(type, sh, k, loc) ==
    /\ type \in Type /\ loc \in Int /\ sh.micro \in 0 .. (Base - 1) /\ sh.sod = loc % DaySecs
    /\ type = "date" => sh.sod = 0 /\ sh.micro = 0
    /\ type \in TimeTypes => TimeLoc(loc, k)
    /\ type \notin TimeTypes => DateLoc(loc) /\ sh.day = loc \div DaySecs
Utc(type, loc) == IF type \in Zoned THEN loc - Off ELSE loc
LocMeant(v, sh, k, loc) ==
    /\ Shows(v.type, sh, k, loc)
    /\ v = [type |-> v.type, int |-> v.int] /\ v.int = Enc(Utc(v.type, loc), sh.micro)

\* Such a value and what the local zone makes of it do not overflow.
LEMMA LocOk ==
    ASSUME NEW loc \in Int, NEW k \in 0 .. MaxOps, TimeLoc(loc, k) \/ DateLoc(loc),
           NEW d \in Int, -DaySecs <= d, d <= DaySecs,
           NEW e \in Int, -DaySecs <= e, e <= DaySecs
    PROVE  SecOk(loc + d + e) /\ SecOk(loc + d) /\ SecOk(loc)
  BY RangeAssumption, SMT DEF SecOk, TimeLoc, DateLoc, DaySecs

\* In UTC it is still one.
LEMMA UtcOk ==
    ASSUME NEW type, NEW sh, NEW k \in 0 .. MaxOps, NEW loc, Shows(type, sh, k, loc)
    PROVE  /\ Utc(type, loc) \in Int /\ SecOk(Utc(type, loc)) /\ loc \in Int
           /\ type \in Zoned => Utc(type, loc) + Off = loc
           /\ type \notin Zoned => Utc(type, loc) = loc
           /\ sh.micro \in 0 .. (Base - 1)
  <1> DEFINE d == IF type \in Zoned THEN -Off ELSE 0
  <1>1. loc \in Int /\ (TimeLoc(loc, k) \/ DateLoc(loc)) /\ sh.micro \in 0 .. (Base - 1)
    BY Zenon DEF Shows
  <1>2. d \in Int /\ -DaySecs <= d /\ d <= DaySecs
    BY Constants, SMT
  <1>3. /\ Utc(type, loc) = loc + d /\ Utc(type, loc) \in Int
        /\ type \in Zoned => Utc(type, loc) + Off = loc
        /\ type \notin Zoned => Utc(type, loc) = loc
    BY <1>1, Constants, SMT DEF Utc
  <1> HIDE DEF d
  <1>4. SecOk(loc + d)
    BY <1>1, <1>2, LocOk, Zenon
  <1> QED
    BY <1>1, <1>3, <1>4, Zenon

\* The C functions read the seconds, the microseconds and the broken-down time.
LEMMA ReadBack ==
    ASSUME NEW v, NEW sh, NEW k \in 0 .. MaxOps, NEW loc, LocMeant(v, sh, k, loc)
    PROVE  /\ seconds_of(v.int) = Utc(v.type, loc) /\ micro_of(v.int) = sh.micro
           /\ tm_of(v) = gmtime(loc)
  <1>1. Shows(v.type, sh, k, loc) /\ v.int = Enc(Utc(v.type, loc), sh.micro)
    BY Zenon DEF LocMeant
  <1>2. seconds_of(v.int) = Utc(v.type, loc) /\ micro_of(v.int) = sh.micro
    <2>1. Utc(v.type, loc) \in Int /\ sh.micro \in 0 .. (Base - 1)
      BY <1>1, UtcOk, Zenon
    <2> QED
      BY <1>1, <2>1, Decode, Zenon
  <1>3. /\ v.type \in Zoned => Utc(v.type, loc) + Off = loc
        /\ v.type \notin Zoned => Utc(v.type, loc) = loc
    BY <1>1, UtcOk, Zenon
  <1>4. CASE v.type \in Zoned
    BY <1>2, <1>3, <1>4, Zenon DEF tm_of, localtime
  <1>5. CASE v.type \notin Zoned
    BY <1>2, <1>3, <1>5, Zenon DEF tm_of
  <1> QED
    BY <1>2, <1>4, <1>5, Zenon

\* A value that is put together shows what it should.
LEMMA Built ==
    ASSUME NEW type, NEW sh, NEW k \in 0 .. MaxOps, NEW loc, Shows(type, sh, k, loc)
    PROVE  /\ add_micro_seconds(Utc(type, loc), sh.micro) = Enc(Utc(type, loc), sh.micro)
           /\ LocMeant([type |-> type, int |-> add_micro_seconds(Utc(type, loc), sh.micro)], sh, k, loc)
  <1>1. sh.micro \in Int /\ -Base < sh.micro /\ sh.micro < Base
    BY UtcOk, MicroInt, Zenon
  <1>2. add_micro_seconds(Utc(type, loc), sh.micro) = Enc(Utc(type, loc), sh.micro)
    BY <1>1, UtcOk, AddMicro, Zenon
  <1> QED
    BY <1>2, Zenon DEF LocMeant

\* A result is refused only when it is outside the range of dates.
LEMMA RangeChecked ==
    ASSUME NEW sec \in Int, NEW micro \in 0 .. (Base - 1), NEW type
    PROVE  \/ checked(type, Enc(sec, micro)) = [type |-> type, int |-> Enc(sec, micro)]
              /\ DaySecs * MinDay <= sec /\ sec < DaySecs * (MaxDay + 1)
           \/ checked(type, Enc(sec, micro)) = Error
              /\ ~(DaySecs * MinDay <= sec /\ sec < DaySecs * (MaxDay + 1))
  <1> DEFINE hi == ((MaxDay + 1) * DaySecs) - 1
             lo == MinDay * DaySecs
             m == Base - 1
             e == Enc(sec, micro)
             p == sec * Base
             ph == hi * Base
             pl == lo * Base
  <1>1. /\ hi \in Int /\ hi >= 0 /\ lo \in Int /\ lo < 0 /\ SecOk(hi) /\ SecOk(lo)
        /\ m \in Int /\ -Base < m /\ m < Base
        /\ hi = (DaySecs * (MaxDay + 1)) - 1 /\ lo = DaySecs * MinDay
    BY Constants, SMT DEF SecOk, DaySecs
  <1> HIDE DEF hi, lo
  <1>2. in_range(e) <=> e <= Enc(hi, m) /\ e >= Enc(lo, m)
    BY <1>1, AddMicro, Zenon DEF in_range, hi, lo
  <1> HIDE DEF m
  <1>3. Enc(hi, m) = ph + m /\ Enc(lo, m) = pl - m
    BY <1>1, Constants, SMT DEF Enc
  <1>4. /\ p \in Int /\ ph \in Int /\ pl \in Int
        /\ (sec <= hi => p <= ph) /\ (sec >= lo => p >= pl)
        /\ (sec > hi => p >= ph + Base) /\ (sec < lo => p <= pl - Base)
        /\ (sec >= 0 => p >= 0) /\ (sec < 0 => p <= -Base)
        /\ ph >= 0 /\ pl <= -Base
    <2>1. Base * sec = p /\ Base * hi = ph /\ Base * lo = pl /\ p \in Int /\ ph \in Int /\ pl \in Int
      BY <1>1, Constants, SMT
    <2>2. (sec <= hi => p <= ph) /\ (sec >= lo => p >= pl)
      BY <1>1, <2>1, Constants, MulMono, SMT
    <2>3. sec > hi => p >= ph + Base
      <3>1. Base * (hi + 1) = ph + Base
        BY <1>1, <2>1, Constants, SMT
      <3> QED
        BY <1>1, <2>1, <3>1, Constants, MulMono, SMT
    <2>4. sec < lo => p <= pl - Base
      <3>1. Base * (lo - 1) = pl - Base
        BY <1>1, <2>1, Constants, SMT
      <3> QED
        BY <1>1, <2>1, <3>1, Constants, MulMono, SMT
    <2>5. (sec >= 0 => p >= 0) /\ (sec < 0 => p <= -Base) /\ ph >= 0 /\ pl <= -Base
      BY <1>1, <2>1, Constants, Times1, SMT
    <2> QED
      BY <2>1, <2>2, <2>3, <2>4, <2>5, Zenon
  <1>5. e = p + (IF sec < 0 THEN -micro ELSE micro)
    BY Zenon DEF Enc
  <1>6. in_range(e) <=> lo <= sec /\ sec <= hi
    <2> HIDE DEF e, p, ph, pl
    <2> QED
      BY <1>1, <1>2, <1>3, <1>4, <1>5, Constants, SMT DEF m
  <1>7. lo <= sec /\ sec <= hi <=> DaySecs * MinDay <= sec /\ sec < DaySecs * (MaxDay + 1)
    BY <1>1, Constants, SMT DEF DaySecs
  <1> QED
    BY <1>6, <1>7, Zenon DEF checked

-----------------------------------------------------------------------------
\* The zone of a literal: its offset is read as it is written unless the sign
\* is lost.
ZoneNumbers(s, m, c) ==
    s \in {-1, 0, 1} /\ m \in 0 .. 959 /\ c \in 0 .. 59 /\ (s = 0 => m = 0 /\ c = 0)
ZoneSeconds(s, m, c) == s * ((m * 60) + c)
ReadSeconds(s, m, c) == (s * m * 60) + (IF s * m * 60 < 0 THEN -c ELSE c)
ZoneMeant(s, m, c) ==
    /\ ~(s < 0 /\ m = 0 /\ c > 0) => ReadSeconds(s, m, c) = ZoneSeconds(s, m, c)
    /\ ZoneSeconds(s, m, c) \in Int
    /\ -DaySecs < ZoneSeconds(s, m, c) /\ ZoneSeconds(s, m, c) < DaySecs
    /\ s = 0 => ZoneSeconds(s, m, c) = 0
LEMMA ZoneArithmetic ==
    ASSUME NEW s, NEW m, NEW c, ZoneNumbers(s, m, c)
    PROVE  ZoneMeant(s, m, c)
  <1>1. CASE s = 0
    BY <1>1, SMT DEF DaySecs, ZoneNumbers, ZoneMeant, ZoneSeconds, ReadSeconds
  <1>2. CASE s = 1
    BY <1>2, SMT DEF DaySecs, ZoneNumbers, ZoneMeant, ZoneSeconds, ReadSeconds
  <1>3. CASE s = -1
    BY <1>3, SMT DEF DaySecs, ZoneNumbers, ZoneMeant, ZoneSeconds, ReadSeconds
  <1> QED
    BY <1>1, <1>2, <1>3, ZenonT(40) DEF ZoneNumbers

LEMMA ZoneRead ==
    ASSUME NEW z \in ZoneText
    PROVE  /\ sign_kept(z) => zone_offset(z) = TrueOffset(z)
           /\ TrueOffset(z) \in Int /\ -DaySecs < TrueOffset(z) /\ TrueOffset(z) < DaySecs
           /\ z = NoZone => TrueOffset(z) = 0
  <1>1. ZoneNumbers(z.sign, z.min, z.sec)
    BY SMT DEF ZoneText, ZoneNumbers
  <1>2. zone_offset(z) = ReadSeconds(z.sign, z.min, z.sec)
    BY Zenon DEF zone_offset, ReadSeconds
  <1>3. TrueOffset(z) = ZoneSeconds(z.sign, z.min, z.sec)
    BY Zenon DEF TrueOffset, ZoneSeconds
  <1>4. z = NoZone => z.sign = 0
    BY SMT DEF NoZone
  <1>5. ZoneMeant(z.sign, z.min, z.sec)
    BY <1>1, ZoneArithmetic, Zenon
  <1> QED
    BY <1>2, <1>3, <1>4, <1>5, Zenon DEF ZoneMeant, sign_kept

\* ydboctoText2InternalFormatC() makes the value that a literal shows.
Shift(type, text) == IF type \in Zoned /\ text.zone # NoZone THEN Off - TrueOffset(text.zone) ELSE 0
LiteralShown(type, text) ==
    IF type = "date" THEN Fields(text.day * DaySecs, 0)
    ELSE Fields(utc_mktime(text) + Shift(type, text), text.micro)

\* Days, and seconds of up to three days more or two days less.
LEMMA NearDay ==
    ASSUME NEW day \in Int, NEW x \in Int, -(2 * DaySecs) <= x, x <= 3 * DaySecs
    PROVE  /\ (day * DaySecs) + x \in Int
           /\ DaySecs * (day - 2) <= (day * DaySecs) + x
           /\ (day * DaySecs) + x <= DaySecs * (day + 3)
  BY SMT DEF DaySecs

LEMMA NearDay0 ==
    ASSUME NEW loc \in Int, DaySecs * (Day0 - 2) <= loc, loc <= DaySecs * (Day0 + 3)
    PROVE  TimeLoc(loc, 1)
  BY Constants, SMT DEF TimeLoc, DaySecs

LEMMA NearDate ==
    ASSUME NEW loc \in Int, NEW day \in MinDay .. MaxDay,
           DaySecs * (day - 2) <= loc, loc <= DaySecs * (day + 3)
    PROVE  DateLoc(loc)
  BY Constants, SMT DEF DateLoc, DaySecs

OneOp == 1 \in 0 .. MaxOps
LEMMA HasOp == OneOp
  <1>1. MaxOps \in Nat /\ MaxOps >= 1
    BY RangeAssumption, Zenon
  <1> QED
    BY <1>1, SMT DEF OneOp

\* The parts of a literal, and of a time that is added to a value.
LiteralParts(text) ==
    /\ text.day \in MinDay .. MaxDay /\ text.sod \in 0 .. DaySecs /\ text.micro \in 0 .. (Base - 1)
    /\ text.zone \in ZoneText
PlusText(t) == [day |-> Day0, sod |-> t.sod, micro |-> t.micro, zone |-> t.zone]
LEMMA TextParts ==
    /\ \A text \in Texts : LiteralParts(text)
    /\ \A t \in Times :
         /\ t.sod \in 0 .. (DaySecs - 1) /\ t.micro \in 0 .. (Base - 1) /\ t.zone \in ZoneText
         /\ LiteralParts(PlusText(t))
  <1>1. \A text \in Texts : LiteralParts(text)
    BY LiteralAssumption, SMTT(30) DEF LiteralParts
  <1>2. ASSUME NEW t \in Times
        PROVE  t.sod \in 0 .. (DaySecs - 1) /\ t.micro \in 0 .. (Base - 1) /\ t.zone \in ZoneText
    BY LiteralAssumption, SMTT(30)
  <1>3. Day0 \in MinDay .. MaxDay
    <2>1. /\ MinDay \in Int /\ MaxDay \in Int /\ Day0 \in Int /\ MaxOps \in Nat
          /\ MinDay + MaxOps + 4 <= Day0 /\ Day0 + MaxOps + 4 <= MaxDay
      BY RangeAssumption, Zenon
    <2> QED
      BY <2>1, SMTT(30)
  <1>4. \A x \in 0 .. (DaySecs - 1) : x \in 0 .. DaySecs
    <2>1. DaySecs \in Nat
      BY Constants, Zenon
    <2> QED
      BY <2>1, SMTT(30)
  <1>5. ASSUME NEW t \in Times PROVE LiteralParts(PlusText(t))
    BY <1>2, <1>3, <1>4, Zenon DEF LiteralParts, PlusText
  <1> QED
    BY <1>1, <1>2, <1>5, Zenon

ZoneKept(type, text) == type \in Zoned => sign_kept(text.zone)
LEMMA LiteralMeant ==
    ASSUME NEW type \in Type, NEW text, LiteralParts(text), OneOp, ZoneKept(type, text)
    PROVE  \E loc : LocMeant([type |-> type, int |-> Text2Internal(type, text)],
                             LiteralShown(type, text), 1, loc)
  <1> DEFINE day == IF type \in TimeTypes THEN Day0 ELSE text.day
             sod == IF type = "date" THEN 0 ELSE text.sod
             shift == IF type = "date" THEN 0 ELSE Shift(type, text)
             loc == (day * DaySecs) + (sod + shift)
             sh == LiteralShown(type, text)
             off == IF type \notin Zoned THEN 0
                    ELSE IF text.zone = NoZone THEN Off ELSE zone_offset(text.zone)
  <1>1. text.day \in MinDay .. MaxDay /\ text.sod \in 0 .. DaySecs /\ text.micro \in 0 .. (Base - 1)
        /\ text.zone \in ZoneText
    BY Zenon DEF LiteralParts
  <1>2. /\ shift \in Int /\ -(2 * DaySecs) < shift /\ shift < 2 * DaySecs
        /\ type \in Zoned => shift = Off - off
        /\ type \notin Zoned => shift = 0
        /\ off \in Int
    <2> DEFINE t == TrueOffset(text.zone)
               o == zone_offset(text.zone)
    <2>1. t \in Int /\ -DaySecs < t /\ t < DaySecs
      BY <1>1, ZoneRead, Zenon
    <2>2. type \in Zoned => o = t
      BY <1>1, ZoneRead, Zenon DEF ZoneKept
    <2>3. Off \in Int /\ -DaySecs < Off /\ Off < DaySecs /\ DaySecs \in Nat
      BY Constants, SMT
    <2>4. ~("date" \in Zoned)
      BY SMT DEF Zoned
    <2>5. shift = IF type \in Zoned /\ text.zone # NoZone THEN Off - t ELSE 0
      BY <2>4, Zenon DEF Shift
    <2> HIDE DEF t, o, shift
    <2>6. CASE type \in Zoned /\ text.zone # NoZone
      <3>1. shift = Off - t /\ off = t
        BY <2>2, <2>5, <2>6, Zenon DEF o
      <3> QED
        BY <2>1, <2>3, <2>6, <3>1, SMT
    <2>7. CASE type \in Zoned /\ text.zone = NoZone
      <3>1. shift = 0 /\ off = Off
        BY <2>5, <2>7, Zenon
      <3> QED
        BY <2>3, <2>7, <3>1, SMT
    <2>8. CASE type \notin Zoned
      <3>1. shift = 0 /\ off = 0
        BY <2>5, <2>8, Zenon
      <3> QED
        BY <2>3, <2>8, <3>1, SMT
    <2> QED
      BY <2>6, <2>7, <2>8, Zenon
  <1>3. day \in Int /\ sod \in Int /\ sod >= 0 /\ sod <= DaySecs /\ loc \in Int
        /\ text.day \in Int /\ sod + shift \in Int /\ text.day * DaySecs \in Int
    BY <1>1, <1>2, Constants, SMT
  <1>4. /\ sh.sod = ((text.day * DaySecs) + (sod + shift)) % DaySecs
        /\ sh.day = ((text.day * DaySecs) + (sod + shift)) \div DaySecs
        /\ sh.micro = IF type = "date" THEN 0 ELSE text.micro
    <2>1. CASE type = "date"
      BY <2>1, <1>3, SMTT(30) DEF LiteralShown, Fields
    <2>2. CASE type # "date"
      BY <2>2, <1>1, <1>2, <1>3, Constants, SMT DEF LiteralShown, Fields, utc_mktime
    <2> QED
      BY <2>1, <2>2
  <1> HIDE DEF day, sod, shift, sh, off
  <1>5. sh.sod = loc % DaySecs
    <2>1. loc % DaySecs = (sod + shift) % DaySecs
      BY <1>3, WholeDays, Zenon
    <2>2. ((text.day * DaySecs) + (sod + shift)) % DaySecs = (sod + shift) % DaySecs
      BY <1>3, WholeDays, Zenon
    <2> QED
      BY <1>4, <2>1, <2>2, Zenon
  <1>7. sod + shift \in Int /\ -(2 * DaySecs) <= sod + shift /\ sod + shift <= 3 * DaySecs
    BY <1>2, <1>3, Constants, SMT
  <1>6. Shows(type, sh, 1, loc)
    <2>1. type \in TimeTypes => TimeLoc(loc, 1)
      <3>1. type \in TimeTypes => day = Day0
        BY Zenon DEF day
      <3> QED
        BY <1>7, <3>1, NearDay, NearDay0, Constants, Zenon
    <2>2. type \notin TimeTypes => DateLoc(loc) /\ sh.day = loc \div DaySecs
      <3>1. type \notin TimeTypes => day = text.day
        BY Zenon DEF day
      <3>3. type \notin TimeTypes => DateLoc(loc)
        BY <1>1, <1>3, <1>7, <3>1, NearDay, NearDate, Zenon
      <3> QED
        BY <1>4, <3>1, <3>3, Zenon
    <2>3. type = "date" => sh.sod = 0 /\ sh.micro = 0
      <3>1. type = "date" => sh.micro = 0 /\ sod + shift = 0
        BY <1>4, SMT DEF sod, shift
      <3>2. 0 % DaySecs = 0
        BY SMT DEF DaySecs
      <3>3. ((text.day * DaySecs) + (sod + shift)) % DaySecs = (sod + shift) % DaySecs
        BY <1>3, WholeDays, Zenon
      <3> QED
        BY <1>4, <3>1, <3>2, <3>3, Zenon
    <2>4. sh.micro \in 0 .. (Base - 1)
      BY <1>1, <1>4, Constants, SMT
    <2> QED
      BY <1>3, <1>5, <2>1, <2>2, <2>3, <2>4, Zenon DEF Shows
  <1>8. Text2Internal(type, text) = add_micro_seconds(Utc(type, loc), sh.micro)
    <2>1. Text2Internal(type, text) =
            add_micro_seconds(utc_mktime([day |-> day, sod |-> sod]) - off, sh.micro)
      BY <1>4, Zenon DEF Text2Internal, day, sod, off, TimeTypes
    <2>2. utc_mktime([day |-> day, sod |-> sod]) - off = Utc(type, loc)
      BY <1>2, <1>3, Constants, SMT DEF utc_mktime, Utc, off
    <2> QED
      BY <2>1, <2>2, Zenon
  <1> QED
    BY <1>6, <1>8, Built, Zenon DEF sh, OneOp


-----------------------------------------------------------------------------
\* The casts: where each one takes its seconds from.
Dated == {"timestamp", "timestamptz"}
LEMMA CastKinds ==
    ASSUME NEW a \in Type, NEW out, <<a, out>> \in Casts
    PROVE  /\ out \in Type
           /\ \/ a = out
              \/ out = "time" /\ a = "timetz"
              \/ out = "time" /\ a \in Dated
              \/ out = "date" /\ a \in Dated
              \/ out = "timestamp" /\ a = "date"
              \/ out = "timestamp" /\ a = "timestamptz"
              \/ out = "timetz" /\ a = "time"
              \/ out = "timestamptz" /\ a = "date"
              \/ out = "timestamptz" /\ a = "timestamp"
  BY SMT DEF Casts, Type, Zoned, Dated

CastMicro(v, out) == IF out = "date" THEN 0 ELSE micro_of(v.int)
Made(out, sec, v) == [type |-> out, int |-> add_micro_seconds(sec, CastMicro(v, out))]
LEMMA CastMakes ==
    ASSUME NEW v, NEW out
    PROVE  LET tm == tm_of(v)
               midnight == [tm EXCEPT !.sod = 0]
           IN  /\ v.type = out => DateTimeCast(v, out) = Made(out, seconds_of(v.int), v)
               /\ out = "time" /\ v.type = "timetz" => DateTimeCast(v, out) = Made(out, utc_mktime(tm), v)
               /\ out = "time" /\ v.type \in Dated =>
                    DateTimeCast(v, out) = Made(out, utc_mktime([tm EXCEPT !.day = Day0]), v)
               /\ out = "date" /\ v.type = "timestamp" => DateTimeCast(v, out) = Made(out, utc_mktime(midnight), v)
               /\ out = "date" /\ v.type = "timestamptz" => DateTimeCast(v, out) = Made(out, mktime(midnight), v)
               /\ out = "timestamp" /\ v.type = "date" => DateTimeCast(v, out) = Made(out, utc_mktime(midnight), v)
               /\ out = "timestamp" /\ v.type = "timestamptz" => DateTimeCast(v, out) = Made(out, utc_mktime(tm), v)
               /\ out = "timetz" /\ v.type = "time" => DateTimeCast(v, out) = Made(out, mktime(tm), v)
               /\ out = "timestamptz" /\ v.type = "date" => DateTimeCast(v, out) = Made(out, mktime(midnight), v)
               /\ out = "timestamptz" /\ v.type = "timestamp" => DateTimeCast(v, out) = Made(out, mktime(tm), v)
  <1> DEFINE tm == tm_of(v)
             midnight == [tm EXCEPT !.sod = 0]
  <1> HIDE DEF tm, midnight
  <1>1. ASSUME v.type = out PROVE DateTimeCast(v, out) = Made(out, seconds_of(v.int), v)
    BY <1>1, Zenon DEF DateTimeCast, Made, CastMicro, Dated, tm, midnight
  <1>2. ASSUME out = "time" /\ v.type = "timetz" PROVE DateTimeCast(v, out) = Made(out, utc_mktime(tm), v)
    BY <1>2, Zenon DEF DateTimeCast, Made, CastMicro, Dated, tm, midnight
  <1>3. ASSUME out = "time" /\ v.type \in Dated PROVE DateTimeCast(v, out) = Made(out, utc_mktime([tm EXCEPT !.day = Day0]), v)
    BY <1>3, Zenon DEF DateTimeCast, Made, CastMicro, Dated, tm, midnight
  <1>4. ASSUME out = "date" /\ v.type = "timestamp" PROVE DateTimeCast(v, out) = Made(out, utc_mktime(midnight), v)
    BY <1>4, Zenon DEF DateTimeCast, Made, CastMicro, Dated, tm, midnight
  <1>5. ASSUME out = "date" /\ v.type = "timestamptz" PROVE DateTimeCast(v, out) = Made(out, mktime(midnight), v)
    BY <1>5, Zenon DEF DateTimeCast, Made, CastMicro, Dated, tm, midnight
  <1>6. ASSUME out = "timestamp" /\ v.type = "date" PROVE DateTimeCast(v, out) = Made(out, utc_mktime(midnight), v)
    BY <1>6, Zenon DEF DateTimeCast, Made, CastMicro, Dated, tm, midnight
  <1>7. ASSUME out = "timestamp" /\ v.type = "timestamptz" PROVE DateTimeCast(v, out) = Made(out, utc_mktime(tm), v)
    BY <1>7, Zenon DEF DateTimeCast, Made, CastMicro, Dated, tm, midnight
  <1>8. ASSUME out = "timetz" /\ v.type = "time" PROVE DateTimeCast(v, out) = Made(out, mktime(tm), v)
    BY <1>8, Zenon DEF DateTimeCast, Made, CastMicro, Dated, tm, midnight
  <1>9. ASSUME out = "timestamptz" /\ v.type = "date" PROVE DateTimeCast(v, out) = Made(out, mktime(midnight), v)
    BY <1>9, Zenon DEF DateTimeCast, Made, CastMicro, Dated, tm, midnight
  <1>10. ASSUME out = "timestamptz" /\ v.type = "timestamp" PROVE DateTimeCast(v, out) = Made(out, mktime(tm), v)
    BY <1>10, Zenon DEF DateTimeCast, Made, CastMicro, Dated, tm, midnight
  <1> QED
    BY <1>1, <1>2, <1>3, <1>4, <1>5, <1>6, <1>7, <1>8, <1>9, <1>10, Zenon DEF tm, midnight

\* What a value shows, as a record.
Shown == [day : Int, sod : 0 .. (DaySecs - 1), micro : 0 .. (Base - 1)]
CastShown(sh, out) == IF out = "date" THEN [sh EXCEPT !.sod = 0, !.micro = 0] ELSE sh

LEMMA MicroZero == 0 \in 0 .. (Base - 1) /\ 0 \in 0 .. (DaySecs - 1)
  BY BaseNat, SMT DEF DaySecs

LEMMA CastShownFields ==
    ASSUME NEW sh \in Shown, NEW out
    PROVE  /\ CastShown(sh, out) \in Shown
           /\ CastShown(sh, out).day = sh.day
           /\ out = "date" => CastShown(sh, out).sod = 0 /\ CastShown(sh, out).micro = 0
           /\ out # "date" => CastShown(sh, out) = sh
  BY MicroZero, Zenon DEF Shown, CastShown

LEMMA MadeMeant ==
    ASSUME NEW v, NEW sh \in Shown, NEW k \in 0 .. MaxOps, NEW loc, LocMeant(v, sh, k, loc),
           NEW out, NEW l, Shows(out, CastShown(sh, out), k, l)
    PROVE  LocMeant(Made(out, Utc(out, l), v), CastShown(sh, out), k, l)
  <1>1. CastMicro(v, out) = CastShown(sh, out).micro
    BY ReadBack, CastShownFields, Zenon DEF CastMicro
  <1> QED
    BY <1>1, Built, Zenon DEF Made

\* The broken-down time of the value as the casts use it.
LEMMA Midnight ==
    ASSUME NEW loc \in Int
    PROVE  LET tm == gmtime(loc)
               mid == [tm EXCEPT !.sod = 0]
           IN  /\ utc_mktime(tm) = loc /\ mktime(tm) = loc - Off
               /\ utc_mktime(mid) = ((loc \div DaySecs) * DaySecs) + 0
               /\ mktime(mid) = (((loc \div DaySecs) * DaySecs) + 0) - Off
               /\ utc_mktime([tm EXCEPT !.day = Day0]) = (Day0 * DaySecs) + (loc % DaySecs)
  <1> DEFINE d == loc \div DaySecs
             s == loc % DaySecs
             tm == [day |-> d, sod |-> s]
  <1>1. gmtime(loc) = tm /\ (d * DaySecs) + s = loc
    BY BrokenDown, Zenon
  <1> HIDE DEF d, s
  <1>2. /\ tm.day = d /\ tm.sod = s /\ [tm EXCEPT !.sod = 0] = [day |-> d, sod |-> 0]
        /\ [tm EXCEPT !.day = Day0] = [day |-> Day0, sod |-> s]
    BY SMT
  <1>3. \A a, b : utc_mktime([day |-> a, sod |-> b]) = (a * DaySecs) + b
                  /\ mktime([day |-> a, sod |-> b]) = ((a * DaySecs) + b) - Off
    BY Zenon DEF utc_mktime, mktime
  <1> HIDE DEF tm
  <1>4. utc_mktime(tm) = loc /\ mktime(tm) = loc - Off
    BY <1>1, <1>3, Zenon DEF tm
  <1>5. /\ utc_mktime([tm EXCEPT !.sod = 0]) = (d * DaySecs) + 0
        /\ mktime([tm EXCEPT !.sod = 0]) = ((d * DaySecs) + 0) - Off
    BY <1>2, <1>3, Zenon
  <1>6. utc_mktime([tm EXCEPT !.day = Day0]) = (Day0 * DaySecs) + s
    BY <1>2, <1>3, Zenon
  <1>7. gmtime(loc) = tm
    BY <1>1, Zenon
  <1> QED
    BY <1>4, <1>5, <1>6, <1>7, Zenon DEF d, s

\* The seconds on the day of times, and those of the midnight before.
LEMMA OnDay0 ==
    ASSUME NEW loc \in Int, NEW k \in 0 .. MaxOps
    PROVE  LET l == (Day0 * DaySecs) + (loc % DaySecs)
           IN  l \in Int /\ l % DaySecs = loc % DaySecs /\ TimeLoc(l, k)
  <1>1. Day0 \in Int /\ k \in Nat
    BY Constants, SMT
  <1> QED
    BY <1>1, SMT DEF TimeLoc, DaySecs

LEMMA AtMidnight ==
    ASSUME NEW loc \in Int
    PROVE  LET l == ((loc \div DaySecs) * DaySecs) + 0
           IN  /\ l \in Int /\ l % DaySecs = 0 /\ l \div DaySecs = loc \div DaySecs
               /\ DateLoc(loc) => DateLoc(l)
               /\ loc % DaySecs = 0 => l = loc
  <1>1. MinDay \in Int /\ MaxDay \in Int
    BY Constants, Zenon
  <1> QED
    BY <1>1, SMT DEF DateLoc, DaySecs

\* ydboctoDateTimeCastC(): a cast shows the same day and time, as far as its
\* type has them.
LEMMA CastMeant ==
    ASSUME NEW v, NEW sh \in Shown, NEW k \in 0 .. MaxOps, NEW loc, LocMeant(v, sh, k, loc),
           NEW out, <<v.type, out>> \in Casts,
           v.type = "timestamptz" /\ out = "date" => Off = 0
    PROVE  \E l : LocMeant(DateTimeCast(v, out), CastShown(sh, out), k, l)
  <1> DEFINE a == v.type
             sh1 == CastShown(sh, out)
             mid == ((loc \div DaySecs) * DaySecs) + 0
             day0 == (Day0 * DaySecs) + (loc % DaySecs)
  <1>1. Shows(a, sh, k, loc) /\ a \in Type /\ loc \in Int
    BY Zenon DEF LocMeant, Shows
  <1>2. tm_of(v) = gmtime(loc) /\ seconds_of(v.int) = Utc(a, loc)
    BY ReadBack, Zenon
  <1>3. Utc("time", loc) = loc /\ Utc("timestamp", loc) = loc /\ Utc("timetz", loc) = loc - Off
        /\ Utc("timestamptz", loc) = loc - Off
    BY Zenon DEF Utc, Zoned
  <1>4. \A l : Shows(out, sh1, k, l) => LocMeant(Made(out, Utc(out, l), v), sh1, k, l)
    BY MadeMeant, Zenon
  <1>5. /\ out \in Type
        /\ sh1.day = sh.day /\ sh1 \in Shown
        /\ out = "date" => sh1.sod = 0 /\ sh1.micro = 0
        /\ out # "date" => sh1 = sh
    BY <1>1, CastKinds, CastShownFields, Zenon
  <1>6. ASSUME out # "date", a \in TimeTypes <=> out \in TimeTypes
        PROVE  Shows(out, sh1, k, loc)
    BY <1>1, <1>5, <1>6, Zenon DEF Shows
  <1>7. CASE a = out
    <2>1. Shows(out, sh1, k, loc)
      <3>1. CASE out = "date"
        BY <1>1, <1>5, <1>7, <3>1, Zenon DEF Shows
      <3> QED
        BY <3>1, <1>6, <1>7, Zenon
    <2>2. DateTimeCast(v, out) = Made(out, Utc(out, loc), v)
      BY <1>2, <1>7, CastMakes, Zenon
    <2> QED
      BY <1>4, <2>1, <2>2, Zenon
  <1>8. CASE out = "time" /\ a = "timetz"
    <2>1. Shows(out, sh1, k, loc)
      BY <1>6, <1>8, Zenon DEF TimeTypes
    <2>2. DateTimeCast(v, out) = Made(out, Utc(out, loc), v)
      BY <1>1, <1>2, <1>3, <1>8, CastMakes, Midnight, Zenon
    <2> QED
      BY <1>4, <2>1, <2>2, Zenon
  <1>9. CASE out = "time" /\ a \in Dated
    <2>1. Shows(out, sh1, k, day0)
      BY <1>1, <1>5, <1>9, OnDay0, Zenon DEF Shows, TimeTypes
    <2>2. Utc(out, day0) = day0
      BY <1>9, Zenon DEF Utc, Zoned
    <2>3. DateTimeCast(v, out) = Made(out, Utc(out, day0), v)
      BY <1>1, <1>2, <2>2, <1>9, CastMakes, Midnight, Zenon
    <2> QED
      BY <1>4, <2>1, <2>3, Zenon
  <1>10. CASE out = "date" /\ a \in Dated
    <2>1. Shows(out, sh1, k, mid)
      <3>1. DateLoc(loc) /\ sh.day = loc \div DaySecs
        BY <1>1, <1>10, Zenon DEF Shows, TimeTypes, Dated
      <3> QED
        BY <1>1, <1>5, <1>10, <3>1, AtMidnight, MicroZero, Zenon DEF Shows, TimeTypes
    <2>2. Utc(out, mid) = mid
      BY <1>10, Zenon DEF Utc, Zoned
    <2>3. a = "timestamptz" => mid - Off = mid
      <3>1. mid \in Int
        BY <1>1, AtMidnight, Zenon
      <3> HIDE DEF mid
      <3>2. Off = 0 => mid - Off = mid
        BY <3>1, SMT
      <3> QED
        BY <1>10, <3>2, Zenon
    <2>4. DateTimeCast(v, out) = Made(out, Utc(out, mid), v)
      <3>1. CASE a = "timestamp"
        BY <1>1, <1>2, <2>2, <1>10, <3>1, CastMakes, Midnight, Zenon
      <3>2. CASE a = "timestamptz"
        <4>1. DateTimeCast(v, out) = Made(out, mktime([gmtime(loc) EXCEPT !.sod = 0]), v)
          BY <1>2, <1>10, <3>2, CastMakes, Zenon
        <4>2. mktime([gmtime(loc) EXCEPT !.sod = 0]) = mid - Off
          BY <1>1, Midnight, Zenon
        <4> QED
          BY <2>2, <2>3, <3>2, <4>1, <4>2, Zenon
      <3> QED
        BY <3>1, <3>2, <1>10, Zenon DEF Dated
    <2> QED
      BY <1>4, <2>1, <2>4, Zenon
  <1>11. CASE a = "date" /\ out \in Dated
    <2>1. Shows(out, sh1, k, loc)
      BY <1>6, <1>11, Zenon DEF TimeTypes, Dated
    <2>2. mid = loc
      BY <1>1, <1>11, AtMidnight, Zenon DEF Shows
    <2>3. DateTimeCast(v, out) = Made(out, Utc(out, loc), v)
      <3>1. CASE out = "timestamp"
        BY <1>1, <1>2, <1>3, <2>2, <1>11, <3>1, CastMakes, Midnight, Zenon
      <3>2. CASE out = "timestamptz"
        BY <1>1, <1>2, <1>3, <2>2, <1>11, <3>2, CastMakes, Midnight, Zenon
      <3> QED
        BY <3>1, <3>2, <1>11, Zenon DEF Dated
    <2> QED
      BY <1>4, <2>1, <2>3, Zenon
  <1>12. CASE out = "timestamp" /\ a = "timestamptz"
    <2>1. Shows(out, sh1, k, loc)
      BY <1>6, <1>12, Zenon DEF TimeTypes
    <2>2. DateTimeCast(v, out) = Made(out, Utc(out, loc), v)
      BY <1>1, <1>2, <1>3, <1>12, CastMakes, Midnight, Zenon
    <2> QED
      BY <1>4, <2>1, <2>2, Zenon
  <1>13. CASE out = "timetz" /\ a = "time"
    <2>1. Shows(out, sh1, k, loc)
      BY <1>6, <1>13, Zenon DEF TimeTypes
    <2>2. DateTimeCast(v, out) = Made(out, Utc(out, loc), v)
      BY <1>1, <1>2, <1>3, <1>13, CastMakes, Midnight, Zenon
    <2> QED
      BY <1>4, <2>1, <2>2, Zenon
  <1>14. CASE out = "timestamptz" /\ a = "timestamp"
    <2>1. Shows(out, sh1, k, loc)
      BY <1>6, <1>14, Zenon DEF TimeTypes
    <2>2. DateTimeCast(v, out) = Made(out, Utc(out, loc), v)
      BY <1>1, <1>2, <1>3, <1>14, CastMakes, Midnight, Zenon
    <2> QED
      BY <1>4, <2>1, <2>2, Zenon
  <1> QED
    BY <1>1, <1>7, <1>8, <1>9, <1>10, <1>11, <1>12, <1>13, <1>14, CastKinds, Zenon DEF Dated

-----------------------------------------------------------------------------
\* What an operation may come to: a value that shows what it should, or an
\* error when that is outside the range of dates.
Outcome(v, sh, k) ==
    IF v = Error THEN sh.day \notin MinDay + 1 .. MaxDay - 1 ELSE \E loc : LocMeant(v, sh, k, loc)

LEMMA MeantOutcome ==
    ASSUME NEW v, NEW sh, NEW k, NEW loc, LocMeant(v, sh, k, loc)
    PROVE  Outcome(v, sh, k)
  <1>1. v.type \in Type
    BY Zenon DEF LocMeant, Shows
  <1>2. v # Error
    BY <1>1, SMT DEF Error, Type, Zoned
  <1> QED
    BY <1>2, Zenon DEF Outcome

\* ydboctoZutC(): a Unix time shows its day and time in UTC.
ZutShown(type, text) ==
    IF type = "date" THEN [Fields(utc_mktime(text), 0) EXCEPT !.sod = 0]
    ELSE Fields(utc_mktime(text), text.micro)
LEMMA FieldsAre ==
    ASSUME NEW sec \in Int, NEW micro \in 0 .. (Base - 1)
    PROVE  /\ Fields(sec, micro) \in Shown /\ Fields(sec, micro).day = sec \div DaySecs
           /\ Fields(sec, micro).sod = sec % DaySecs /\ Fields(sec, micro).micro = micro
  <1>1. sec \div DaySecs \in Int /\ sec % DaySecs \in 0 .. (DaySecs - 1)
    BY BrokenDown, Zenon
  <1> QED
    BY <1>1, Zenon DEF Shown, Fields

LEMMA MidnightFields ==
    ASSUME NEW f \in Shown
    PROVE  /\ [f EXCEPT !.sod = 0] \in Shown /\ [f EXCEPT !.sod = 0].day = f.day
           /\ [f EXCEPT !.sod = 0].sod = 0 /\ [f EXCEPT !.sod = 0].micro = f.micro
  BY MicroZero, Zenon DEF Shown

LEMMA ZutMeant ==
    ASSUME NEW type \in {"date", "timestamp"}, NEW text \in Texts, OneOp
    PROVE  Outcome(Zut(type, utc_mktime(text), text.micro), ZutShown(type, text), 1)
  <1> DEFINE sec == utc_mktime(text)
             mid == ((sec \div DaySecs) * DaySecs) + 0
             sh == ZutShown(type, text)
  <1>1. text.day \in MinDay .. MaxDay /\ text.sod \in 0 .. DaySecs /\ text.micro \in 0 .. (Base - 1)
    BY LiteralAssumption, SMT
  <1>2. sec \in Int /\ DateLoc(sec)
    <2>1. text.day \in Int /\ text.sod \in Int /\ -(2 * DaySecs) <= text.sod /\ text.sod <= 3 * DaySecs
      BY <1>1, Constants, SMT
    <2> QED
      BY <1>1, <2>1, NearDay, NearDate, Zenon DEF utc_mktime
  <1>3. type \in Type /\ type \notin TimeTypes /\ \A l : Utc(type, l) = l
    BY Zenon DEF Type, TimeTypes, Utc, Zoned
  <1> HIDE DEF sec, sh
  <1>4. CASE type = "timestamp"
    <2>1. sh = Fields(sec, text.micro)
      BY <1>4, Zenon DEF sh, sec, ZutShown
    <2>2. Shows(type, sh, 1, sec) /\ sh.micro = text.micro
      BY <1>1, <1>2, <1>3, <1>4, <2>1, FieldsAre, Zenon DEF Shows
    <2>3. Zut(type, sec, text.micro) = [type |-> type, int |-> add_micro_seconds(Utc(type, sec), sh.micro)]
      BY <1>3, <1>4, <2>2, Zenon DEF Zut
    <2> QED
      BY <2>2, <2>3, Built, MeantOutcome, Zenon DEF OneOp, sec, sh
  <1>5. CASE type = "date"
    <2>1. sh = [Fields(sec, 0) EXCEPT !.sod = 0]
      BY <1>5, Zenon DEF sh, sec, ZutShown
    <2>2. sh.day = sec \div DaySecs /\ sh.sod = 0 /\ sh.micro = 0
      BY <1>2, <2>1, FieldsAre, MidnightFields, MicroZero, ZenonT(40)
    <2>3. Shows(type, sh, 1, mid)
      BY <1>2, <1>3, <2>2, AtMidnight, MicroZero, Zenon DEF Shows
    <2>4. utc_mktime([gmtime(sec) EXCEPT !.sod = 0]) = mid
      BY <1>2, Midnight, Zenon
    <2>5. Zut(type, sec, text.micro) = [type |-> type, int |-> add_micro_seconds(Utc(type, mid), sh.micro)]
      BY <1>3, <1>5, <2>2, <2>4, Zenon DEF Zut
    <2> QED
      BY <2>3, <2>5, Built, MeantOutcome, Zenon DEF OneOp, sec, sh
  <1> QED
    BY <1>4, <1>5, Zenon

-----------------------------------------------------------------------------
\* The arithmetic of a sum: d seconds are added to the local seconds loc.
LEMMA SumSod ==
    ASSUME NEW loc \in Int, NEW d \in Int, NEW day \in Int
    PROVE  ((day * DaySecs) + ((loc % DaySecs) + d)) % DaySecs = (loc + d) % DaySecs
  BY SMT DEF DaySecs

LEMMA SumTime ==
    ASSUME NEW loc \in Int, NEW d \in Int, -DaySecs <= d, d <= DaySecs, NEW k \in 0 .. MaxOps,
           k + 1 \in 0 .. MaxOps, TimeLoc(loc, k)
    PROVE  TimeLoc(loc + d, k + 1) /\ DaySecs * MinDay <= (loc + d) - Off /\ (loc + d) - Off < DaySecs * (MaxDay + 1)
  <1>1. Day0 \in Int /\ MaxOps \in Nat /\ MinDay \in Int /\ MaxDay \in Int /\ Off \in Int
        /\ MinDay + MaxOps + 4 <= Day0 /\ Day0 + MaxOps + 4 <= MaxDay
    BY RangeAssumption, Zenon
  <1>2. -DaySecs < Off /\ Off < DaySecs
    BY Constants, Zenon
  <1> QED
    BY <1>1, <1>2, SMT DEF TimeLoc, DaySecs

LEMMA SumDate ==
    ASSUME NEW l \in Int, NEW z \in Int, -DaySecs < z, z < DaySecs
    PROVE  /\ DaySecs * MinDay <= l - z /\ l - z < DaySecs * (MaxDay + 1) => DateLoc(l)
           /\ ~(DaySecs * MinDay <= l - z /\ l - z < DaySecs * (MaxDay + 1)) =>
                l \div DaySecs \notin MinDay + 1 .. MaxDay - 1
  <1>1. MinDay \in Int /\ MaxDay \in Int
    BY Constants, Zenon
  <1> QED
    BY <1>1, SMT DEF DateLoc, DaySecs

\* What a sum should show, a time on any day.
SumShown(type, sh, l, m) ==
    sh.sod = l % DaySecs /\ sh.micro = m /\ (type \notin TimeTypes => sh.day = l \div DaySecs)

LEMMA SumTypes ==
    ASSUME NEW a, NEW b, <<a, b>> \in Sums
    PROVE  LET t == sum_type(a, b)
           IN  /\ t \in Type /\ t # "date" /\ (t \in TimeTypes <=> a \in TimeTypes)
               /\ (t \in TimeTypes => t \in Zoned) /\ (t \in Zoned <=> a \in Zoned \/ b \in Zoned)
               /\ b \in TimeTypes /\ (b = "time" \/ a = "date" \/ a \in TimeTypes)
  <1>1. \/ a \in {"date", "timestamp", "timestamptz", "timetz"} /\ b = "time"
        \/ a \in {"date", "time"} /\ b = "timetz"
    BY SMTT(30) DEF Sums
  <1> QED
    BY <1>1, SMTT(30) DEF sum_type, Type, TimeTypes, Zoned

\* What ydboctoAddDateTimeC() and ydboctoSubDateTimeC() return when they have
\* the right seconds and microseconds.
LEMMA SumMeant ==
    ASSUME NEW v, NEW sh, NEW k \in 0 .. MaxOps, k + 1 \in 0 .. MaxOps,
           NEW loc, LocMeant(v, sh, k, loc), NEW b, <<v.type, b>> \in Sums,
           NEW d \in Int, -DaySecs <= d, d <= DaySecs, NEW m \in 0 .. (Base - 1),
           NEW sh1, SumShown(v.type, sh1, loc + d, m)
    PROVE  Outcome(checked(sum_type(v.type, b), Enc(Utc(sum_type(v.type, b), loc + d), m)), sh1, k + 1)
  <1> DEFINE t == sum_type(v.type, b)
             l == loc + d
             u == Utc(t, l)
             z == IF t \in Zoned THEN Off ELSE 0
  <1>1. /\ Shows(v.type, sh, k, loc) /\ loc \in Int /\ v.type \in Type
        /\ v.type \in TimeTypes => TimeLoc(loc, k)
    BY Zenon DEF LocMeant, Shows
  <1>2. t \in Type /\ t # "date" /\ (t \in TimeTypes <=> v.type \in TimeTypes) /\ (t \in TimeTypes => t \in Zoned)
    BY SumTypes, Zenon
  <1>3. l \in Int /\ z \in Int /\ -DaySecs < z /\ z < DaySecs /\ u = l - z /\ u \in Int
    <2>1. Off \in Int /\ -DaySecs < Off /\ Off < DaySecs
      BY Constants, Zenon
    <2> QED
      BY <1>1, <2>1, SMT DEF Utc, DaySecs
  <1>7. sh1.sod = l % DaySecs /\ sh1.micro = m /\ (v.type \notin TimeTypes => sh1.day = l \div DaySecs)
    BY Zenon DEF SumShown
  <1> HIDE DEF t, l, u, z
  <1>8. \/ checked(t, Enc(u, m)) = [type |-> t, int |-> Enc(u, m)]
              /\ DaySecs * MinDay <= u /\ u < DaySecs * (MaxDay + 1)
        \/ checked(t, Enc(u, m)) = Error
              /\ ~(DaySecs * MinDay <= u /\ u < DaySecs * (MaxDay + 1))
    BY <1>3, RangeChecked, Zenon
  <1>9. t \in TimeTypes => TimeLoc(l, k + 1) /\ DaySecs * MinDay <= u /\ u < DaySecs * (MaxDay + 1)
    BY <1>1, <1>2, <1>3, SumTime, Zenon DEF l, z
  <1>10. CASE DaySecs * MinDay <= u /\ u < DaySecs * (MaxDay + 1)
    <2>1. Shows(t, sh1, k + 1, l)
      BY <1>2, <1>3, <1>7, <1>9, <1>10, SumDate, Zenon DEF Shows
    <2>2. LocMeant([type |-> t, int |-> Enc(u, m)], sh1, k + 1, l)
      BY <1>7, <2>1, Zenon DEF LocMeant, u
    <2> QED
      BY <1>8, <1>10, <2>2, MeantOutcome, Zenon DEF t, l, u
  <1>11. CASE ~(DaySecs * MinDay <= u /\ u < DaySecs * (MaxDay + 1))
    <2>1. l \div DaySecs \notin MinDay + 1 .. MaxDay - 1
      BY <1>3, <1>11, SumDate, Zenon
    <2>2. v.type \notin TimeTypes
      BY <1>2, <1>9, <1>11, Zenon
    <2>3. checked(t, Enc(u, m)) = Error /\ sh1.day \notin MinDay + 1 .. MaxDay - 1
      BY <1>7, <1>8, <1>11, <2>1, <2>2, Zenon
    <2> QED
      BY <2>3, Zenon DEF Outcome, t, l, u
  <1> QED
    BY <1>10, <1>11, Zenon

LEMMA SodInt == \A s \in 0 .. (DaySecs - 1) : s \in Int /\ s >= 0 /\ s < DaySecs
  <1>1. DaySecs \in Nat \ {0}
    BY Constants, Zenon
  <1> QED
    BY <1>1, SMT

LEMMA SodOk ==
    ASSUME NEW x \in Int, x >= 0, x < DaySecs
    PROVE  LET s == (Day0 * DaySecs) + x IN s \in Int /\ SecOk(s) /\ s % DaySecs = x /\ s - 0 = s
  <1>1. /\ MinDay \in Int /\ MaxDay \in Int /\ Day0 \in Int /\ MaxOps \in Nat
        /\ MinDay + MaxOps + 4 <= Day0 /\ Day0 + MaxOps + 4 <= MaxDay
    BY RangeAssumption, Zenon
  <1> QED
    BY <1>1, SMT DEF SecOk, DaySecs

\* A time that is added or subtracted is read back as it was given.
LEMMA TimeRead ==
    ASSUME NEW t \in Times
    PROVE  /\ t.sod \in 0 .. (DaySecs - 1) /\ t.micro \in 0 .. (Base - 1)
           /\ TimeValue("time", t).type = "time"
           /\ tm_of(TimeValue("time", t)).sod = t.sod /\ micro_of(TimeValue("time", t).int) = t.micro
  <1> DEFINE s == (Day0 * DaySecs) + t.sod
             v == TimeValue("time", t)
  <1>1. t.sod \in 0 .. (DaySecs - 1) /\ t.micro \in 0 .. (Base - 1)
    BY TextParts, Zenon
  <1>2. s \in Int /\ SecOk(s) /\ s % DaySecs = t.sod /\ s - 0 = s
    BY <1>1, SodInt, SodOk, Zenon
  <1>3. v.type = "time" /\ v.int = add_micro_seconds(s - 0, t.micro)
    BY Zenon DEF TimeValue, Text2Internal, utc_mktime, Zoned
  <1> HIDE DEF s, v
  <1>4. v.int = Enc(s, t.micro)
    BY <1>1, <1>2, <1>3, MicroInt, AddMicro, Zenon
  <1>5. seconds_of(v.int) = s /\ micro_of(v.int) = t.micro
    BY <1>1, <1>2, <1>4, Decode, Zenon
  <1>6. tm_of(v) = gmtime(s)
    BY <1>3, <1>5, Zenon DEF tm_of, Zoned
  <1>7. gmtime(s).sod = s % DaySecs
    BY Zenon DEF gmtime
  <1> QED
    BY <1>1, <1>2, <1>3, <1>5, <1>6, <1>7, Zenon DEF v

\* The carry of the microseconds.
CarryOf(a) == IF a >= Base THEN 1 ELSE 0
LEMMA Carry ==
    ASSUME NEW a \in 0 .. (Base - 1), NEW b \in 0 .. (Base - 1)
    PROVE  /\ CarryOf(a + b) \in 0 .. 1 /\ (a + b) - (CarryOf(a + b) * Base) \in 0 .. (Base - 1)
           /\ (a + b) \div Base = CarryOf(a + b)
           /\ (a + b) % Base = (a + b) - (CarryOf(a + b) * Base)
  <1> DEFINE c == CarryOf(a + b)
             m == (a + b) - (c * Base)
  <1>1. c \in 0 .. 1 /\ c \in Int /\ m \in 0 .. (Base - 1) /\ a + b = (c * Base) + m
    BY BaseNat, SMT DEF CarryOf
  <1> HIDE DEF c, m
  <1>2. ((c * Base) + m) \div Base = c /\ ((c * Base) + m) % Base = m
    BY <1>1, BaseNat, DivUnique, Zenon
  <1> QED
    BY <1>1, <1>2, Zenon DEF c, m

\* And the borrow: no difference is below -Base.
BorrowOf(a) == IF a < 0 THEN 1 ELSE 0
LEMMA Borrow ==
    ASSUME NEW a \in 0 .. (Base - 1), NEW b \in 0 .. (Base - 1)
    PROVE  /\ BorrowOf(a - b) \in 0 .. 1 /\ (a - b) + (BorrowOf(a - b) * Base) \in 0 .. (Base - 1)
           /\ (a - b) \div Base = -BorrowOf(a - b)
           /\ (a - b) % Base = (a - b) + (BorrowOf(a - b) * Base)
           /\ a - b \in Int /\ -Base < a - b /\ a - b < Base
  <1> DEFINE c == BorrowOf(a - b)
             m == (a - b) + (c * Base)
  <1>1. /\ c \in 0 .. 1 /\ -c \in Int /\ m \in 0 .. (Base - 1) /\ a - b = ((-c) * Base) + m
        /\ a - b \in Int /\ -Base < a - b /\ a - b < Base
    BY BaseNat, SMT DEF BorrowOf
  <1> HIDE DEF c, m
  <1>2. (((-c) * Base) + m) \div Base = -c /\ (((-c) * Base) + m) % Base = m
    BY <1>1, BaseNat, DivUnique, Zenon
  <1> QED
    BY <1>1, <1>2, Zenon DEF c, m

LEMMA LocalSeconds ==
    ASSUME NEW v, NEW sh, NEW k \in 0 .. MaxOps, NEW loc, LocMeant(v, sh, k, loc)
    PROVE  micro_of(v.int) = sh.micro /\ utc_mktime(tm_of(v)) = loc
  <1>1. micro_of(v.int) = sh.micro /\ tm_of(v) = gmtime(loc)
    BY ReadBack, Zenon
  <1>2. loc \in Int
    BY Zenon DEF LocMeant, Shows
  <1>3. utc_mktime(gmtime(loc)) = loc
    BY <1>2, Midnight, Zenon
  <1> QED
    BY <1>1, <1>3, Zenon

LEMMA SumUtc ==
    ASSUME NEW v, NEW w, <<v.type, w.type>> \in Sums, NEW l
    PROVE  back_to_utc(v, w, l) = Utc(sum_type(v.type, w.type), l)
  BY SumTypes, Zenon DEF back_to_utc, Utc

\* The seconds of a sum fit.
LEMMA SumOk ==
    ASSUME NEW v, NEW sh, NEW k \in 0 .. MaxOps, NEW loc, LocMeant(v, sh, k, loc),
           NEW d \in Int, -DaySecs <= d, d <= DaySecs, NEW t
    PROVE  SecOk(Utc(t, loc + d)) /\ Utc(t, loc + d) \in Int
  <1> DEFINE e == IF t \in Zoned THEN -Off ELSE 0
  <1>1. loc \in Int /\ (TimeLoc(loc, k) \/ DateLoc(loc))
    BY Zenon DEF LocMeant, Shows
  <1>2. e \in Int /\ -DaySecs <= e /\ e <= DaySecs /\ Utc(t, loc + d) = loc + d + e
    <2>1. Off \in Int /\ -DaySecs < Off /\ Off < DaySecs
      BY Constants, Zenon
    <2> QED
      BY <1>1, <2>1, SMT DEF Utc, DaySecs
  <1> HIDE DEF e
  <1>3. SecOk(loc + d + e)
    BY <1>1, <1>2, LocOk, Zenon
  <1> QED
    BY <1>2, <1>3, Zenon DEF SecOk

\* ydboctoAddDateTimeC() with a time, which is the second operand b.
LEMMA AddTimeMeant ==
    ASSUME NEW k \in 0 .. MaxOps, k + 1 \in 0 .. MaxOps, NEW j \in 0 .. MaxOps,
           NEW a, NEW sa, NEW la, LocMeant(a, sa, k, la),
           NEW b, NEW sb, NEW lb, LocMeant(b, sb, j, lb), <<a.type, b.type>> \in Sums,
           NEW c, c = CarryOf(sa.micro + sb.micro), NEW sh1,
           SumShown(a.type, sh1, la + ((lb % DaySecs) + c), (sa.micro + sb.micro) - (c * Base))
    PROVE  Outcome(AddTime(a, b), sh1, k + 1)
  <1> DEFINE s == lb % DaySecs
             m == (sa.micro + sb.micro) - (c * Base)
             d == s + c
             t == sum_type(a.type, b.type)
             u == Utc(t, la + d)
  <1>1. la \in Int /\ lb \in Int /\ sa.micro \in 0 .. (Base - 1) /\ sb.micro \in 0 .. (Base - 1)
    BY Zenon DEF LocMeant, Shows
  <1>2. micro_of(a.int) = sa.micro /\ micro_of(b.int) = sb.micro /\ utc_mktime(tm_of(a)) = la
    BY LocalSeconds, Zenon
  <1>3. tm_of(b).sod = s
    <2>1. tm_of(b) = gmtime(lb)
      BY ReadBack, Zenon
    <2>2. gmtime(lb).sod = lb % DaySecs
      BY Zenon DEF gmtime
    <2> QED
      BY <2>1, <2>2, Zenon
  <1>4. c \in 0 .. 1 /\ m \in 0 .. (Base - 1)
    BY <1>1, Carry, Zenon
  <1>5. s \in Int /\ s >= 0 /\ s < DaySecs
    BY <1>1, BrokenDown, SodInt, Zenon
  <1> HIDE DEF s
  <1>6. d \in Int /\ -DaySecs <= d /\ d <= DaySecs /\ la + s + c = la + d
    <2>1. DaySecs \in Nat \ {0}
      BY Constants, Zenon
    <2> QED
      BY <1>1, <1>4, <1>5, <2>1, SMTT(30)
  <1>7. AddTime(a, b) = checked(t, add_micro_seconds(back_to_utc(a, b, la + d), m))
    BY <1>2, <1>3, <1>6, Zenon DEF AddTime, CarryOf
  <1>8. back_to_utc(a, b, la + d) = u
    BY SumUtc, Zenon
  <1> HIDE DEF d, m
  <1>9. add_micro_seconds(u, m) = Enc(u, m)
    BY <1>4, <1>6, SumOk, MicroInt, AddMicro, Zenon
  <1>10. SumShown(a.type, sh1, la + d, m)
    BY Zenon DEF d, m, s
  <1>11. Outcome(checked(t, Enc(u, m)), sh1, k + 1)
    BY <1>4, <1>6, <1>10, SumMeant, Zenon
  <1> QED
    BY <1>7, <1>8, <1>9, <1>11, Zenon

\* What is shown after d more seconds.
LEMMA FieldsSum ==
    ASSUME NEW v, NEW sh \in Shown, NEW k, NEW loc, LocMeant(v, sh, k, loc),
           NEW d \in Int, NEW m \in 0 .. (Base - 1)
    PROVE  SumShown(v.type, Fields(utc_mktime(sh) + d, m), loc + d, m)
  <1> DEFINE l == loc + d
             sh1 == Fields(utc_mktime(sh) + d, m)
  <1>1. loc \in Int /\ sh.sod = loc % DaySecs /\ (v.type \notin TimeTypes => sh.day = loc \div DaySecs)
    BY Zenon DEF LocMeant, Shows
  <1>2. sh.day \in Int /\ sh.sod \in Int
    BY SodInt, Zenon DEF Shown
  <1>3. utc_mktime(sh) + d = (sh.day * DaySecs) + ((loc % DaySecs) + d) /\ utc_mktime(sh) + d \in Int
    BY <1>1, <1>2, SMTT(30) DEF utc_mktime, DaySecs
  <1>4. v.type \notin TimeTypes => utc_mktime(sh) + d = l
    BY <1>1, BrokenDown, Zenon DEF utc_mktime
  <1>5. /\ sh1.sod = (utc_mktime(sh) + d) % DaySecs /\ sh1.micro = m
        /\ sh1.day = (utc_mktime(sh) + d) \div DaySecs
    BY <1>3, FieldsAre, Zenon
  <1>6. ((sh.day * DaySecs) + ((loc % DaySecs) + d)) % DaySecs = l % DaySecs
    BY <1>1, <1>2, SumSod, Zenon
  <1>7. sh1.sod = l % DaySecs
    BY <1>3, <1>5, <1>6, Zenon
  <1> HIDE DEF l, sh1
  <1>8. v.type \notin TimeTypes => sh1.day = l \div DaySecs
    BY <1>4, <1>5, Zenon
  <1> QED
    BY <1>5, <1>7, <1>8, Zenon DEF SumShown, l, sh1

\* A time literal that is added, in local time.
PlusSod(type, t) == t.sod + (IF type = "timetz" /\ t.zone # NoZone THEN Off - TrueOffset(t.zone) ELSE 0)
PlusShown(sh, type, t) ==
    Fields(utc_mktime(sh) + PlusSod(type, t) + ((sh.micro + t.micro) \div Base), (sh.micro + t.micro) % Base)
PlusExact(a, type, t) ==
    /\ type = "timetz" => sign_kept(t.zone)
    /\ a = "date" => PlusSod(type, t) \in 0 .. (DaySecs - 1)

LEMMA PlusInt ==
    ASSUME NEW t \in Times, NEW type
    PROVE  PlusSod(type, t) \in Int /\ (type = "time" => PlusSod(type, t) = t.sod)
  <1>1. t.sod \in Int /\ TrueOffset(t.zone) \in Int /\ Off \in Int
    BY TextParts, SodInt, ZoneRead, Constants, Zenon
  <1> QED
    BY <1>1, SMTT(30) DEF PlusSod

LEMMA PlusParts ==
    ASSUME NEW type \in {"time", "timetz"}, NEW t \in Times, PlusTime(type, t)
    PROVE  /\ InExpression /\ <<val.type, type>> \in Sums /\ val' \in sums_of(val, TimeValue(type, t))
           /\ shown' = PlusShown(shown, type, t)
           /\ exact' => exact /\ PlusExact(val.type, type, t)
  <1>1. t.zone = NoZone => sign_kept(t.zone)
    BY SMTT(30) DEF sign_kept, NoZone
  <1> QED
    BY <1>1, Zenon DEF PlusTime, PlusShown, PlusSod, PlusExact

LEMMA TimeLiteralMeant ==
    ASSUME NEW type \in {"time", "timetz"}, NEW t \in Times, type = "timetz" => sign_kept(t.zone)
    PROVE  \E loc, sh : /\ LocMeant(TimeValue(type, t), sh, 1, loc) /\ sh.micro = t.micro
                        /\ loc % DaySecs = PlusSod(type, t) % DaySecs
  <1> DEFINE text == PlusText(t)
             sh == LiteralShown(type, text)
             x == PlusSod(type, t)
  <1>1. type \in Type /\ LiteralParts(text) /\ type # "date" /\ (type \in Zoned <=> type = "timetz")
    BY TextParts, Zenon DEF Type, Zoned
  <1>2. text.zone = t.zone /\ text.day = Day0 /\ text.sod = t.sod /\ text.micro = t.micro
    BY Zenon DEF PlusText
  <1>3. TimeValue(type, t) = [type |-> type, int |-> Text2Internal(type, text)]
    BY Zenon DEF TimeValue, PlusText
  <1> HIDE DEF text
  <1>4. ZoneKept(type, text)
    BY <1>1, <1>2, Zenon DEF ZoneKept
  <1>5. PICK loc : LocMeant(TimeValue(type, t), sh, 1, loc)
    BY <1>1, <1>3, <1>4, HasOp, LiteralMeant, Zenon
  <1>6. x \in Int /\ t.sod \in Int /\ Day0 \in Int /\ t.micro \in 0 .. (Base - 1)
    BY PlusInt, TextParts, SodInt, Constants, Zenon
  <1>7. Shift(type, text) = IF type = "timetz" /\ t.zone # NoZone THEN Off - TrueOffset(t.zone) ELSE 0
    BY <1>1, <1>2, Zenon DEF Shift
  <1>8. utc_mktime(text) + Shift(type, text) = (Day0 * DaySecs) + x
    <2> DEFINE f == Shift(type, text)
    <2>1. x = t.sod + f
      BY <1>7, Zenon DEF PlusSod
    <2>2. f \in Int
      <3>1. Off \in Int /\ TrueOffset(t.zone) \in Int
        BY TextParts, ZoneRead, Constants, Zenon
      <3> QED
        BY <1>7, <3>1, SMTT(30)
    <2>3. utc_mktime(text) = (Day0 * DaySecs) + t.sod
      BY <1>2, Zenon DEF utc_mktime
    <2> HIDE DEF f, x
    <2>4. ((Day0 * DaySecs) + t.sod) + f = (Day0 * DaySecs) + (t.sod + f)
      BY <1>6, <2>2, SMTT(30) DEF DaySecs
    <2> QED
      BY <2>1, <2>3, <2>4, Zenon DEF f
  <1> HIDE DEF x
  <1>9. /\ (Day0 * DaySecs) + x \in Int /\ ((Day0 * DaySecs) + x) % DaySecs = x % DaySecs
    BY <1>6, WholeDays, Zenon
  <1>10. sh.sod = x % DaySecs /\ sh.micro = t.micro
    <2>1. sh = Fields((Day0 * DaySecs) + x, t.micro)
      BY <1>1, <1>2, <1>8, Zenon DEF LiteralShown
    <2> HIDE DEF sh
    <2>2. sh.sod = ((Day0 * DaySecs) + x) % DaySecs /\ sh.micro = t.micro
      BY <1>6, <1>9, <2>1, FieldsAre, Zenon
    <2> QED
      BY <1>9, <2>2, Zenon
  <1>11. sh.sod = loc % DaySecs
    BY <1>5, Zenon DEF LocMeant, Shows
  <1> QED
    BY <1>5, <1>10, <1>11, Zenon DEF x

LEMMA SmallSod ==
    ASSUME NEW p \in Int, p >= 0, p < DaySecs
    PROVE  p % DaySecs = p
  BY SMTT(30) DEF DaySecs

\* A value meant after one operation is meant after more.
LEMMA LiteralLater ==
    ASSUME NEW v, NEW sh, NEW loc, LocMeant(v, sh, 1, loc), NEW k \in 0 .. MaxOps, k > 0
    PROVE  LocMeant(v, sh, k, loc)
  <1>1. Shows(v.type, sh, 1, loc) /\ loc \in Int
    BY Zenon DEF LocMeant, Shows
  <1>2. TimeLoc(loc, 1) => TimeLoc(loc, k)
    <2>1. Day0 \in Int /\ MaxOps \in Nat
      BY Constants, Zenon
    <2> QED
      BY <1>1, <2>1, SMTT(30) DEF TimeLoc, DaySecs
  <1>3. Shows(v.type, sh, k, loc)
    BY <1>1, <1>2, Zenon DEF Shows
  <1> QED
    BY <1>3, Zenon DEF LocMeant

\* A sum with a time literal shows what it should, in the order of the code.
LEMMA PlusMeant ==
    ASSUME NEW v, NEW sh \in Shown, NEW k \in 0 .. MaxOps, k + 1 \in 0 .. MaxOps, k > 0,
           NEW la, LocMeant(v, sh, k, la), NEW type \in {"time", "timetz"}, NEW t \in Times,
           <<v.type, type>> \in Sums, PlusExact(v.type, type, t),
           NEW r \in sums_of(v, TimeValue(type, t))
    PROVE  Outcome(r, PlusShown(sh, type, t), k + 1)
  <1> DEFINE w == TimeValue(type, t)
             p == PlusSod(type, t)
             x == sh.micro + t.micro
             c == CarryOf(x)
             m == x - (c * Base)
             sh1 == PlusShown(sh, type, t)
  <1>1. w.type = type
    BY Zenon DEF TimeValue
  <1>2. PICK lb, sb : LocMeant(w, sb, 1, lb) /\ sb.micro = t.micro /\ lb % DaySecs = p % DaySecs
    BY TimeLiteralMeant, Zenon DEF PlusExact
  <1>3. /\ la \in Int /\ lb \in Int /\ sh.micro \in 0 .. (Base - 1) /\ t.micro \in 0 .. (Base - 1)
        /\ sh.sod = la % DaySecs /\ (v.type \notin TimeTypes => sh.day = la \div DaySecs)
    BY <1>2, Zenon DEF LocMeant, Shows
  <1>4. p \in Int /\ (type = "time" => p = t.sod) /\ t.sod \in 0 .. (DaySecs - 1)
    BY PlusInt, TextParts, Zenon
  <1>5. c \in 0 .. 1 /\ m \in 0 .. (Base - 1) /\ x \div Base = c /\ x % Base = m
    BY <1>3, Carry, Zenon
  <1>6. sh.day \in Int /\ sh.sod \in Int
    BY SodInt, Zenon DEF Shown
  <1> HIDE DEF w, p, c, m, sh1
  <1>7. c \in Int /\ p + c \in Int /\ utc_mktime(sh) + p + c = utc_mktime(sh) + (p + c)
    <2>1. utc_mktime(sh) \in Int
      BY <1>6, SMTT(30) DEF utc_mktime, DaySecs
    <2> HIDE DEF x
    <2> QED
      BY <1>4, <1>5, <2>1, SMTT(30)
  <1>8. sh1 = Fields(utc_mktime(sh) + (p + c), m)
    BY <1>5, <1>7, Zenon DEF PlusShown, p, sh1
  <1>9. CASE v.type \notin TimeTypes
    <2>1. r = AddTime(v, w)
      BY <1>1, <1>9, Zenon DEF sums_of, TimeTypes, w
    <2>2. p % DaySecs = p
      <3>1. type = "time" \/ v.type = "date"
        BY <1>9, SumTypes, Zenon
      <3>2. p \in 0 .. (DaySecs - 1)
        BY <1>4, <3>1, Zenon DEF PlusExact, p
      <3> QED
        BY <3>2, SodInt, SmallSod, Zenon
    <2>3. SumShown(v.type, sh1, la + (p + c), m)
      BY <1>5, <1>7, <1>8, FieldsSum, Zenon
    <2>4. SumShown(v.type, sh1, la + ((lb % DaySecs) + c), m)
      BY <1>2, <2>2, <2>3, Zenon
    <2> QED
      BY <1>1, <1>2, <2>1, <2>4, HasOp, AddTimeMeant, Zenon DEF OneOp, c, m, sh1
  <1>10. CASE v.type \in TimeTypes
    <2> DEFINE l == (sh.day * DaySecs) + ((la % DaySecs) + (p + c))
    <2>1. l \in Int /\ utc_mktime(sh) + (p + c) = l
      BY <1>3, <1>6, <1>7, SMTT(30) DEF utc_mktime, DaySecs
    <2>2. /\ l % DaySecs = (la + ((lb % DaySecs) + c)) % DaySecs
          /\ l % DaySecs = (lb + ((la % DaySecs) + c)) % DaySecs
      <3>1. la \in Int /\ lb \in Int /\ p \in Int /\ c \in Int /\ sh.day \in Int /\ lb % DaySecs = p % DaySecs
        BY <1>2, <1>3, <1>4, <1>6, <1>7, Zenon
      <3> QED
        BY <3>1, SMTT(30) DEF DaySecs
    <2> HIDE DEF l
    <2>3. sh1.sod = l % DaySecs /\ sh1.micro = m
      <3>1. sh1 = Fields(l, m)
        BY <1>8, <2>1, Zenon
      <3> QED
        BY <1>5, <2>1, <3>1, FieldsAre, Zenon
    <2>4. SumShown(v.type, sh1, la + ((lb % DaySecs) + c), m)
      BY <1>10, <2>2, <2>3, Zenon DEF SumShown
    <2>5. CASE r = AddTime(v, w)
      BY <1>1, <1>2, <2>4, <2>5, HasOp, AddTimeMeant, Zenon DEF OneOp, c, m, sh1
    <2>6. CASE r # AddTime(v, w)
      <3>1. r = AddTime(w, v) /\ {v.type, type} = {"time", "timetz"}
        BY <1>1, <2>6, Zenon DEF sums_of, w
      <3>2. type \in TimeTypes /\ <<type, v.type>> \in Sums
        <4>1. (v.type = "time" /\ type = "timetz") \/ (v.type = "timetz" /\ type = "time")
          BY <3>1, Zenon
        <4> QED
          BY <4>1, SMTT(30) DEF Sums, TimeTypes
      <3>3. SumShown(type, sh1, lb + ((la % DaySecs) + c), m)
        BY <2>2, <2>3, <3>2, Zenon DEF SumShown
      <3>4. sb.micro + sh.micro = x
        BY <1>2, <1>3, MicroInt, SMTT(30)
      <3>5. LocMeant(w, sb, k, lb)
        BY <1>2, LiteralLater, Zenon
      <3>6. c = CarryOf(sb.micro + sh.micro) /\ m = (sb.micro + sh.micro) - (c * Base)
        BY <3>4, Zenon DEF c, m
      <3> HIDE DEF x
      <3> QED
        BY <1>1, <3>1, <3>2, <3>3, <3>5, <3>6, AddTimeMeant, Zenon DEF sh1
    <2> QED
      BY <2>5, <2>6, Zenon
  <1> QED
    BY <1>9, <1>10, Zenon

\* ydboctoSubDateTimeC(): the difference of the microseconds may be negative.
MinusShown(sh, t) == Fields((utc_mktime(sh) - t.sod) + ((sh.micro - t.micro) \div Base), (sh.micro - t.micro) % Base)
MinusExact(v, sh, t) ==
    ~(sh.micro - t.micro < 0 /\ back_to_utc(v, TimeValue("time", t), utc_mktime(tm_of(v)) - t.sod) <= 0)

LEMMA Borrowed ==
    ASSUME NEW u \in Int, u > 0, NEW x \in Int, x < 0, -Base < x
    PROVE  Enc(u, x) = Enc(u - 1, x + Base)
  <1>1. (u - 1) * Base = (u * Base) - Base /\ u * Base \in Int
    BY BaseNat, SMT
  <1> QED
    BY <1>1, BaseNat, SMT DEF Enc

LEMMA SubTimeMeant ==
    ASSUME NEW v, NEW sh \in Shown, NEW k \in 0 .. MaxOps, k + 1 \in 0 .. MaxOps,
           NEW loc, LocMeant(v, sh, k, loc), v.type # "time", NEW t \in Times,
           MinusExact(v, sh, t)
    PROVE  Outcome(SubTime(v, TimeValue("time", t)), MinusShown(sh, t), k + 1)
  <1> DEFINE x == sh.micro - t.micro
             c == BorrowOf(x)
             m == x + (c * Base)
             s == t.sod
             d == (-s) - c
             op2 == TimeValue("time", t)
             st == sum_type(v.type, "time")
             u == Utc(st, loc + d)
             w == Utc(st, loc + (-s))
  <1>1. loc \in Int /\ v.type \in Type /\ sh.micro \in 0 .. (Base - 1)
    BY Zenon DEF LocMeant, Shows
  <1>2. /\ s \in 0 .. (DaySecs - 1) /\ t.micro \in 0 .. (Base - 1)
        /\ op2.type = "time" /\ tm_of(op2).sod = s /\ micro_of(op2.int) = t.micro
    BY TimeRead, Zenon
  <1>3. micro_of(v.int) = sh.micro /\ utc_mktime(tm_of(v)) = loc
    BY LocalSeconds, Zenon
  <1>4. c \in 0 .. 1 /\ m \in 0 .. (Base - 1) /\ x \div Base = -c /\ x % Base = m
        /\ x \in Int /\ -Base < x /\ x < Base
    BY <1>1, <1>2, Borrow, Zenon
  <1>5. s \in Int /\ s >= 0 /\ s < DaySecs /\ utc_mktime(sh) \in Int
    <2>1. sh.day \in Int /\ sh.sod \in 0 .. (DaySecs - 1) /\ DaySecs \in Nat \ {0}
      BY Constants, Zenon DEF Shown
    <2>2. utc_mktime(sh) \in Int
      BY <2>1, SMT DEF utc_mktime
    <2> QED
      BY <1>2, <2>2, SodInt, Zenon
  <1>12. <<v.type, "time">> \in Sums
    BY <1>1, SMTT(30) DEF Sums, Type, Zoned
  <1> HIDE DEF x, c, m, s, op2, st
  <1>6. /\ d \in Int /\ -DaySecs <= d /\ d <= DaySecs
        /\ -s \in Int /\ -DaySecs <= -s /\ -s <= DaySecs
        /\ loc - s = loc + (-s) /\ (loc - s) - 0 = loc + (-s)
        /\ (utc_mktime(sh) - s) + (-c) = utc_mktime(sh) + d
        /\ c = 0 => d = -s
    <2>1. DaySecs \in Nat \ {0}
      BY Constants, Zenon
    <2> QED
      BY <1>1, <1>4, <1>5, <2>1, SMTT(30)
  <1>7. SubTime(v, op2) = checked(st, add_micro_seconds(w, x))
    <2>1. ~(x < -Base) /\ x + (0 * Base) = x
      BY <1>4, BaseNat, SMT
    <2>2. sum_type(v.type, op2.type) = st /\ <<v.type, op2.type>> \in Sums
      BY <1>2, <1>12, Zenon DEF st
    <2>3. back_to_utc(v, op2, loc + (-s)) = w
      BY <2>2, SumUtc, Zenon
    <2>4. micro_of(v.int) - micro_of(op2.int) = x
      BY <1>2, <1>3, Zenon DEF x
    <2>5. utc_mktime(tm_of(v)) - tm_of(op2).sod - 0 = loc + (-s)
      BY <1>2, <1>3, <1>6, Zenon
    <2> HIDE DEF w
    <2> QED
      BY <2>1, <2>2, <2>3, <2>4, <2>5, Zenon DEF SubTime
  <1>8. add_micro_seconds(w, x) = Enc(w, x) /\ w \in Int
    BY <1>4, <1>6, SumOk, AddMicro, Zenon
  <1>9. Enc(w, x) = Enc(u, m)
    <2>1. CASE x < 0
      <3>1. w > 0
        <4>1. back_to_utc(v, op2, utc_mktime(tm_of(v)) - t.sod) = w
          BY <1>1, <1>2, <1>3, <1>6, <1>12, SumUtc, Zenon DEF s, st
        <4>2. ~(w <= 0)
          BY <2>1, <4>1, Zenon DEF MinusExact, x, op2
        <4> HIDE DEF w
        <4> QED
          BY <1>8, <4>2, SMT
      <3>2. u = w - 1
        <4>1. Off \in Int /\ c = 1
          BY <2>1, Constants, Zenon DEF c, BorrowOf
        <4> QED
          BY <1>1, <1>5, <4>1, SMT DEF Utc
      <3>3. m = x + Base
        <4>1. c = 1
          BY <2>1, Zenon DEF c, BorrowOf
        <4> QED
          BY <1>4, <4>1, BaseNat, SMT DEF m
      <3> HIDE DEF u, w
      <3> QED
        BY <1>4, <1>8, <2>1, <3>1, <3>2, <3>3, Borrowed, Zenon
    <2>2. CASE ~(x < 0)
      <3>1. c = 0
        BY <2>2, Zenon DEF c, BorrowOf
      <3>2. m = x
        BY <1>4, <3>1, BaseNat, SMTT(30) DEF m
      <3> QED
        BY <1>6, <3>1, <3>2, Zenon
    <2> QED
      BY <2>1, <2>2, Zenon
  <1>10. MinusShown(sh, t) = Fields(utc_mktime(sh) + d, m)
    BY <1>4, <1>6, Zenon DEF MinusShown, x, s
  <1> HIDE DEF u, w, d
  <1>11. Outcome(checked(st, Enc(u, m)), Fields(utc_mktime(sh) + d, m), k + 1)
    BY <1>4, <1>6, <1>12, FieldsSum, SumMeant, Zenon DEF u, st
  <1> QED
    BY <1>7, <1>8, <1>9, <1>10, <1>11, Zenon DEF op2

\* ydboctoAddDateTimeC() and ydboctoSubDateC() with a number of days.
DaysShown(sh, n) == [sh EXCEPT !.day = @ + n]
DaysExact(sh, n) == n \in -IntMax - 1 .. IntMax => fits_long(utc_mktime(DaysShown(sh, n)))

LEMMA DaysNumbers ==
    ASSUME NEW loc \in Int, loc % DaySecs = 0, DateLoc(loc), NEW n \in Int
    PROVE  LET l == ((loc \div DaySecs) + n) * DaySecs
           IN  /\ l \in Int /\ l % DaySecs = 0 /\ l \div DaySecs = (loc \div DaySecs) + n
               /\ DaySecs * MinDay <= l /\ l < DaySecs * (MaxDay + 1) => DateLoc(l)
               /\ ~(DaySecs * MinDay <= l /\ l < DaySecs * (MaxDay + 1)) =>
                    (loc \div DaySecs) + n \notin MinDay + 1 .. MaxDay - 1
               /\ n > IntMax \/ n < -IntMax - 1 => (loc \div DaySecs) + n \notin MinDay + 1 .. MaxDay - 1
  <1>1. MinDay \in Int /\ MaxDay \in Int /\ IntMax \in Nat /\ MaxDay - MinDay + 4 <= IntMax
    BY RangeAssumption, Zenon
  <1> QED
    BY <1>1, SMT DEF DateLoc, DaySecs

LEMMA AddDaysMeant ==
    ASSUME NEW v, NEW sh \in Shown, NEW k \in 0 .. MaxOps, k + 1 \in 0 .. MaxOps,
           NEW loc, LocMeant(v, sh, k, loc), v.type = "date", NEW n \in Int, DaysExact(sh, n)
    PROVE  Outcome(AddDays(v, n), DaysShown(sh, n), k + 1)
  <1> DEFINE day == (loc \div DaySecs) + n
             l == day * DaySecs
             sh1 == DaysShown(sh, n)
  <1>1. /\ loc \in Int /\ loc % DaySecs = 0 /\ sh.sod = 0 /\ sh.micro = 0 /\ sh.day = loc \div DaySecs
        /\ DateLoc(loc) /\ Utc(v.type, loc) = loc
    BY Zenon DEF LocMeant, Shows, TimeTypes, Utc, Zoned
  <1>2. sh1.day = day /\ sh1.sod = 0 /\ sh1.micro = 0
    BY <1>1, Zenon DEF Shown, DaysShown
  <1>3. /\ l \in Int /\ l % DaySecs = 0 /\ l \div DaySecs = day
        /\ DaySecs * MinDay <= l /\ l < DaySecs * (MaxDay + 1) => DateLoc(l)
        /\ ~(DaySecs * MinDay <= l /\ l < DaySecs * (MaxDay + 1)) => day \notin MinDay + 1 .. MaxDay - 1
        /\ n > IntMax \/ n < -IntMax - 1 => day \notin MinDay + 1 .. MaxDay - 1
    BY <1>1, DaysNumbers, Zenon
  <1> HIDE DEF day, sh1
  <1>4. CASE n > IntMax \/ n < -IntMax - 1
    <2>1. AddDays(v, n) = Error
      BY <1>4, Zenon DEF AddDays
    <2> QED
      BY <1>2, <1>3, <1>4, <2>1, Zenon DEF Outcome, sh1
  <1>5. CASE ~(n > IntMax \/ n < -IntMax - 1)
    <2>1. utc_mktime([gmtime(loc) EXCEPT !.day = @ + n]) = l + 0
      <3>1. gmtime(loc) = [day |-> loc \div DaySecs, sod |-> 0]
        BY <1>1, BrokenDown, Zenon
      <3>2. [gmtime(loc) EXCEPT !.day = @ + n] = [day |-> day, sod |-> 0]
        <4>1. \A d : [[day |-> d, sod |-> 0] EXCEPT !.day = @ + n] = [day |-> d + n, sod |-> 0]
          BY SMT
        <4> QED
          BY <3>1, <4>1, Zenon DEF day
      <3> QED
        BY <3>2, Zenon DEF utc_mktime
    <2>2. AddDays(v, n) = checked("date", add_micro_seconds(l + 0, 0))
      BY <1>1, <1>5, <2>1, ReadBack, Zenon DEF AddDays
    <2> HIDE DEF l
    <2>3. l + 0 = l
      BY <1>3, SMT
    <2>4. add_micro_seconds(l, 0) = Enc(l, 0)
      <3>1. n \in -IntMax - 1 .. IntMax
        <4>1. IntMax \in Int
          BY Constants, Zenon
        <4> QED
          BY <1>5, <4>1, SMT
      <3>2. utc_mktime(sh1) = l + 0
        BY <1>2, Zenon DEF utc_mktime, l
      <3>3. -Word <= l * Base /\ l * Base < Word
        BY <2>3, <3>1, <3>2, Zenon DEF DaysExact, fits_long, sh1
      <3>4. l * Base \in Int /\ (l * Base) + (IF l < 0 THEN -0 ELSE 0) = l * Base
        BY <1>3, BaseNat, SMT
      <3> QED
        BY <3>3, <3>4, NoWrap, Zenon DEF add_micro_seconds, Enc
    <2>5. \/ AddDays(v, n) = [type |-> "date", int |-> Enc(l, 0)]
                /\ DaySecs * MinDay <= l /\ l < DaySecs * (MaxDay + 1)
          \/ AddDays(v, n) = Error /\ ~(DaySecs * MinDay <= l /\ l < DaySecs * (MaxDay + 1))
      BY <1>3, <2>2, <2>3, <2>4, MicroZero, RangeChecked, ZenonT(40)
    <2>6. CASE DaySecs * MinDay <= l /\ l < DaySecs * (MaxDay + 1)
      <3>1. Shows("date", sh1, k + 1, l) /\ Utc("date", l) = l
        BY <1>2, <1>3, <2>6, MicroZero, Zenon DEF Shows, Utc, Zoned, Type, TimeTypes
      <3>2. LocMeant([type |-> "date", int |-> Enc(l, 0)], sh1, k + 1, l)
        BY <1>2, <3>1, Zenon DEF LocMeant
      <3> QED
        BY <2>5, <2>6, <3>2, MeantOutcome, Zenon DEF sh1
    <2>7. CASE ~(DaySecs * MinDay <= l /\ l < DaySecs * (MaxDay + 1))
      BY <1>2, <1>3, <2>5, <2>7, Zenon DEF Outcome, sh1
    <2> QED
      BY <2>6, <2>7, Zenon
  <1> QED
    BY <1>4, <1>5, Zenon

-----------------------------------------------------------------------------
\* date - date: whole days are divided without a remainder.
LEMMA DayDivision ==
    ASSUME NEW a \in Int, NEW b \in Int
    PROVE  CDiv(CDiv(CDiv((a * DaySecs) - (b * DaySecs), 60), 60), 24) = a - b
  <1> DEFINE n == a - b
  <1>1. n \in Int /\ (a * DaySecs) - (b * DaySecs) = n * 86400
    BY SMT DEF DaySecs
  <1> HIDE DEF n
  <1>2. CDiv(n * 86400, 60) = n * 1440
    BY <1>1, SMT DEF CDiv
  <1>3. CDiv(n * 1440, 60) = n * 24
    BY <1>1, SMT DEF CDiv
  <1>4. CDiv(n * 24, 24) = n
    BY <1>1, SMT DEF CDiv
  <1> QED
    BY <1>1, <1>2, <1>3, <1>4, SMT DEF n

LEMMA DateLiteral ==
    ASSUME NEW other \in Texts
    PROVE  seconds_of(Text2Internal("date", other)) = other.day * DaySecs /\ other.day \in Int
           /\ other.day * DaySecs \in Int
  <1> DEFINE v == [type |-> "date", int |-> Text2Internal("date", other)]
             sh == LiteralShown("date", other)
  <1>1. "date" \in Type /\ ZoneKept("date", other) /\ "date" \notin TimeTypes
    BY Zenon DEF Type, ZoneKept, Zoned, TimeTypes
  <1>2. PICK loc : LocMeant(v, sh, 1, loc)
    BY <1>1, HasOp, TextParts, LiteralMeant, Zenon
  <1>3. /\ seconds_of(v.int) = Utc(v.type, loc)
        /\ Utc(v.type, loc) = loc
    BY <1>2, HasOp, ReadBack, Zenon DEF OneOp, Utc, Zoned
  <1>4. loc \in Int /\ sh.sod = 0 /\ loc % DaySecs = 0 /\ sh.day = loc \div DaySecs
    BY <1>1, <1>2, Zenon DEF LocMeant, Shows
  <1>5. other.day \in Int
    <2>1. other.day \in MinDay .. MaxDay
      BY LiteralAssumption, SMT
    <2>2. MinDay \in Int /\ MaxDay \in Int
      BY Constants, Zenon
    <2> QED
      BY <2>1, <2>2, SMT
  <1>6. sh.day = (other.day * DaySecs) \div DaySecs
    BY Zenon DEF LiteralShown, Fields
  <1>7. other.day * DaySecs \in Int /\ (other.day * DaySecs) \div DaySecs = other.day
    BY <1>5, SMT DEF DaySecs
  <1>8. loc = other.day * DaySecs
    <2>1. loc \div DaySecs = other.day
      BY <1>4, <1>6, <1>7, Zenon
    <2>2. loc = (other.day * DaySecs) + 0
      BY <1>4, <2>1, BrokenDown, Zenon
    <2> QED
      BY <1>7, <2>2, SMT
  <1> QED
    BY <1>3, <1>5, <1>7, <1>8, Zenon

\* A value that is meant shows what it should.
LEMMA MeantShown ==
    ASSUME NEW v, NEW sh \in Shown, NEW k \in 0 .. MaxOps, NEW loc, LocMeant(v, sh, k, loc)
    PROVE  LET text == InternalFormat2Text(v)
           IN  /\ v.type \notin {"time", "timetz"} => text.day = sh.day
               /\ v.type # "date" => text.sod = sh.sod /\ text.micro = sh.micro
               /\ v.type = "date" =>
                      \A other \in Texts :
                          SubDate(v.int, Text2Internal("date", other)) = sh.day - other.day
  <1>1. /\ loc \in Int /\ sh.sod = loc % DaySecs /\ v.type \in Type
        /\ v.type \notin TimeTypes => sh.day = loc \div DaySecs
        /\ v.type = "date" => sh.sod = 0
    BY Zenon DEF LocMeant, Shows
  <1>2. seconds_of(v.int) = Utc(v.type, loc) /\ micro_of(v.int) = sh.micro /\ tm_of(v) = gmtime(loc)
    BY ReadBack, Zenon
  <1>3. tm_of(v).day = loc \div DaySecs /\ tm_of(v).sod = loc % DaySecs
    <2>1. gmtime(loc).day = loc \div DaySecs /\ gmtime(loc).sod = loc % DaySecs
      BY Zenon DEF gmtime
    <2> QED
      BY <1>2, <2>1, Zenon
  <1>4. /\ InternalFormat2Text(v).day = tm_of(v).day /\ InternalFormat2Text(v).sod = tm_of(v).sod
        /\ InternalFormat2Text(v).micro = micro_of(v.int)
    BY Zenon DEF InternalFormat2Text
  <1>5. ASSUME v.type = "date", NEW other \in Texts
        PROVE  SubDate(v.int, Text2Internal("date", other)) = sh.day - other.day
    <2>1. seconds_of(v.int) = loc
      BY <1>2, <1>5, Zenon DEF Utc, Zoned
    <2>2. sh.day = loc \div DaySecs /\ loc % DaySecs = 0 /\ sh.day \in Int
      BY <1>1, <1>5, Zenon DEF TimeTypes, Shown
    <2>3. loc = sh.day * DaySecs
      <3>1. loc = (sh.day * DaySecs) + 0
        BY <1>1, <2>2, BrokenDown, Zenon
      <3> QED
        BY <2>2, <3>1, SMT DEF DaySecs
    <2>4. seconds_of(Text2Internal("date", other)) = other.day * DaySecs /\ other.day \in Int
          /\ other.day * DaySecs \in Int
      BY DateLiteral, Zenon
    <2> QED
      <3>1. CDiv(CDiv(CDiv((sh.day * DaySecs) - (other.day * DaySecs), 60), 60), 24) = sh.day - other.day
        BY <2>2, <2>4, DayDivision, Zenon
      <3> QED
        BY <2>1, <2>3, <2>4, <3>1, Zenon DEF SubDate
  <1> QED
    BY <1>1, <1>2, <1>3, <1>4, <1>5, Zenon DEF TimeTypes

-----------------------------------------------------------------------------
\* The inductive invariant of the values: as long as every operation was one
\* that the code does exactly, the value stands for local seconds that show
\* what the exact calculation gives, or it was refused with reason.
ValueInv ==
    /\ ops \in 0 .. MaxOps /\ shown \in Shown
    /\ exact => Outcome(val, shown, ops)

LEMMA AtEpoch == [day |-> 0, sod |-> 0, micro |-> 0] \in Shown
                 /\ Outcome([type |-> "timestamp", int |-> 0], [day |-> 0, sod |-> 0, micro |-> 0], 0)
  <1> DEFINE v == [type |-> "timestamp", int |-> 0]
             sh == [day |-> 0, sod |-> 0, micro |-> 0]
  <1>1. v.type = "timestamp" /\ v.int = 0 /\ sh.day = 0 /\ sh.sod = 0 /\ sh.micro = 0
    BY Zenon
  <1>2. 0 \in Int /\ 0 % DaySecs = 0 /\ 0 \div DaySecs = 0 /\ DateLoc(0)
    <2>1. MinDay \in Int /\ MaxDay \in Int /\ MinDay < 0 /\ 0 < MaxDay
      BY Constants, Zenon
    <2> QED
      BY <2>1, SMT DEF DateLoc, DaySecs
  <1>3. Enc(0, 0) = 0
    BY BaseNat, SMT DEF Enc
  <1>4. Utc("timestamp", 0) = 0
    BY Zenon DEF Utc, Zoned
  <1>5. sh \in Shown
    BY <1>2, MicroZero, Zenon DEF Shown
  <1> HIDE DEF sh
  <1>6. Shows(v.type, sh, 0, 0)
    BY <1>1, <1>2, MicroZero, Zenon DEF Shows, Type, TimeTypes
  <1>7. LocMeant(v, sh, 0, 0)
    BY <1>1, <1>3, <1>4, <1>6, Zenon DEF LocMeant
  <1> QED
    BY <1>5, <1>7, MeantOutcome, Zenon DEF sh

\* What the operations should show is a record of the right type.
LEMMA ShownTyped ==
    ASSUME NEW sh \in Shown
    PROVE  /\ \A type : \A text \in Texts : ZutShown(type, text) \in Shown
           /\ \A type : \A text \in Texts : LiteralShown(type, text) \in Shown
           /\ \A out : CastShown(sh, out) \in Shown
           /\ \A n \in Int : DaysShown(sh, n) \in Shown
           /\ \A t \in Times : MinusShown(sh, t) \in Shown /\ \A type : PlusShown(sh, type, t) \in Shown
  <1>1. sh.day \in Int /\ sh.sod \in 0 .. (DaySecs - 1) /\ sh.micro \in 0 .. (Base - 1)
    BY Zenon DEF Shown
  <1>2. sh.sod \in Int /\ DaySecs \in Nat
    BY <1>1, SodInt, Constants, Zenon
  <1>3. utc_mktime(sh) \in Int
    BY <1>1, <1>2, SMT DEF utc_mktime
  <1>4. ASSUME NEW text \in Texts
        PROVE  /\ text.day * DaySecs \in Int /\ utc_mktime(text) \in Int /\ text.micro \in 0 .. (Base - 1)
               /\ \A type : utc_mktime(text) + Shift(type, text) \in Int
    <2>1. text.day \in MinDay .. MaxDay /\ text.sod \in 0 .. DaySecs /\ text.micro \in 0 .. (Base - 1)
          /\ text.zone \in ZoneText
      BY LiteralAssumption, SMT
    <2>2. text.day \in Int /\ text.sod \in Int /\ Off \in Int
      BY <2>1, Constants, SMT
    <2>3. TrueOffset(text.zone) \in Int
      BY <2>1, ZoneRead, Zenon
    <2>4. text.day * DaySecs \in Int /\ utc_mktime(text) \in Int
      BY <1>2, <2>2, SMT DEF utc_mktime
    <2>5. \A type : Shift(type, text) \in Int
      BY <2>2, <2>3, SMT DEF Shift
    <2> QED
      BY <2>1, <2>4, <2>5, SMT
  <1>5. \A type : \A text \in Texts : LiteralShown(type, text) \in Shown
    BY <1>4, MicroZero, FieldsAre, Zenon DEF LiteralShown
  <1>6. \A type : \A text \in Texts : ZutShown(type, text) \in Shown
    BY <1>4, MicroZero, FieldsAre, MidnightFields, Zenon DEF ZutShown
  <1>7. \A n \in Int : DaysShown(sh, n) \in Shown
    <2>1. \A n \in Int : sh.day + n \in Int
      BY <1>1, SMT
    <2> QED
      BY <2>1, Zenon DEF DaysShown, Shown
  <1>8. ASSUME NEW t \in Times PROVE MinusShown(sh, t) \in Shown /\ \A type : PlusShown(sh, type, t) \in Shown
    <2>1. t.sod \in Int /\ t.micro \in 0 .. (Base - 1) /\ (\A type : PlusSod(type, t) \in Int)
      BY TextParts, SodInt, PlusInt, Zenon
    <2> DEFINE a == sh.micro + t.micro
               b == sh.micro - t.micro
    <2>2. a \div Base \in 0 .. 1 /\ a % Base \in 0 .. (Base - 1)
      BY <1>1, <2>1, Carry, ZenonT(40)
    <2>3. b \div Base = -BorrowOf(b) /\ BorrowOf(b) \in 0 .. 1 /\ b % Base \in 0 .. (Base - 1)
      BY <1>1, <2>1, Borrow, Zenon
    <2> HIDE DEF a, b
    <2>4. (utc_mktime(sh) - t.sod) + (b \div Base) \in Int
      BY <1>3, <2>1, <2>3, SMTT(30)
    <2>5. \A x \in Int : utc_mktime(sh) + x + (a \div Base) \in Int
      BY <1>3, <2>2, SMTT(30)
    <2>6. MinusShown(sh, t) \in Shown
      BY <2>3, <2>4, FieldsAre, Zenon DEF MinusShown, b
    <2>7. \A type : PlusShown(sh, type, t) \in Shown
      BY <2>1, <2>2, <2>5, FieldsAre, Zenon DEF PlusShown, a
    <2> QED
      BY <2>6, <2>7, Zenon
  <1> QED
    BY <1>5, <1>6, <1>7, <1>8, CastShownFields, Zenon

\* An operation takes the number of operations one further.
LEMMA LaterMeant ==
    ASSUME NEW v, NEW sh, NEW k \in 0 .. MaxOps, k + 1 \in 0 .. MaxOps, NEW loc, LocMeant(v, sh, k, loc)
    PROVE  LocMeant(v, sh, k + 1, loc)
  <1>1. Shows(v.type, sh, k, loc)
    BY Zenon DEF LocMeant
  <1>2. loc \in Int /\ TimeLoc(loc, k) => TimeLoc(loc, k + 1)
    <2>1. Day0 \in Int /\ MaxOps \in Nat
      BY Constants, Zenon
    <2> QED
      BY <2>1, SMT DEF TimeLoc, DaySecs
  <1>3. Shows(v.type, sh, k + 1, loc)
    BY <1>1, <1>2, Zenon DEF Shows
  <1> QED
    BY <1>3, Zenon DEF LocMeant

LEMMA Expression ==
    ASSUME ValueInv, InExpression
    PROVE  /\ ops \in 0 .. MaxOps /\ ops + 1 \in 0 .. MaxOps /\ ops' = ops + 1
           /\ exact => \E loc : LocMeant(val, shown, ops, loc)
  <1>1. MaxOps \in Nat
    BY Constants, Zenon
  <1>2. ops \in 0 .. MaxOps /\ ops < MaxOps /\ ops' = ops + 1 /\ val # Error
    BY Zenon DEF ValueInv, InExpression
  <1>3. ops + 1 \in 0 .. MaxOps
    BY <1>1, <1>2, SMT
  <1> QED
    BY <1>2, <1>3, Zenon DEF ValueInv, Outcome

LEMMA ValueInvStep ==
    ASSUME ValueInv, [Next]_vars
    PROVE  ValueInv'
  <1> USE DEF ValueInv
  <1>1. shown \in Shown /\ ops \in 0 .. MaxOps
    OBVIOUS
  <1>2. ASSUME NEW s \in Styles, set_date_time_format_from_datestyle(s) PROVE ValueInv'
    BY <1>2, Zenon DEF set_date_time_format_from_datestyle
  <1>3. ASSUME NEW type \in Type, NEW text \in Texts, Literal(type, text) PROVE ValueInv'
    <2>1. /\ ops' = 1 /\ val' = [type |-> type, int |-> Text2Internal(type, text)]
          /\ shown' = LiteralShown(type, text)
          /\ exact' => ZoneKept(type, text)
      BY <1>3, Zenon DEF Literal, LiteralShown, Shift, ZoneKept
    <2>2. exact' => Outcome(val', shown', ops')
      BY <2>1, HasOp, TextParts, LiteralMeant, MeantOutcome, Zenon
    <2> QED
      BY <1>1, <2>1, <2>2, HasOp, ShownTyped, Zenon DEF OneOp
  <1>4. ASSUME NEW type \in {"date", "timestamp"}, NEW text \in Texts, ZutLiteral(type, text) PROVE ValueInv'
    <2>1. ops' = 1 /\ val' = Zut(type, utc_mktime(text), text.micro) /\ shown' = ZutShown(type, text)
      BY <1>4, Zenon DEF ZutLiteral, ZutShown
    <2> QED
      BY <1>1, <2>1, HasOp, ZutMeant, ShownTyped, Zenon DEF OneOp
  <1>5. ASSUME NEW out \in Type, Cast(out) PROVE ValueInv'
    <2>1. /\ InExpression /\ <<val.type, out>> \in Casts /\ val' = DateTimeCast(val, out)
          /\ shown' = CastShown(shown, out)
          /\ exact' => exact /\ (val.type = "timestamptz" /\ out = "date" => Off = 0)
      BY <1>5, Zenon DEF Cast, CastShown
    <2>2. ASSUME exact' PROVE Outcome(val', shown', ops')
      <3>1. PICK loc : LocMeant(val, shown, ops, loc)
        BY <2>1, <2>2, Expression, Zenon
      <3>2. PICK l : LocMeant(val', shown', ops, l)
        BY <1>1, <2>1, <2>2, <3>1, CastMeant, Zenon
      <3>3. LocMeant(val', shown', ops', l)
        BY <2>1, <3>2, Expression, LaterMeant, Zenon
      <3> QED
        BY <3>3, MeantOutcome, Zenon
    <2> QED
      BY <1>1, <2>1, <2>2, Expression, ShownTyped, Zenon
  <1>6. ASSUME NEW n \in Days, PlusDays(n) PROVE ValueInv'
    <2>1. /\ InExpression /\ val.type = "date" /\ val' = AddDays(val, n) /\ shown' = DaysShown(shown, n)
          /\ exact' => exact /\ DaysExact(shown, n)
      BY <1>6, Zenon DEF PlusDays, DaysShown, DaysExact
    <2>2. n \in Int
      BY LiteralAssumption, Zenon
    <2>3. ASSUME exact' PROVE Outcome(val', shown', ops')
      <3>1. PICK loc : LocMeant(val, shown, ops, loc)
        BY <2>1, <2>3, Expression, Zenon
      <3> QED
        BY <1>1, <2>1, <2>2, <2>3, <3>1, Expression, AddDaysMeant, Zenon
    <2> QED
      BY <1>1, <2>1, <2>2, <2>3, Expression, ShownTyped, Zenon
  <1>7. ASSUME NEW type \in {"time", "timetz"}, NEW t \in Times, PlusTime(type, t) PROVE ValueInv'
    <2>1. /\ InExpression /\ <<val.type, type>> \in Sums /\ val' \in sums_of(val, TimeValue(type, t))
          /\ shown' = PlusShown(shown, type, t)
          /\ exact' => exact /\ PlusExact(val.type, type, t)
      BY <1>7, PlusParts, Zenon
    <2>2. ASSUME exact' PROVE Outcome(val', shown', ops')
      <3>1. PICK loc : LocMeant(val, shown, ops, loc)
        BY <2>1, <2>2, Expression, Zenon
      <3>2. /\ ops \in 0 .. MaxOps /\ ops > 0 /\ ops + 1 \in 0 .. MaxOps /\ ops' = ops + 1
        BY <2>1, Expression, Zenon DEF InExpression
      <3> QED
        BY <1>1, <2>1, <2>2, <3>1, <3>2, PlusMeant, Zenon
    <2> QED
      BY <1>1, <2>1, <2>2, Expression, ShownTyped, Zenon
  <1>8. ASSUME NEW t \in Times, MinusTime(t) PROVE ValueInv'
    <2>1. /\ InExpression /\ val.type # "time" /\ val' = SubTime(val, TimeValue("time", t))
          /\ shown' = MinusShown(shown, t)
          /\ exact' => exact /\ MinusExact(val, shown, t)
      BY <1>8, Zenon DEF MinusTime, MinusShown, MinusExact
    <2>2. ASSUME exact' PROVE Outcome(val', shown', ops')
      <3>1. PICK loc : LocMeant(val, shown, ops, loc)
        BY <2>1, <2>2, Expression, Zenon
      <3> QED
        BY <1>1, <2>1, <2>2, <3>1, Expression, SubTimeMeant, Zenon
    <2> QED
      BY <1>1, <2>1, <2>2, Expression, ShownTyped, Zenon
  <1>9. ASSUME NEW in \in Inputs, Validate(in[1], in[2], in[3]) PROVE ValueInv'
    BY <1>9, Zenon DEF Validate
  <1>10. CASE Finish
    <2>1. 0 \in 0 .. MaxOps
      <3>1. MaxOps \in Nat
        BY Constants, Zenon
      <3> QED
        BY <3>1, SMT
    <2> QED
      BY <1>10, <2>1, AtEpoch, Zenon DEF Finish
  <1>11. CASE UNCHANGED vars
    BY <1>11, Zenon DEF vars
  <1> QED
    BY <1>2, <1>3, <1>4, <1>5, <1>6, <1>7, <1>8, <1>9, <1>10, <1>11, Zenon DEF Next

LEMMA ValueInvInit ==
    ASSUME Init
    PROVE  ValueInv
  <1>1. MaxOps \in Nat
    BY Constants, Zenon
  <1>2. 0 \in 0 .. MaxOps
    BY <1>1, SMT
  <1> QED
    BY <1>2, AtEpoch, Zenon DEF Init, ValueInv

\* Casts, additions and subtractions in any order, over any literals, show
\* what SQL means by them, times with time zone included, and an error is given
\* only for results outside the range of dates or on its first or last day: the
\* functions of ydboctodateoperations.c, but for the cases that exact leaves out.
THEOREM ValuesShown == Spec => []ShownAsMeant
  <1>1. Init => ValueInv
    BY ValueInvInit, Zenon
  <1>2. ValueInv /\ [Next]_vars => ValueInv'
    BY ValueInvStep, Zenon
  <1>3. ValueInv => ShownAsMeant
    <2>1. SUFFICES ASSUME ValueInv, exact PROVE ShownAsMeant
      BY Zenon DEF ShownAsMeant
    <2>2. CASE val = Error
      BY <2>1, <2>2, Zenon DEF ShownAsMeant, ValueInv, Outcome
    <2>3. CASE val # Error
      <3>1. PICK loc : LocMeant(val, shown, ops, loc)
        BY <2>1, <2>3, Zenon DEF ValueInv, Outcome
      <3>2. shown \in Shown /\ ops \in 0 .. MaxOps
        BY <2>1, Zenon DEF ValueInv
      <3> QED
        BY <2>3, <3>1, <3>2, MeantShown, Zenon DEF ShownAsMeant
    <2> QED
      BY <2>2, <2>3, Zenon
  <1> QED
    BY <1>1, <1>2, <1>3, PTL DEF Spec

-----------------------------------------------------------------------------
\* The calendar of the C library: the day of a year that starts in March gives
\* month and day, and the 400 years of an era give the year.
EraYear(yoe) == yoe \in Int /\ 0 <= yoe /\ yoe <= 399
YearDay(doy) == doy \in Int /\ 0 <= doy /\ doy <= 365
YearNumber(era, yoe, doy) == yoe + (era * 400) + (IF MonthOf(doy) <= 2 THEN 1 ELSE 0)

LEMMA MonthNumbers ==
    ASSUME NEW doy, YearDay(doy)
    PROVE  /\ MonthOf(doy) \in Int /\ 1 <= MonthOf(doy) /\ MonthOf(doy) <= 12
           /\ DayOf(doy) \in Int /\ 1 <= DayOf(doy) /\ DayOf(doy) <= 31
  BY SMT DEF YearDay, MonthOf, DayOf, MonthPart

LEMMA YearNumbers ==
    ASSUME NEW doe \in Int, 0 <= doe, doe <= EraDays - 1
    PROVE  LET yoe == YearOfEra(doe)
               doy == doe - DaysBefore(yoe)
           IN  EraYear(yoe) /\ YearDay(doy) /\ doe = DaysBefore(yoe) + doy
  BY SMT DEF YearOfEra, EraDays, DaysBefore, EraYear, YearDay

CivilIs(day, era, yoe, doy) ==
    /\ era \in Int /\ EraYear(yoe) /\ YearDay(doy)
    /\ day + EpochDay = (era * EraDays) + (DaysBefore(yoe) + doy)
    /\ civil(day).Y = YearNumber(era, yoe, doy)
    /\ civil(day).m = MonthOf(doy) /\ civil(day).d = DayOf(doy)
LEMMA CivilParts ==
    ASSUME NEW day \in Int
    PROVE  \E era, yoe, doy : CivilIs(day, era, yoe, doy)
  <1> DEFINE z == day + EpochDay
             era == z \div EraDays
             doe == z % EraDays
             yoe == YearOfEra(doe)
             doy == doe - DaysBefore(yoe)
  <1>1. era \in Int /\ doe \in Int /\ 0 <= doe /\ doe <= EraDays - 1 /\ z = (era * EraDays) + doe
    BY SMT DEF EpochDay, EraDays
  <1>2. EraYear(yoe) /\ YearDay(doy) /\ doe = DaysBefore(yoe) + doy
    BY <1>1, YearNumbers, Zenon
  <1>3. /\ civil(day).Y = YearNumber(era, yoe, doy)
        /\ civil(day).m = MonthOf(doy) /\ civil(day).d = DayOf(doy)
    BY Zenon DEF civil, YearNumber
  <1> HIDE DEF era, doe, yoe, doy
  <1>4. CivilIs(day, era, yoe, doy)
    BY <1>1, <1>2, <1>3, Zenon DEF CivilIs
  <1> QED
    BY <1>4, Zenon

LEMMA CivilOk ==
    ASSUME NEW day \in Int
    PROVE  /\ civil(day).m \in Int /\ 1 <= civil(day).m /\ civil(day).m <= 12
           /\ civil(day).d \in Int /\ 1 <= civil(day).d /\ civil(day).d <= 31
  <1>1. PICK era, yoe, doy : CivilIs(day, era, yoe, doy)
    BY CivilParts, Zenon
  <1>2. YearDay(doy) /\ civil(day).m = MonthOf(doy) /\ civil(day).d = DayOf(doy)
    BY <1>1, Zenon DEF CivilIs
  <1> QED
    BY <1>2, MonthNumbers, Zenon

\* No two days have the same date.
LEMMA SameDoy ==
    ASSUME NEW a, YearDay(a), NEW b, YearDay(b), MonthOf(a) = MonthOf(b), DayOf(a) = DayOf(b)
    PROVE  a = b
  BY SMT DEF YearDay, MonthOf, DayOf, MonthPart

LEMMA SameEra ==
    ASSUME NEW e \in Int, NEW f \in Int, NEW y, EraYear(y), NEW x, EraYear(x),
           NEW s, YearNumber(e, y, s) = YearNumber(f, x, s)
    PROVE  e = f /\ x = y
  <1> DEFINE c == IF MonthOf(s) <= 2 THEN 1 ELSE 0
  <1>1. c \in Int
    BY SMT
  <1>2. y + (e * 400) + c = x + (f * 400) + c
    BY Zenon DEF YearNumber
  <1> HIDE DEF c
  <1> QED
    BY <1>1, <1>2, SMT DEF EraYear

LEMMA SameDay ==
    ASSUME NEW a \in Int, NEW b \in Int,
           civil(a).Y = civil(b).Y, civil(a).m = civil(b).m, civil(a).d = civil(b).d
    PROVE  a = b
  <1>1. PICK e, y, s : CivilIs(a, e, y, s)
    BY CivilParts, Zenon
  <1>2. PICK f, x, t : CivilIs(b, f, x, t)
    BY CivilParts, Zenon
  <1>3. s = t
    <2>1. YearDay(s) /\ YearDay(t) /\ MonthOf(s) = MonthOf(t) /\ DayOf(s) = DayOf(t)
      BY <1>1, <1>2, Zenon DEF CivilIs
    <2> QED
      BY <2>1, SameDoy, Zenon
  <1>4. e = f /\ x = y
    <2>1. e \in Int /\ f \in Int /\ EraYear(y) /\ EraYear(x) /\ YearNumber(e, y, s) = YearNumber(f, x, s)
      BY <1>1, <1>2, <1>3, Zenon DEF CivilIs
    <2> QED
      BY <2>1, SameEra, SMT
  <1>5. a + EpochDay = b + EpochDay
    BY <1>1, <1>2, <1>3, <1>4, Zenon DEF CivilIs
  <1> QED
    BY <1>5, SMT DEF EpochDay

\* The first and the last day of the years 1840 to 9999.
LEMMA YearBounds ==
    ASSUME NEW era \in Int, NEW yoe, EraYear(yoe), NEW doy, YearDay(doy),
           NEW z \in Int, z = (era * EraDays) + (DaysBefore(yoe) + doy)
    PROVE  /\ YearNumber(era, yoe, doy) \in Int
           /\ YearNumber(era, yoe, doy) >= 1840 <=> z >= 671986
           /\ YearNumber(era, yoe, doy) <= 9999 <=> z <= 3652364
  <1>1. /\ YearNumber(era, yoe, doy) = yoe + (era * 400) + (IF doy >= 306 THEN 1 ELSE 0)
    BY SMT DEF YearNumber, MonthOf, MonthPart, YearDay
  <1>2. CASE era <= 3
    BY <1>1, <1>2, SMTT(30) DEF EraYear, YearDay, EraDays, DaysBefore
  <1>3. CASE era = 4
    BY <1>1, <1>3, SMTT(30) DEF EraYear, YearDay, EraDays, DaysBefore
  <1>4. CASE era >= 5 /\ era <= 23
    BY <1>1, <1>4, SMTT(30) DEF EraYear, YearDay, EraDays, DaysBefore
  <1>5. CASE era = 24
    BY <1>1, <1>5, SMTT(30) DEF EraYear, YearDay, EraDays, DaysBefore
  <1>6. CASE era >= 25
    BY <1>1, <1>6, SMTT(30) DEF EraYear, YearDay, EraDays, DaysBefore
  <1> QED
    BY <1>2, <1>3, <1>4, <1>5, <1>6, SMTT(30)

-----------------------------------------------------------------------------
\* Tokens, and sequences of them that are put together.
Marks == {":", "-", "+", ".", " "}
Token == {Num(k, v) : k \in Nat, v \in Int} \cup {Sep(k) : k \in Marks}
LEMMA NumToken ==
    ASSUME NEW k \in Nat, NEW v \in Int
    PROVE  Num(k, v) \in Token
  BY SMT DEF Token

LEMMA SepToken ==
    ASSUME NEW k \in Marks
    PROVE  Sep(k) \in Token
  BY SMT DEF Token

\* A number of so many digits and a value; a separator.
IsNum(tok, k, v) == tok[1] = "n" /\ tok[2] = k /\ tok[3] = v
LEMMA NumIs ==
    ASSUME NEW k, NEW v
    PROVE  IsNum(Num(k, v), k, v)
  <1>1. Num(k, v)[1] = "n"
    BY SMT DEF Num
  <1>2. Num(k, v)[2] = k
    BY SMT DEF Num
  <1>3. Num(k, v)[3] = v
    BY SMT DEF Num
  <1> QED
    BY <1>1, <1>2, <1>3, Zenon DEF IsNum

IsSep(tok, k) == tok[1] = k
LEMMA SepIs ==
    ASSUME NEW k
    PROVE  IsSep(Sep(k), k)
  BY SMT DEF Sep, IsSep

After5(s, a, b, c, d, e, t) ==
    /\ s \in Seq(Token) /\ Len(s) = 5 + Len(t) /\ s[1] = a /\ s[2] = b /\ s[3] = c /\ s[4] = d /\ s[5] = e
    /\ \A i \in 1 .. Len(t) : s[5 + i] = t[i]
LEMMA FiveFirst ==
    ASSUME NEW a \in Token, NEW b \in Token, NEW c \in Token, NEW d \in Token, NEW e \in Token, NEW t \in Seq(Token)
    PROVE  After5(<<a, b, c, d, e>> \o t, a, b, c, d, e, t)
  BY SMT DEF After5

After2(s, a, b, t) ==
    /\ s \in Seq(Token) /\ Len(s) = 2 + Len(t) /\ s[1] = a /\ s[2] = b
    /\ \A i \in 1 .. Len(t) : s[2 + i] = t[i]
LEMMA TwoFirst ==
    ASSUME NEW a \in Token, NEW b \in Token, NEW t \in Seq(Token)
    PROVE  After2(<<a, b>> \o t, a, b, t)
  BY SMT DEF After2

After1(s, a, t) == s \in Seq(Token) /\ s[1] = a /\ Tail(s) = t /\ s # <<>>
LEMMA OneFirst ==
    ASSUME NEW a \in Token, NEW t \in Seq(Token)
    PROVE  After1(<<a>> \o t, a, t)
  BY SMT DEF After1

Two(s, a, b) == s \in Seq(Token) /\ Len(s) = 2 /\ s[1] = a /\ s[2] = b
LEMMA TwoTokens ==
    ASSUME NEW a \in Token, NEW b \in Token
    PROVE  Two(<<a, b>>, a, b)
  BY SMT DEF Two

Four(s, a, b, c, d) == s \in Seq(Token) /\ Len(s) = 4 /\ s[1] = a /\ s[2] = b /\ s[3] = c /\ s[4] = d
LEMMA FourTokens ==
    ASSUME NEW a \in Token, NEW b \in Token, NEW t, NEW c, NEW d, Two(t, c, d)
    PROVE  Four(<<a, b>> \o t, a, b, c, d)
  <1> DEFINE s == <<a, b>> \o t
  <1>1. After2(s, a, b, t)
    BY TwoFirst, Zenon DEF Two
  <1> HIDE DEF s
  <1>2. Four(s, a, b, c, d)
    BY <1>1, SMT DEF After2, Two, Four
  <1> QED
    BY <1>2, Zenon DEF s

Joined(s, u, t) ==
    /\ Len(s) = Len(u) + Len(t)
    /\ \A i \in 1 .. Len(u) : s[i] = u[i]
    /\ \A i \in 1 .. Len(t) : s[Len(u) + i] = t[i]
LEMMA Concat ==
    ASSUME NEW u \in Seq(Token), NEW t \in Seq(Token)
    PROVE  u \o t \in Seq(Token) /\ Joined(u \o t, u, t)
  BY SMT DEF Joined

Six(s, a, b, c, d, e, f) ==
    s \in Seq(Token) /\ Len(s) = 6 /\ s[1] = a /\ s[2] = b /\ s[3] = c /\ s[4] = d /\ s[5] = e /\ s[6] = f
LEMMA SixTokens ==
    ASSUME NEW u, NEW a, NEW b, NEW c, NEW d, NEW e, NEW f, NEW t, Four(u, a, b, c, d), Two(t, e, f)
    PROVE  Six(u \o t, a, b, c, d, e, f)
  <1>1. u \in Seq(Token) /\ t \in Seq(Token) /\ Len(u) = 4 /\ Len(t) = 2
    BY Zenon DEF Four, Two
  <1> DEFINE s == u \o t
  <1>0. s \in Seq(Token) /\ Joined(s, u, t)
    BY <1>1, Concat, Zenon
  <1> HIDE DEF s
  <1>2. s \in Seq(Token) /\ Len(s) = 6
    BY <1>0, <1>1, SMT DEF Joined
  <1>3. \A i \in 1 .. 4 : s[i] = u[i]
    BY <1>0, <1>1, Zenon DEF Joined
  <1>4. s[5] = t[1] /\ s[6] = t[2]
    BY <1>0, <1>1, SMTT(30) DEF Joined
  <1>5. 1 \in 1 .. 4 /\ 2 \in 1 .. 4 /\ 3 \in 1 .. 4 /\ 4 \in 1 .. 4
    BY SMT
  <1>6. s[1] = u[1] /\ s[2] = u[2] /\ s[3] = u[3] /\ s[4] = u[4]
    BY <1>3, <1>5, Zenon
  <1>7. Six(s, a, b, c, d, e, f)
    BY <1>2, <1>4, <1>6, Zenon DEF Four, Two, Six
  <1> QED
    BY <1>7, Zenon DEF s

LEMMA ConcatAssoc ==
    ASSUME NEW s \in Seq(Token), NEW t \in Seq(Token), NEW u \in Seq(Token)
    PROVE  (s \o t) \o u = s \o (t \o u) /\ s \o t \in Seq(Token)
  BY SMTT(30)

LEMMA OneToken ==
    ASSUME NEW a \in Token
    PROVE  <<a>> \in Seq(Token)
  BY SMT

LEMMA NoTokens ==
    <<>> \in Seq(Token)
  BY SMT

LEMMA ConcatNone ==
    ASSUME NEW s \in Seq(Token)
    PROVE  s \o <<>> = s /\ <<>> \o s = s /\ <<>> \in Seq(Token)
  BY SMT

LEMMA Rest ==
    ASSUME NEW s \in Seq(Token), NEW t \in Seq(Token), NEW n \in Nat,
           Len(s) = n + Len(t), \A i \in 1 .. Len(t) : s[n + i] = t[i]
    PROVE  SubSeq(s, n + 1, Len(s)) = t
  <1> DEFINE u == SubSeq(s, n + 1, Len(s))
  <1>1. Len(s) \in Nat /\ Len(t) \in Nat /\ n + 1 \in Nat /\ n + 1 >= 1
    BY SMT
  <1>2. Len(u) = Len(t)
    BY <1>1, SMTT(30)
  <1>3. u \in Seq(Token)
    BY <1>1, SMT
  <1>4. ASSUME NEW i \in 1 .. Len(t) PROVE u[i] = t[i]
    <2>1. u[i] = s[(n + 1) + i - 1]
      BY <1>1, <1>4, SMT
    <2>2. (n + 1) + i - 1 = n + i
      BY <1>1, <1>4, SMT
    <2> QED
      BY <1>4, <2>1, <2>2, SMT
  <1> HIDE DEF u
  <1>5. u = t
    BY <1>2, <1>3, <1>4, SMTT(90)
  <1> QED
    BY <1>5, Zenon DEF u

\* The microseconds: a point and one to six digits.
LEMMA Zeros ==
    ASSUME NEW micro \in 0 .. (Base - 1), micro # 0
    PROVE  \E z \in 0 .. (FracDigits - 1) : micro % Power10[z + 1] = 0 /\ micro % Power10[z + 2] # 0
  <1> DEFINE none(z) == micro % Power10[z + 1] = 0
  <1>1. FracDigits \in 1 .. 6
    BY RangeAssumption, Zenon
  <1>2. none(0)
    BY SMT DEF Power10
  <1>3. ~none(FracDigits)
    <2>1. micro % Base = micro
      BY BaseNat, SMT
    <2> QED
      BY <2>1, Zenon DEF Base
  <1> HIDE DEF none
  <1>4. \E z \in 0 .. (FracDigits - 1) : none(z) /\ ~none(z + 1)
    <2> SUFFICES ASSUME \A z \in 0 .. (FracDigits - 1) : none(z) => none(z + 1) PROVE FALSE
      BY Zenon
    <2>1. none(1)
      BY <1>1, <1>2, SMT
    <2>2. FracDigits >= 2 => none(2)
      BY <1>1, <2>1, SMTT(30)
    <2>3. FracDigits >= 3 => none(3)
      BY <1>1, <2>2, SMT
    <2>4. FracDigits >= 4 => none(4)
      BY <1>1, <2>3, SMTT(30)
    <2>5. FracDigits >= 5 => none(5)
      BY <1>1, <2>4, SMT
    <2>6. FracDigits >= 6 => none(6)
      BY <1>1, <2>5, SMT
    <2> QED
      BY <1>1, <1>3, <2>1, <2>2, <2>3, <2>4, <2>5, <2>6, SMTT(30)
  <1>5. \A z \in 0 .. (FracDigits - 1) : (z + 1) + 1 = z + 2
    BY <1>1, SMT
  <1> QED
    BY <1>4, <1>5, Zenon DEF none

LEMMA MicroTokens ==
    ASSUME NEW micro \in 0 .. (Base - 1)
    PROVE  \/ micro_tokens(micro) = <<>>
           \/ \E k \in 1 .. 6, v \in Int : micro_tokens(micro) = <<Sep("."), Num(k, v)>>
  <1>1. CASE micro = 0
    BY <1>1, Zenon DEF micro_tokens
  <1>2. CASE micro # 0
    <2> DEFINE P(z) == micro % Power10[z + 1] = 0 /\ micro % Power10[z + 2] # 0
               zeros == CHOOSE z \in 0 .. (FracDigits - 1) : P(z)
    <2>1. \E z \in 0 .. (FracDigits - 1) : P(z)
      BY <1>2, Zeros, Zenon
    <2>2. zeros \in 0 .. (FracDigits - 1)
      BY <2>1, Zenon
    <2> DEFINE v == micro \div Power10[zeros + 1]
    <2>3. micro_tokens(micro) = <<Sep("."), Num(FracDigits - zeros, v)>>
      BY <1>2, Zenon DEF micro_tokens
    <2> HIDE DEF zeros
    <2>4. FracDigits \in 1 .. 6
      BY RangeAssumption, Zenon
    <2>5. FracDigits - zeros \in 1 .. 6
      BY <2>2, <2>4, SMT
    <2>6. v \in Int
      <3>1. Power10[zeros + 1] \in Nat \ {0}
        BY <2>2, <2>4, SMT DEF Power10
      <3>2. micro \in Int
        BY MicroInt, Zenon
      <3> QED
        BY <3>1, <3>2, DivMod, Zenon
    <2> QED
      BY <2>3, <2>5, <2>6, Zenon
  <1> QED
    BY <1>1, <1>2, Zenon

\* The zone: hours of at most 15, minutes and seconds of at most 59.
ZoneMinutes == 0 .. 959
IsZone(zone) == zone = NoZone \/ (zone.sign # 0 /\ zone.min \in ZoneMinutes /\ zone.sec \in 0 .. 59)
LEMMA ZoneHours ==
    ASSUME NEW m, m \in ZoneMinutes
    PROVE  m \div 60 \in Int /\ m \div 60 >= 0 /\ m \div 60 <= 15
           /\ m % 60 \in Int /\ m % 60 >= 0 /\ m % 60 <= 59
  BY SMTT(30) DEF ZoneMinutes

\* What is_time_zone() asks of a text of two, four or six tokens.
TwoDigits(tok, max) == tok[1] = "n" /\ tok[2] = 2 /\ tok[3] <= max
Hours(toks) == toks[1][1] \in {"+", "-"} /\ TwoDigits(toks[2], 15)
LEMMA ZoneFormat ==
    ASSUME NEW toks, Hours(toks),
           \/ Len(toks) = 2
           \/ Len(toks) = 4 /\ toks[3][1] = ":" /\ TwoDigits(toks[4], 59)
           \/ /\ Len(toks) = 6 /\ toks[3][1] = ":" /\ TwoDigits(toks[4], 59)
              /\ toks[5][1] = ":" /\ TwoDigits(toks[6], 59)
    PROVE  is_time_zone(toks)
  <1>1. Len(toks) \in {2, 4, 6} /\ toks[1][1] \in {"+", "-"}
    BY Zenon DEF Hours
  <1>2. ~(4 <= 2) /\ ~(6 <= 2) /\ ~(6 <= 4) /\ ~(3 <= 2) /\ ~(5 <= 2) /\ ~(5 <= 4) /\ 4 # 2 /\ 6 # 2
    BY SMT
  <1>3. ASSUME NEW i \in {2, 4, 6}, i <= Len(toks)
        PROVE  toks[i][1] = "n" /\ toks[i][2] = 2 /\ toks[i][3] <= (IF i = 2 THEN 15 ELSE 59)
    <2>1. CASE i = 2
      BY <2>1, Zenon DEF Hours, TwoDigits
    <2>2. CASE i = 4
      <3>1. TwoDigits(toks[4], 59)
        BY <1>2, <1>3, <2>2, Zenon
      <3> QED
        BY <1>2, <2>2, <3>1, Zenon DEF TwoDigits
    <2>3. CASE i = 6
      <3>1. TwoDigits(toks[6], 59)
        BY <1>2, <1>3, <2>3, Zenon
      <3> QED
        BY <1>2, <2>3, <3>1, Zenon DEF TwoDigits
    <2> QED
      BY <2>1, <2>2, <2>3, Zenon
  <1>4. ASSUME NEW i \in {3, 5}, i <= Len(toks) PROVE toks[i][1] = ":"
    BY <1>2, <1>4, Zenon
  <1> QED
    BY <1>1, <1>3, <1>4, Zenon DEF is_time_zone

LEMMA ZoneTokens ==
    ASSUME NEW zone, IsZone(zone)
    PROVE  LET toks == zone_tokens(zone)
           IN  is_time_zone(toks) /\ toks \in Seq(Token) /\ (toks # <<>> => toks[1][1] \in {"+", "-"})
  <1> DEFINE sg == IF zone.sign < 0 THEN "-" ELSE "+"
             h == zone.min \div 60
             m == zone.min % 60
             s == zone.sec
             toks == zone_tokens(zone)
             Good == is_time_zone(toks) /\ toks \in Seq(Token) /\ (toks # <<>> => toks[1][1] \in {"+", "-"})
  <1>1. CASE zone = NoZone
    <2>1. toks = <<>>
      BY <1>1, SMT DEF zone_tokens, NoZone
    <2>2. <<>> \in Seq(Token)
      BY SMT
    <2> QED
      BY <2>1, <2>2, Zenon DEF is_time_zone
  <1>2. CASE zone # NoZone
    <2>1. zone.sign # 0 /\ zone.min \in ZoneMinutes /\ zone.sec \in 0 .. 59
      BY <1>2, Zenon DEF IsZone
    <2>2. h \in Int /\ h >= 0 /\ h <= 15 /\ m \in Int /\ m >= 0 /\ m <= 59
      BY <2>1, ZoneHours, Zenon
    <2>3. s \in Int /\ s >= 0 /\ s <= 59
      BY <2>1, SMT
    <2>4. sg \in {"+", "-"}
      BY Zenon
    <2> DEFINE hh == <<Sep(sg), Num(2, h)>>
               mm == <<Sep(":"), Num(2, m)>>
               ss == <<Sep(":"), Num(2, s)>>
    <2>5. toks = hh \/ toks = hh \o mm \/ toks = hh \o mm \o ss
      BY <2>1, Zenon DEF zone_tokens
    <2> HIDE DEF sg, h, m, s, toks
    <2>6. Sep(sg) \in Token /\ Sep(":") \in Token
      <3>1. sg \in Marks /\ ":" \in Marks
        BY <2>4, Zenon DEF Marks
      <3> QED
        BY <3>1, SepToken, Zenon
    <2>7. Num(2, h) \in Token /\ Num(2, m) \in Token /\ Num(2, s) \in Token
      <3>1. 2 \in Nat
        BY SMT
      <3> QED
        BY <2>2, <2>3, <3>1, NumToken, Zenon
    <2>8. IsSep(Sep(sg), sg) /\ IsSep(Sep(":"), ":")
      BY SepIs, Zenon
    <2>9. IsNum(Num(2, h), 2, h) /\ IsNum(Num(2, m), 2, m) /\ IsNum(Num(2, s), 2, s)
      BY NumIs, Zenon
    <2>10. TwoDigits(Num(2, h), 15) /\ TwoDigits(Num(2, m), 59) /\ TwoDigits(Num(2, s), 59)
      BY <2>2, <2>3, <2>9, Zenon DEF TwoDigits, IsNum
    <2>11. Two(hh, Sep(sg), Num(2, h))
      BY <2>6, <2>7, TwoTokens, Zenon
    <2>12. Two(mm, Sep(":"), Num(2, m)) /\ Two(ss, Sep(":"), Num(2, s))
      BY <2>6, <2>7, TwoTokens, Zenon
    <2>13. Four(hh \o mm, Sep(sg), Num(2, h), Sep(":"), Num(2, m))
      BY <2>6, <2>7, <2>12, FourTokens, Zenon
    <2>14. Six(hh \o mm \o ss, Sep(sg), Num(2, h), Sep(":"), Num(2, m), Sep(":"), Num(2, s))
      BY <2>12, <2>13, SixTokens, Zenon
    <2> HIDE DEF hh, mm, ss
    <2>15. ASSUME toks = hh PROVE Good
      <3>1. Hours(toks)
        BY <2>4, <2>8, <2>10, <2>11, <2>15, Zenon DEF Hours, Two, IsSep
      <3>2. Len(toks) = 2 /\ toks \in Seq(Token)
        BY <2>11, <2>15, Zenon DEF Two
      <3>3. is_time_zone(toks)
        BY <3>1, <3>2, ZoneFormat, Zenon
      <3> QED
        BY <3>1, <3>2, <3>3, Zenon DEF Hours
    <2>16. ASSUME toks = hh \o mm PROVE Good
      <3> DEFINE F == Four(toks, Sep(sg), Num(2, h), Sep(":"), Num(2, m))
      <3>0. F
        BY <2>13, <2>16, Zenon
      <3>1. Hours(toks)
        BY <2>4, <2>8, <2>10, <3>0, Zenon DEF Hours, Four, IsSep
      <3>2. Len(toks) = 4 /\ toks \in Seq(Token) /\ toks[3][1] = ":" /\ TwoDigits(toks[4], 59)
        BY <2>8, <2>10, <3>0, Zenon DEF Four, IsSep
      <3>3. is_time_zone(toks)
        BY <3>1, <3>2, ZoneFormat, Zenon
      <3> QED
        BY <3>1, <3>2, <3>3, Zenon DEF Hours
    <2>17. ASSUME toks = hh \o mm \o ss PROVE Good
      <3> DEFINE F == Six(toks, Sep(sg), Num(2, h), Sep(":"), Num(2, m), Sep(":"), Num(2, s))
      <3>0. F
        BY <2>14, <2>17, Zenon
      <3>1. Hours(toks)
        BY <2>4, <2>8, <2>10, <3>0, Zenon DEF Hours, Six, IsSep
      <3>2. /\ Len(toks) = 6 /\ toks \in Seq(Token) /\ toks[3][1] = ":" /\ TwoDigits(toks[4], 59)
            /\ toks[5][1] = ":" /\ TwoDigits(toks[6], 59)
        BY <2>8, <2>10, <3>0, Zenon DEF Six, IsSep
      <3>3. is_time_zone(toks)
        BY <3>1, <3>2, ZoneFormat, Zenon
      <3> QED
        BY <3>1, <3>2, <3>3, Zenon DEF Hours
    <2>18. Good
      BY <2>5, <2>15, <2>16, <2>17, Zenon
    <2> QED
      BY <2>18, Zenon DEF toks
  <1> QED
    BY <1>1, <1>2, Zenon

LEMMA MicroSeq ==
    ASSUME NEW micro \in 0 .. (Base - 1)
    PROVE  micro_tokens(micro) \in Seq(Token)
  <1>1. CASE micro_tokens(micro) = <<>>
    BY <1>1, NoTokens, Zenon
  <1>2. ASSUME NEW k \in 1 .. 6, NEW v \in Int, micro_tokens(micro) = <<Sep("."), Num(k, v)>>
        PROVE  micro_tokens(micro) \in Seq(Token)
    <2>1. k \in Nat
      BY SMT
    <2>2. "." \in Marks
      BY Zenon DEF Marks
    <2>3. Sep(".") \in Token /\ Num(k, v) \in Token
      BY <2>1, <2>2, SepToken, NumToken, Zenon
    <2>4. Two(<<Sep("."), Num(k, v)>>, Sep("."), Num(k, v))
      BY <2>3, TwoTokens, Zenon
    <2> QED
      BY <1>2, <2>4, Zenon DEF Two
  <1> QED
    BY <1>1, <1>2, MicroTokens, Zenon

\* Hours, minutes and seconds.
LEMMA ValidClock ==
    ASSUME NEW tok, NEW v \in Int, IsNum(tok, 2, v), v <= 59
    PROVE  is_valid_number("M", tok) /\ is_valid_number("S", tok) /\ (v <= 23 => is_valid_number("H", tok))
  <1>1. 2 <= 2 /\ v <= 60
    BY SMT
  <1>2. is_valid_number("M", tok)
    BY <1>1, Zenon DEF is_valid_number, IsNum
  <1>3. is_valid_number("S", tok)
    BY <1>1, Zenon DEF is_valid_number, IsNum
  <1>4. v <= 23 => is_valid_number("H", tok)
    BY <1>1, Zenon DEF is_valid_number, IsNum
  <1> QED
    BY <1>2, <1>3, <1>4, Zenon

Hour(sod) == sod \div 3600
Minute(sod) == (sod \div 60) % 60
Second(sod) == sod % 60
IsClock(h, m, s) == h \in Int /\ h <= 23 /\ h <= 59 /\ m \in Int /\ m <= 59 /\ s \in Int /\ s <= 59
LEMMA Clock ==
    ASSUME NEW sod \in Int, 0 <= sod, sod < DaySecs
    PROVE  IsClock(Hour(sod), Minute(sod), Second(sod))
  <1>1. sod < 86400
    BY SMT DEF DaySecs
  <1>2. Hour(sod) \in Int /\ Hour(sod) <= 23
    BY <1>1, SMT DEF Hour
  <1>3. sod \div 60 \in Int
    BY SMT
  <1>4. Minute(sod) \in Int /\ Minute(sod) <= 59
    BY <1>3, SMT DEF Minute
  <1>5. Second(sod) \in Int /\ Second(sod) <= 59
    BY SMT DEF Second
  <1>6. Hour(sod) <= 59
    BY <1>2, SMTT(30)
  <1> QED
    BY <1>2, <1>4, <1>5, <1>6, Zenon DEF IsClock

LEMMA ClockTokens ==
    ASSUME NEW sod
    PROVE  time_tokens(sod) = <<Num(2, Hour(sod)), Sep(":"), Num(2, Minute(sod)), Sep(":"), Num(2, Second(sod))>>
  BY DEF time_tokens, Hour, Minute, Second

\* After the seconds: the microseconds and the zone.
LEMMA Fraction ==
    ASSUME NEW micro \in 0 .. (Base - 1), NEW zone, IsZone(zone)
    PROVE  LET r == micro_tokens(micro) \o zone_tokens(zone)
           IN  r \in Seq(Token) /\ fraction_ok(r) /\ is_time_zone(after_fraction(r))
  <1> DEFINE M == micro_tokens(micro)
             Z == zone_tokens(zone)
             r == M \o Z
             Good == r \in Seq(Token) /\ fraction_ok(r) /\ is_time_zone(after_fraction(r))
  <1>1. is_time_zone(Z) /\ Z \in Seq(Token) /\ (Z # <<>> => Z[1][1] \in {"+", "-"})
    BY ZoneTokens, Zenon
  <1>2. M = <<>> \/ \E k \in 1 .. 6, v \in Int : M = <<Sep("."), Num(k, v)>>
    BY MicroTokens, Zenon
  <1> HIDE DEF M, Z
  <1>3. ASSUME M = <<>> PROVE Good
    <2>1. r = Z
      BY <1>1, <1>3, ConcatNone, Zenon
    <2>2. Z = <<>> \/ Z[1][1] # "."
      BY <1>1, Zenon
    <2>3. fraction_ok(Z) /\ after_fraction(Z) = Z
      BY <2>2, Zenon DEF fraction_ok, after_fraction
    <2> HIDE DEF r
    <2> QED
      BY <1>1, <2>1, <2>3, Zenon
  <1>4. ASSUME NEW k \in 1 .. 6, NEW v \in Int, M = <<Sep("."), Num(k, v)>> PROVE Good
    <2>1. Sep(".") \in Token /\ Num(k, v) \in Token
      <3>1. k \in Nat
        BY SMT
      <3>2. "." \in Marks
        BY Zenon DEF Marks
      <3> QED
        BY <3>1, <3>2, SepToken, NumToken, Zenon
    <2>2. After2(<<Sep("."), Num(k, v)>> \o Z, Sep("."), Num(k, v), Z)
      BY <1>1, <2>1, TwoFirst, Zenon
    <2>3. After2(r, Sep("."), Num(k, v), Z)
      BY <1>4, <2>2, Zenon
    <2> HIDE DEF r
    <2>4. IsSep(r[1], ".") /\ IsNum(r[2], k, v) /\ r \in Seq(Token)
      BY <2>3, SepIs, NumIs, Zenon DEF After2
    <2>5. Len(r) > 1 /\ r # <<>>
      BY <1>1, <2>3, SMTT(30) DEF After2
    <2>6. k <= 6
      BY SMT
    <2>7. fraction_ok(r)
      BY <2>4, <2>5, <2>6, Zenon DEF fraction_ok, IsSep, IsNum
    <2>8. after_fraction(r) = SubSeq(r, 3, Len(r))
      BY <2>4, <2>5, Zenon DEF after_fraction, IsSep, IsNum
    <2>9. 2 \in Nat /\ 2 + 1 = 3
      BY SMT
    <2>10. SubSeq(r, 2 + 1, Len(r)) = Z
      BY <1>1, <2>3, <2>9, Rest, Zenon DEF After2
    <2> QED
      BY <1>1, <2>4, <2>7, <2>8, <2>9, <2>10, Zenon
  <1> QED
    BY <1>2, <1>3, <1>4, Zenon DEF M, Z

\* A time of day is printed as is_time() expects it.
LEMMA TimeText ==
    ASSUME NEW sod \in Int, 0 <= sod, sod < DaySecs, NEW micro \in 0 .. (Base - 1), NEW zone, IsZone(zone)
    PROVE  LET toks == time_tokens(sod) \o micro_tokens(micro) \o zone_tokens(zone)
           IN  toks \in Seq(Token) /\ is_time(toks)
  <1> DEFINE h == Hour(sod)
             m == Minute(sod)
             s == Second(sod)
             M == micro_tokens(micro)
             Z == zone_tokens(zone)
             r == M \o Z
             five == <<Num(2, h), Sep(":"), Num(2, m), Sep(":"), Num(2, s)>>
             toks == time_tokens(sod) \o M \o Z
  <1>1. IsClock(h, m, s)
    BY Clock, Zenon
  <1>2. r \in Seq(Token) /\ fraction_ok(r) /\ is_time_zone(after_fraction(r))
    BY Fraction, Zenon
  <1>3. M \in Seq(Token) /\ Z \in Seq(Token)
    <2>1. Z \in Seq(Token)
      BY ZoneTokens, Zenon
    <2>2. M \in Seq(Token)
      BY MicroSeq, Zenon
    <2> QED
      BY <2>1, <2>2, Zenon
  <1>4. toks = (five \o M) \o Z
    BY ClockTokens, Zenon
  <1> HIDE DEF h, m, s, M, Z, toks
  <1>5. Num(2, h) \in Token /\ Num(2, m) \in Token /\ Num(2, s) \in Token /\ Sep(":") \in Token
    <2>1. 2 \in Nat
      BY SMT
    <2>2. ":" \in Marks
      BY Zenon DEF Marks
    <2> QED
      BY <1>1, <2>1, <2>2, NumToken, SepToken, Zenon DEF IsClock
  <1>6. five \in Seq(Token)
    BY <1>5, SMT
  <1>7. After5(five \o r, Num(2, h), Sep(":"), Num(2, m), Sep(":"), Num(2, s), r)
    BY <1>2, <1>5, FiveFirst, Zenon
  <1> HIDE DEF five
  <1>8. (five \o M) \o Z = five \o r
    BY <1>3, <1>6, ConcatAssoc, Zenon
  <1>9. After5(toks, Num(2, h), Sep(":"), Num(2, m), Sep(":"), Num(2, s), r)
    BY <1>4, <1>7, <1>8, Zenon
  <1> HIDE DEF r
  <1>10. toks \in Seq(Token) /\ toks[1] = Num(2, h) /\ toks[2] = Sep(":") /\ toks[3] = Num(2, m)
         /\ toks[4] = Sep(":") /\ toks[5] = Num(2, s)
    BY <1>9, Zenon DEF After5
  <1>11. IsNum(toks[1], 2, h) /\ IsNum(toks[3], 2, m) /\ IsNum(toks[5], 2, s)
         /\ IsSep(toks[2], ":") /\ IsSep(toks[4], ":")
    BY <1>10, NumIs, SepIs, Zenon
  <1>12. is_valid_number("H", toks[1]) /\ is_valid_number("M", toks[3]) /\ is_valid_number("S", toks[5])
    <2>1. is_valid_number("H", toks[1])
      BY <1>1, <1>11, ValidClock, Zenon DEF IsClock
    <2>2. is_valid_number("M", toks[3])
      BY <1>1, <1>11, ValidClock, Zenon DEF IsClock
    <2>3. is_valid_number("S", toks[5])
      BY <1>1, <1>11, ValidClock, ZenonT(40) DEF IsClock
    <2> QED
      BY <2>1, <2>2, <2>3, Zenon
  <1>13. Len(toks) >= 5
    BY <1>2, <1>9, SMTT(30) DEF After5
  <1>14. 5 \in Nat /\ 5 + 1 = 6
    BY SMT
  <1>15. SubSeq(toks, 5 + 1, Len(toks)) = r
    BY <1>2, <1>9, <1>14, Rest, Zenon DEF After5
  <1>16. SubSeq(toks, 6, Len(toks)) = r
    BY <1>14, <1>15, Zenon
  <1>17. is_time(toks)
    BY <1>2, <1>11, <1>12, <1>13, <1>16, Zenon DEF is_time, IsSep
  <1> QED
    BY <1>10, <1>17, Zenon DEF toks, M, Z

-----------------------------------------------------------------------------
\* The date, in any order of year, month and day.
Letters == {"Y", "m", "d"}
StyleOk(st) == /\ \A i \in 1 .. 3 : st[i] \in Letters
               /\ \A c \in Letters : \E i \in 1 .. 3 : st[i] = c
Field(day, c) == civil(day)[c]
LEMMA FieldIs ==
    ASSUME NEW day
    PROVE  Field(day, "Y") = civil(day).Y /\ Field(day, "m") = civil(day).m /\ Field(day, "d") = civil(day).d
  BY Zenon DEF Field

LEMMA FieldInt ==
    ASSUME NEW day \in Int, NEW c \in Letters
    PROVE  Field(day, c) \in Int
  <1>1. PICK era, yoe, doy : CivilIs(day, era, yoe, doy)
    BY CivilParts, Zenon
  <1>2. era \in Int /\ EraYear(yoe) /\ civil(day).Y = YearNumber(era, yoe, doy)
    BY <1>1, Zenon DEF CivilIs
  <1>3. YearNumber(era, yoe, doy) \in Int
    BY <1>2, SMT DEF YearNumber, EraYear
  <1>4. civil(day).Y \in Int
    BY <1>2, <1>3, Zenon
  <1>5. civil(day).m \in Int /\ civil(day).d \in Int
    BY CivilOk, Zenon
  <1> QED
    BY <1>4, <1>5, FieldIs, Zenon DEF Letters

Width(c) == IF c = "Y" THEN 4 ELSE 2
Number(day, c) == Num(Width(c), Field(day, c))
LEMMA DateNumber ==
    ASSUME NEW day \in Int, NEW c \in Letters
    PROVE  Number(day, c) \in Token /\ is_valid_number(c, Number(day, c))
  <1>1. Width(c) \in Nat /\ 2 <= 2
    BY SMTT(30) DEF Width
  <1>2. Number(day, c) \in Token
    BY <1>1, FieldInt, NumToken, Zenon DEF Number
  <1> DEFINE tok == Number(day, c)
             v == Field(day, c)
  <1>3. IsNum(tok, Width(c), v)
    BY NumIs, Zenon DEF Number
  <1>4. (c = "m" => 1 <= v /\ v <= 12) /\ (c = "d" => 1 <= v /\ v <= 31) /\ v \in Int
    BY CivilOk, FieldIs, FieldInt, ZenonT(40)
  <1> HIDE DEF tok, v
  <1>5. (c = "m" => v \in 1 .. 12) /\ (c = "d" => v \in 1 .. 31)
    BY <1>4, SMT
  <1>6. is_valid_number(c, tok)
    <2>1. c \notin {"H", "M", "S"}
      BY Zenon DEF Letters
    <2>2. tok[1] = "n" /\ tok[2] = Width(c) /\ tok[3] = v
      BY <1>3, Zenon DEF IsNum
    <2>3. IF c = "Y" THEN tok[2] = 4 ELSE tok[2] <= 2
      BY <1>1, <2>2, Zenon DEF Width
    <2> QED
      BY <1>5, <2>1, <2>2, <2>3, Zenon DEF is_valid_number
  <1> QED
    BY <1>2, <1>6, Zenon DEF tok

LEMMA DateTokens ==
    ASSUME NEW day
    PROVE  date_tokens(day) = <<Number(day, style[1]), Sep("-"), Number(day, style[2]), Sep("-"), Number(day, style[3])>>
  BY Zenon DEF date_tokens, Number, Width, Field

\* No two days are printed alike.
LEMMA DatesDiffer ==
    ASSUME StyleOk(style), NEW a \in Int, NEW b \in Int, date_tokens(a) = date_tokens(b)
    PROVE  a = b
  <1>1. ASSUME NEW x1, NEW x2, NEW x3, NEW y1, NEW y2, NEW y3, NEW s,
               <<x1, s, x2, s, x3>> = <<y1, s, y2, s, y3>>
        PROVE  x1 = y1 /\ x2 = y2 /\ x3 = y3
    BY <1>1, SMT
  <1>2. Number(a, style[1]) = Number(b, style[1]) /\ Number(a, style[2]) = Number(b, style[2])
        /\ Number(a, style[3]) = Number(b, style[3])
    <2>1. <<Number(a, style[1]), Sep("-"), Number(a, style[2]), Sep("-"), Number(a, style[3])>>
            = <<Number(b, style[1]), Sep("-"), Number(b, style[2]), Sep("-"), Number(b, style[3])>>
      BY DateTokens, Zenon
    <2> QED
      BY <1>1, <2>1, Zenon
  <1>3. \A i \in 1 .. 3 : i = 1 \/ i = 2 \/ i = 3
    BY SMT
  <1>4. ASSUME NEW c \in Letters PROVE Field(a, c) = Field(b, c)
    <2>1. PICK i \in 1 .. 3 : style[i] = c
      BY Zenon DEF StyleOk
    <2>2. Number(a, c) = Number(b, c)
      BY <1>2, <1>3, <2>1, Zenon
    <2>3. IsNum(Number(a, c), Width(c), Field(a, c)) /\ IsNum(Number(b, c), Width(c), Field(b, c))
      BY NumIs, Zenon DEF Number
    <2> QED
      BY <2>2, <2>3, Zenon DEF IsNum
  <1>5. "Y" \in Letters /\ "m" \in Letters /\ "d" \in Letters
    BY Zenon DEF Letters
  <1>6. civil(a).Y = civil(b).Y /\ civil(a).m = civil(b).m /\ civil(a).d = civil(b).d
    <2>1. Field(a, "Y") = Field(b, "Y") /\ Field(a, "m") = Field(b, "m") /\ Field(a, "d") = Field(b, "d")
      BY <1>4, <1>5, Zenon
    <2> QED
      BY <2>1, FieldIs, Zenon
  <1> QED
    BY <1>6, SameDay, Zenon

LEMMA DateSeq ==
    ASSUME StyleOk(style), NEW day \in Int
    PROVE  date_tokens(day) \in Seq(Token)
  <1>1. 1 \in 1 .. 3 /\ 2 \in 1 .. 3 /\ 3 \in 1 .. 3
    BY SMT
  <1>2. style[1] \in Letters /\ style[2] \in Letters /\ style[3] \in Letters
    BY <1>1, Zenon DEF StyleOk
  <1>3. Number(day, style[1]) \in Token /\ Number(day, style[2]) \in Token /\ Number(day, style[3]) \in Token
    BY <1>2, DateNumber, Zenon
  <1>4. Sep("-") \in Token
    <2>1. "-" \in Marks
      BY Zenon DEF Marks
    <2> QED
      BY <2>1, SepToken, Zenon
  <1>5. \A a, b, c, s \in Token : <<a, s, b, s, c>> \in Seq(Token)
    BY SMTT(30)
  <1> QED
    BY <1>3, <1>4, <1>5, DateTokens, Zenon

\* A date, and what follows it, is printed as the validation expects it.
AfterDate(r) == r = <<>> \/ (r[1][1] = " " /\ is_time(Tail(r)))
LEMMA DateText ==
    ASSUME StyleOk(style), NEW type, type \notin TimeTypes, NEW day \in Int, NEW r \in Seq(Token), AfterDate(r)
    PROVE  is_date_time_literal_in_valid_format(type, date_tokens(day) \o r)
  <1> DEFINE N(i) == Number(day, style[i])
             toks == date_tokens(day) \o r
  <1>1. 1 \in 1 .. 3 /\ 2 \in 1 .. 3 /\ 3 \in 1 .. 3 /\ (\A i \in 1 .. 3 : i = 1 \/ i = 2 \/ i = 3)
    BY SMT
  <1>2. style[1] \in Letters /\ style[2] \in Letters /\ style[3] \in Letters
    BY <1>1, Zenon DEF StyleOk
  <1>3. \A i \in 1 .. 3 : N(i) \in Token /\ is_valid_number(style[i], N(i))
    BY <1>1, <1>2, DateNumber, Zenon
  <1>4. toks = <<N(1), Sep("-"), N(2), Sep("-"), N(3)>> \o r
    BY DateTokens, Zenon
  <1>5. Sep("-") \in Token /\ IsSep(Sep("-"), "-")
    <2>1. "-" \in Marks
      BY Zenon DEF Marks
    <2> QED
      BY <2>1, SepToken, SepIs, Zenon
  <1> HIDE DEF N, toks
  <1>6. N(1) \in Token /\ N(2) \in Token /\ N(3) \in Token
    BY <1>1, <1>3, Zenon
  <1>7. After5(<<N(1), Sep("-"), N(2), Sep("-"), N(3)>> \o r, N(1), Sep("-"), N(2), Sep("-"), N(3), r)
    BY <1>5, <1>6, FiveFirst, Zenon
  <1>8. After5(toks, N(1), Sep("-"), N(2), Sep("-"), N(3), r)
    BY <1>4, <1>7, Zenon
  <1>9. toks[1] = N(1) /\ toks[3] = N(2) /\ toks[5] = N(3) /\ toks[2][1] = "-" /\ toks[4][1] = "-"
    BY <1>5, <1>8, Zenon DEF After5, IsSep
  <1>10. Len(toks) >= 5
    BY <1>8, SMTT(30) DEF After5
  <1>11. (2 * 1) - 1 = 1 /\ (2 * 2) - 1 = 3 /\ (2 * 3) - 1 = 5
    BY SMT
  <1>12. \A i \in 1 .. 3 : is_valid_number(style[i], toks[(2 * i) - 1])
    <2> SUFFICES ASSUME NEW i \in 1 .. 3 PROVE is_valid_number(style[i], toks[(2 * i) - 1])
      BY Zenon
    <2>1. is_valid_number(style[i], N(i))
      BY <1>3, Zenon
    <2>2. toks[(2 * i) - 1] = N(i)
      BY <1>1, <1>9, <1>11, Zenon
    <2> QED
      BY <2>1, <2>2, Zenon
  <1>13. SubSeq(toks, 6, Len(toks)) = r
    <2>1. 5 \in Nat /\ 5 + 1 = 6
      BY SMT
    <2>2. SubSeq(toks, 5 + 1, Len(toks)) = r
      BY <1>8, <2>1, Rest, Zenon DEF After5
    <2> QED
      BY <2>1, <2>2, Zenon
  <1>14. is_date_time_literal_in_valid_format(type, toks)
    BY <1>9, <1>10, <1>12, <1>13, Zenon DEF is_date_time_literal_in_valid_format, TimeTypes, AfterDate
  <1> QED
    BY <1>14, Zenon DEF toks

\* So is a value of every type.
LocalZone(type) == IF type \in Zoned THEN zone_of_offset ELSE NoZone
LEMMA LocalZoneText ==
    ASSUME NEW type
    PROVE  IsZone(LocalZone(type))
  <1> DEFINE a == Abs(Off)
  <1>1. Off \in Int /\ -MaxOff <= Off /\ Off <= MaxOff
    BY RangeAssumption, Zenon
  <1>2. a \in Int /\ 0 <= a /\ a <= 57599
    BY <1>1, SMTT(30) DEF Abs, MaxOff
  <1> HIDE DEF a
  <1>3. a \div 60 \in ZoneMinutes
    <2>1. a \div 60 \in Int /\ 0 <= a \div 60 /\ a \div 60 <= 959
      BY <1>2, SMTT(30)
    <2> QED
      BY <2>1, SMTT(30) DEF ZoneMinutes
  <1>5. a % 60 \in 0 .. 59
    BY <1>2, SMTT(30)
  <1>4. zone_of_offset.sign # 0 /\ zone_of_offset.min = a \div 60 /\ zone_of_offset.sec = a % 60
    BY SMT DEF zone_of_offset, a
  <1>6. IsZone(zone_of_offset)
    BY <1>3, <1>4, <1>5, Zenon DEF IsZone
  <1> QED
    BY <1>6, Zenon DEF LocalZone, IsZone

ValueOk(v) ==
    /\ v.type \in Type /\ micro_of(v.int) \in 0 .. (Base - 1)
    /\ tm_of(v).day \in Int /\ tm_of(v).sod \in Int /\ 0 <= tm_of(v).sod /\ tm_of(v).sod < DaySecs
LEMMA ValueText ==
    ASSUME StyleOk(style), NEW v, ValueOk(v)
    PROVE  is_date_time_literal_in_valid_format(v.type, text_tokens(v))
  <1> DEFINE day == tm_of(v).day
             sod == tm_of(v).sod
             micro == micro_of(v.int)
             zone == LocalZone(v.type)
             time == time_tokens(sod) \o micro_tokens(micro) \o zone_tokens(zone)
  <1>1. /\ v.type \in Type /\ micro \in 0 .. (Base - 1) /\ day \in Int
        /\ sod \in Int /\ 0 <= sod /\ sod < DaySecs
    BY Zenon DEF ValueOk
  <1>2. /\ InternalFormat2Text(v).day = day /\ InternalFormat2Text(v).sod = sod
        /\ InternalFormat2Text(v).micro = micro /\ InternalFormat2Text(v).zone = zone
    BY Zenon DEF InternalFormat2Text, LocalZone
  <1>3. text_tokens(v) = CASE v.type = "date" -> date_tokens(day)
                           [] v.type \in {"time", "timetz"} -> time
                           [] OTHER -> date_tokens(day) \o <<Sep(" ")>> \o time
    BY <1>2, Zenon DEF text_tokens
  <1>4. time \in Seq(Token) /\ is_time(time)
    BY <1>1, LocalZoneText, TimeText, Zenon
  <1> HIDE DEF day, sod, micro, zone, time
  <1>5. CASE v.type = "date"
    <2>1. text_tokens(v) = date_tokens(day)
      BY <1>3, <1>5, Zenon
    <2>2. is_date_time_literal_in_valid_format(v.type, date_tokens(day) \o <<>>)
      BY <1>1, <1>5, NoTokens, DateText, Zenon DEF TimeTypes, AfterDate
    <2>3. date_tokens(day) \o <<>> = date_tokens(day)
      BY <1>1, DateSeq, ConcatNone, Zenon
    <2> QED
      BY <2>1, <2>2, <2>3, Zenon
  <1>6. CASE v.type \in {"time", "timetz"}
    <2>1. text_tokens(v) = time
      BY <1>3, <1>6, Zenon
    <2> QED
      BY <1>4, <1>6, <2>1, Zenon DEF is_date_time_literal_in_valid_format
  <1>7. CASE v.type \in {"timestamp", "timestamptz"}
    <2> DEFINE r == <<Sep(" ")>> \o time
    <2>1. text_tokens(v) = (date_tokens(day) \o <<Sep(" ")>>) \o time
      BY <1>3, <1>7, Zenon
    <2>2. Sep(" ") \in Token /\ IsSep(Sep(" "), " ")
      <3>1. " " \in Marks
        BY Zenon DEF Marks
      <3> QED
        BY <3>1, SepToken, SepIs, Zenon
    <2>3. <<Sep(" ")>> \in Seq(Token) /\ date_tokens(day) \in Seq(Token)
      BY <1>1, <2>2, OneToken, DateSeq, Zenon
    <2>4. After1(r, Sep(" "), time)
      BY <1>4, <2>2, OneFirst, Zenon
    <2>5. (date_tokens(day) \o <<Sep(" ")>>) \o time = date_tokens(day) \o r
      BY <1>4, <2>3, ConcatAssoc, Zenon
    <2> HIDE DEF r
    <2>6. r \in Seq(Token) /\ AfterDate(r)
      BY <1>4, <2>2, <2>4, Zenon DEF After1, IsSep, AfterDate
    <2>7. v.type \notin TimeTypes
      BY <1>7, Zenon DEF TimeTypes
    <2>8. is_date_time_literal_in_valid_format(v.type, date_tokens(day) \o r)
      BY <1>1, <2>6, <2>7, DateText, Zenon
    <2> QED
      BY <2>1, <2>5, <2>8, Zenon
  <1> QED
    BY <1>1, <1>5, <1>6, <1>7, Zenon DEF Type, Zoned

-----------------------------------------------------------------------------
\* The offset of the local zone is read back as it was printed.
LEMMA LocalOffset ==
    zone_of_offset # NoZone /\ zone_offset(zone_of_offset) = Off
  <1> DEFINE a == Abs(Off)
             m == a \div 60
             s == a % 60
             g == IF Off < 0 THEN -1 ELSE 1
  <1>1. Off \in Int /\ (Off < 0 => Off <= -60)
    BY RangeAssumption, Zenon
  <1>2. a \in Int /\ 0 <= a /\ (Off < 0 => a = -Off /\ a >= 60) /\ (~(Off < 0) => a = Off)
    BY <1>1, SMT DEF Abs
  <1>3. zone_of_offset = [sign |-> g, min |-> m, sec |-> s]
    BY Zenon DEF zone_of_offset
  <1> HIDE DEF a
  <1>4. m \in Int /\ s \in Int /\ 0 <= m /\ 0 <= s /\ s <= 59 /\ a = (m * 60) + s /\ (a >= 60 => m >= 1)
    BY <1>2, SMT
  <1> HIDE DEF m, s
  <1>5. g # 0
    BY SMT
  <1>6. g * m * 60 + (IF g * m * 60 < 0 THEN -s ELSE s) = Off
    BY <1>1, <1>2, <1>4, SMTT(30)
  <1> HIDE DEF g
  <1>7. zone_of_offset.sign = g /\ zone_of_offset.min = m /\ zone_of_offset.sec = s
    BY <1>3, Zenon
  <1>8. NoZone.sign = 0
    BY Zenon DEF NoZone
  <1> QED
    BY <1>5, <1>6, <1>7, <1>8, Zenon DEF zone_offset

LEMMA TextFields ==
    ASSUME NEW v
    PROVE  /\ InternalFormat2Text(v).day = tm_of(v).day /\ InternalFormat2Text(v).sod = tm_of(v).sod
           /\ InternalFormat2Text(v).micro = micro_of(v.int) /\ InternalFormat2Text(v).zone = LocalZone(v.type)
  BY Zenon DEF InternalFormat2Text, LocalZone

\* What Text2Internal does with the fields of a text.
Readable(v, type, loc, micro) ==
    /\ loc \in Int /\ tm_of(v) = gmtime(loc) /\ micro_of(v.int) = micro /\ type \notin TimeTypes
    /\ type = "date" => loc % DaySecs = 0 /\ micro = 0
    /\ type \in Zoned => v.type \in Zoned
LEMMA TextRead ==
    ASSUME NEW v, NEW type, NEW loc, NEW micro, Readable(v, type, loc, micro)
    PROVE  Text2Internal(type, InternalFormat2Text(v)) = add_micro_seconds(Utc(type, loc), micro)
  <1> DEFINE text == InternalFormat2Text(v)
             day == loc \div DaySecs
             sod == loc % DaySecs
             off == IF type \notin Zoned THEN 0
                    ELSE IF text.zone = NoZone THEN Off ELSE zone_offset(text.zone)
             tm == [day |-> IF type \in {"time", "timetz"} THEN Day0 ELSE text.day,
                    sod |-> IF type = "date" THEN 0 ELSE text.sod]
  <1>0. /\ loc \in Int /\ tm_of(v) = gmtime(loc) /\ micro_of(v.int) = micro /\ type \notin TimeTypes
        /\ type = "date" => sod = 0 /\ micro = 0
        /\ type \in Zoned => v.type \in Zoned
    BY Zenon DEF Readable
  <1>1. gmtime(loc) = [day |-> day, sod |-> sod] /\ day \in Int /\ sod \in 0 .. (DaySecs - 1)
        /\ (day * DaySecs) + sod = loc
    BY <1>0, BrokenDown, Zenon
  <1> HIDE DEF day, sod
  <1>2. text.day = day /\ text.sod = sod /\ text.micro = micro /\ text.zone = LocalZone(v.type)
    <2>1. tm_of(v).day = day /\ tm_of(v).sod = sod
      <3>1. gmtime(loc).day = day /\ gmtime(loc).sod = sod
        BY Zenon DEF gmtime, day, sod
      <3> QED
        BY <1>0, <3>1, Zenon
    <2>2. text.day = tm_of(v).day /\ text.sod = tm_of(v).sod /\ text.micro = micro_of(v.int)
          /\ text.zone = LocalZone(v.type)
      BY TextFields, Zenon
    <2> QED
      BY <1>0, <2>1, <2>2, Zenon
  <1>3. Text2Internal(type, text) = add_micro_seconds(utc_mktime(tm) - off, IF type = "date" THEN 0 ELSE text.micro)
    BY Zenon DEF Text2Internal
  <1>4. utc_mktime(tm) - off = Utc(type, loc)
    <2>1. tm.day = day
      BY <1>0, <1>2, Zenon DEF TimeTypes
    <2>2. tm.sod = sod
      BY <1>0, <1>2, Zenon
    <2>3. utc_mktime(tm) = loc
      BY <1>1, <2>1, <2>2, Zenon DEF utc_mktime
    <2>4. type \notin Zoned => off = 0
      BY Zenon
    <2>5. type \in Zoned => off = Off
      BY <1>0, <1>2, LocalOffset, Zenon DEF LocalZone
    <2> HIDE DEF tm, off
    <2>6. loc - 0 = loc
      BY <1>0, SMT
    <2> QED
      BY <2>3, <2>4, <2>5, <2>6, Zenon DEF Utc
  <1>5. (IF type = "date" THEN 0 ELSE text.micro) = micro
    BY <1>0, <1>2, Zenon
  <1> HIDE DEF tm, off, text
  <1>6. Text2Internal(type, text) = add_micro_seconds(Utc(type, loc), micro)
    BY <1>3, <1>4, <1>5, Zenon
  <1> QED
    BY <1>6, Zenon DEF text

\* An exact value is found again by its text.
LEMMA FoundAgain ==
    ASSUME NEW v, NEW sh, NEW k \in 0 .. MaxOps, NEW loc, LocMeant(v, sh, k, loc), v.type \notin TimeTypes
    PROVE  /\ Text2Internal(v.type, InternalFormat2Text(v)) = v.int
           /\ v.type = "timestamptz" =>
                ConvertToLocalTimezone(v) = Text2Internal("timestamp", InternalFormat2Text(v))
  <1>1. Shows(v.type, sh, k, loc) /\ v.int = Enc(Utc(v.type, loc), sh.micro)
    BY Zenon DEF LocMeant
  <1>2. loc \in Int /\ (v.type = "date" => loc % DaySecs = 0 /\ sh.micro = 0)
    BY <1>1, Zenon DEF Shows
  <1>3. seconds_of(v.int) = Utc(v.type, loc) /\ micro_of(v.int) = sh.micro /\ tm_of(v) = gmtime(loc)
    BY ReadBack, Zenon
  <1>4. Text2Internal(v.type, InternalFormat2Text(v)) = add_micro_seconds(Utc(v.type, loc), sh.micro)
    <2>1. Readable(v, v.type, loc, sh.micro)
      BY <1>2, <1>3, SMT DEF Readable
    <2> QED
      BY <2>1, TextRead, SMTT(30)
  <1>5. add_micro_seconds(Utc(v.type, loc), sh.micro) = Enc(Utc(v.type, loc), sh.micro)
    BY <1>1, Built, Zenon
  <1>6. ASSUME v.type = "timestamptz"
        PROVE  ConvertToLocalTimezone(v) = Text2Internal("timestamp", InternalFormat2Text(v))
    <2>1. Text2Internal("timestamp", InternalFormat2Text(v)) = add_micro_seconds(Utc("timestamp", loc), sh.micro)
      <3>1. Readable(v, "timestamp", loc, sh.micro)
        BY <1>2, <1>3, SMT DEF Readable, TimeTypes, Zoned
      <3> QED
        BY <3>1, TextRead, SMTT(30)
    <2>2. Utc("timestamp", loc) = loc
      BY Zenon DEF Utc, Zoned
    <2>3. v.type \in Zoned
      BY <1>6, Zenon DEF Zoned
    <2>4. seconds_of(v.int) + Off = loc
      BY <1>1, <1>3, <2>3, UtcOk, Zenon
    <2> QED
      BY <1>3, <2>1, <2>2, <2>4, Zenon DEF ConvertToLocalTimezone
  <1> QED
    BY <1>1, <1>4, <1>5, <1>6, Zenon

-----------------------------------------------------------------------------
\* Whether exact or not, a value is an integer of one of the types.
Typed(v) == v.type \in Type /\ v.int \in Int

LEMMA DigitsInt ==
    ASSUME NEW sec \in Int, NEW micro \in Int
    PROVE  add_micro_seconds(sec, micro) \in Int
  <1> DEFINE a == (sec * Base) + (IF sec < 0 THEN -micro ELSE micro)
  <1>1. a \in Int
    BY BaseNat, SMT
  <1> HIDE DEF a
  <1>2. Word \in Int /\ WordRange \in Nat \ {0}
    BY Constants, SMT
  <1>3. a + Word \in Int
    BY <1>1, <1>2, SMT
  <1>4. (a + Word) % WordRange \in Int
    BY <1>2, <1>3, DivMod, SMTT(30)
  <1>5. Wrap(a) \in Int
    BY <1>2, <1>4, SMT DEF Wrap
  <1> QED
    BY <1>5, Zenon DEF add_micro_seconds, a

LEMMA Digits ==
    ASSUME NEW int \in Int
    PROVE  seconds_of(int) \in Int /\ micro_of(int) \in 0 .. (Base - 1)
  <1>0. Base \in Nat \ {0}
    BY BaseNat, Zenon
  <1>1. CASE int >= 0
    <2>1. int \div Base \in Int /\ int % Base \in 0 .. (Base - 1) /\ ((int \div Base) * Base) + (int % Base) = int
      BY <1>0, DivMod, Zenon
    <2>2. seconds_of(int) = int \div Base
      BY <1>1, SMT DEF seconds_of, CDiv
    <2> DEFINE q == int \div Base
               r == int % Base
               p == q * Base
    <2>3. seconds_of(int) = q /\ q \in Int /\ r \in 0 .. (Base - 1) /\ p + r = int /\ p \in Int
      BY <1>0, <2>1, <2>2, SMT
    <2>4. micro_of(int) = Abs(int - p)
      BY <2>3, Zenon DEF micro_of
    <2> HIDE DEF q, r, p
    <2>5. Abs(int - p) = r
      BY <1>0, <2>3, SMT DEF Abs
    <2> QED
      BY <2>3, <2>4, <2>5, Zenon
  <1>2. CASE int < 0
    <2> DEFINE n == -int
               q == n \div Base
               r == n % Base
               p == q * Base
    <2>0. n \in Int
      BY SMT
    <2>1. q \in Int /\ r \in 0 .. (Base - 1) /\ p + r = n
      BY <1>0, <2>0, DivMod, Zenon
    <2>2. seconds_of(int) = -q
      BY <1>2, SMT DEF seconds_of, CDiv
    <2>3. p \in Int /\ (-q) * Base = -p /\ -q \in Int
      BY <1>0, <2>1, SMT
    <2>4. micro_of(int) = Abs(int - (-p))
      BY <2>2, <2>3, Zenon DEF micro_of
    <2>5. int = -n
      BY SMT
    <2> HIDE DEF n, q, r, p
    <2>6. Abs(int - (-p)) = r
      BY <1>0, <2>0, <2>1, <2>3, <2>5, SMTT(30) DEF Abs
    <2> QED
      BY <2>1, <2>2, <2>3, <2>4, <2>6, Zenon
  <1> QED
    BY <1>1, <1>2, SMT

LEMMA TypedTime ==
    ASSUME NEW v, Typed(v)
    PROVE  \E loc \in Int : tm_of(v) = gmtime(loc)
  <1>1. seconds_of(v.int) \in Int
    BY Digits, Zenon DEF Typed
  <1>2. seconds_of(v.int) + Off \in Int
    BY <1>1, Constants, SMT
  <1> QED
    BY <1>1, <1>2, Zenon DEF tm_of, localtime

LEMMA TypedOk ==
    ASSUME NEW v, Typed(v)
    PROVE  ValueOk(v)
  <1>1. PICK loc \in Int : tm_of(v) = gmtime(loc)
    BY TypedTime, Zenon
  <1>2. gmtime(loc).day = loc \div DaySecs /\ gmtime(loc).sod = loc % DaySecs
    BY Zenon DEF gmtime
  <1>3. loc \div DaySecs \in Int /\ loc % DaySecs \in 0 .. (DaySecs - 1)
    BY BrokenDown, Zenon
  <1>4. tm_of(v).day \in Int /\ tm_of(v).sod \in 0 .. (DaySecs - 1)
    BY <1>1, <1>2, <1>3, Zenon
  <1>5. tm_of(v).sod \in Int /\ 0 <= tm_of(v).sod /\ tm_of(v).sod < DaySecs
    BY <1>4, SodInt, SMTT(30)
  <1> QED
    BY <1>4, <1>5, Digits, Zenon DEF Typed, ValueOk

LEMMA MadeTyped ==
    ASSUME NEW type \in Type, NEW sec \in Int, NEW micro \in Int
    PROVE  /\ Typed([type |-> type, int |-> add_micro_seconds(sec, micro)])
           /\ checked(type, add_micro_seconds(sec, micro)) = Error
              \/ Typed(checked(type, add_micro_seconds(sec, micro)))
  <1> DEFINE v == [type |-> type, int |-> add_micro_seconds(sec, micro)]
  <1>1. v.type = type /\ v.int = add_micro_seconds(sec, micro)
    BY Zenon
  <1>2. Typed(v)
    BY <1>1, DigitsInt, Zenon DEF Typed
  <1>3. checked(type, add_micro_seconds(sec, micro)) \in {v, Error}
    BY Zenon DEF checked
  <1> QED
    BY <1>2, <1>3, Zenon

\* The literals.
LEMMA TextNumbers ==
    ASSUME NEW text, LiteralParts(text)
    PROVE  /\ text.day \in Int /\ text.sod \in Int /\ text.micro \in Int /\ utc_mktime(text) \in Int
           /\ zone_offset(text.zone) \in Int
  <1>1. text.day \in MinDay .. MaxDay /\ text.sod \in 0 .. DaySecs /\ text.micro \in 0 .. (Base - 1)
        /\ text.zone \in ZoneText
    BY Zenon DEF LiteralParts
  <1>2. text.day \in Int /\ text.sod \in Int /\ DaySecs \in Int
    BY <1>1, Constants, SMT
  <1>3. text.micro \in Int
    BY <1>1, MicroInt, Zenon
  <1>4. utc_mktime(text) \in Int
    <2>1. \A a, b, c \in Int : (a * b) + c \in Int
      BY SMT
    <2> QED
      BY <1>2, <2>1, Zenon DEF utc_mktime
  <1>5. ZoneNumbers(text.zone.sign, text.zone.min, text.zone.sec)
    <2> DEFINE z == text.zone
               NoText == [sign |-> 0, min |-> 0, sec |-> 0]
               M == 0 .. 959
               S == 0 .. 59
    <2>1. z = NoText \/ z \in [sign : {-1, 1}, min : M, sec : S]
      <3> HIDE DEF z
      <3>1. z \in ZoneText
        BY <1>1, Zenon DEF z
      <3>2. ZoneText = {NoText} \cup [sign : {-1, 1}, min : M, sec : S]
        BY SMTT(30) DEF ZoneText
      <3> HIDE DEF M, S, NoText
      <3> QED
        BY <3>1, <3>2, Zenon
    <2>2. \A m \in M, c \in S : ZoneNumbers(1, m, c) /\ ZoneNumbers(-1, m, c)
      BY SMT DEF ZoneNumbers
    <2>3. ZoneNumbers(0, 0, 0)
      BY SMT DEF ZoneNumbers
    <2> HIDE DEF z, M, S
    <2>4. CASE z = NoText
      <3>1. z.sign = 0 /\ z.min = 0 /\ z.sec = 0
        BY <2>4, SMT
      <3> QED
        BY <2>3, <3>1, Zenon DEF z
    <2>5. CASE z \in [sign : {-1, 1}, min : M, sec : S]
      <3>1. z.sign \in {-1, 1} /\ z.min \in M /\ z.sec \in S
        BY <2>5, Zenon
      <3> QED
        BY <2>2, <3>1, Zenon DEF z
    <2> QED
      BY <2>1, <2>4, <2>5, Zenon
  <1>6. zone_offset(text.zone) = ReadSeconds(text.zone.sign, text.zone.min, text.zone.sec)
    BY Zenon DEF zone_offset, ReadSeconds
  <1>7. \A s, m, c : ZoneNumbers(s, m, c) => s \in Int /\ m \in Int /\ c \in Int
    BY SMT DEF ZoneNumbers
  <1>8. \A s \in Int, m \in Int, c \in Int : ReadSeconds(s, m, c) \in Int
    BY SMT DEF ReadSeconds
  <1>9. ReadSeconds(text.zone.sign, text.zone.min, text.zone.sec) \in Int
    <2>1. text.zone.sign \in Int /\ text.zone.min \in Int /\ text.zone.sec \in Int
      BY <1>5, <1>7, Zenon
    <2> QED
      BY <1>8, <2>1, Zenon
  <1> QED
    BY <1>2, <1>3, <1>4, <1>6, <1>9, Zenon

LEMMA LiteralTyped ==
    ASSUME NEW type \in Type, NEW text, LiteralParts(text)
    PROVE  Typed([type |-> type, int |-> Text2Internal(type, text)])
  <1> DEFINE tm == [day |-> IF type \in {"time", "timetz"} THEN Day0 ELSE text.day,
                    sod |-> IF type = "date" THEN 0 ELSE text.sod]
             off == IF type \notin Zoned THEN 0
                    ELSE IF text.zone = NoZone THEN Off ELSE zone_offset(text.zone)
             micro == IF type = "date" THEN 0 ELSE text.micro
  <1>1. Text2Internal(type, text) = add_micro_seconds(utc_mktime(tm) - off, micro)
    BY Zenon DEF Text2Internal
  <1>2. Day0 \in Int /\ Off \in Int /\ DaySecs \in Int /\ 0 \in Int
    BY Constants, SMT
  <1>3. tm.day \in Int /\ tm.sod \in Int
    BY <1>2, TextNumbers, Zenon
  <1>4. off \in Int /\ micro \in Int
    BY <1>2, TextNumbers, Zenon
  <1> HIDE DEF tm, off, micro
  <1>5. utc_mktime(tm) - off \in Int
    BY <1>2, <1>3, <1>4, SMTT(30) DEF utc_mktime
  <1> QED
    BY <1>1, <1>4, <1>5, MadeTyped, Zenon

LEMMA ZutTyped ==
    ASSUME NEW type \in {"date", "timestamp"}, NEW text \in Texts
    PROVE  Typed(Zut(type, utc_mktime(text), text.micro))
  <1> DEFINE sec == utc_mktime(text)
             mid == utc_mktime([gmtime(sec) EXCEPT !.sod = 0])
  <1>1. sec \in Int /\ text.micro \in Int
    BY TextParts, TextNumbers, Zenon
  <1> HIDE DEF sec
  <1>2. mid = ((sec \div DaySecs) * DaySecs) + 0
    BY <1>1, Midnight, Zenon
  <1>3. sec \div DaySecs \in Int /\ DaySecs \in Int
    BY <1>1, BrokenDown, Constants, SMTT(30)
  <1>4. mid \in Int /\ 0 \in Int
    BY <1>2, <1>3, SMTT(30)
  <1> HIDE DEF mid
  <1>5. type \in Type
    BY Zenon DEF Type
  <1>6. CASE type = "timestamp"
    <2>1. Zut(type, sec, text.micro) = [type |-> type, int |-> add_micro_seconds(sec, text.micro)]
      BY <1>6, Zenon DEF Zut
    <2> QED
      BY <1>1, <1>5, <2>1, MadeTyped, Zenon DEF sec
  <1>7. CASE type # "timestamp"
    <2>1. Zut(type, sec, text.micro) = [type |-> type, int |-> add_micro_seconds(mid, 0)]
      BY <1>7, Zenon DEF Zut, mid
    <2> QED
      BY <1>4, <1>5, <2>1, MadeTyped, Zenon DEF sec
  <1> QED
    BY <1>6, <1>7, Zenon

\* The operations.
LEMMA CastTyped ==
    ASSUME NEW v, Typed(v), NEW out, <<v.type, out>> \in Casts
    PROVE  Typed(DateTimeCast(v, out))
  <1> DEFINE tm == tm_of(v)
             mid == [tm EXCEPT !.sod = 0]
             first == [tm EXCEPT !.day = Day0]
  <1>1. PICK loc \in Int : tm = gmtime(loc)
    BY TypedTime, Zenon
  <1>2. seconds_of(v.int) \in Int /\ CastMicro(v, out) \in Int
    BY Digits, MicroInt, MicroZero, Zenon DEF Typed, CastMicro
  <1> HIDE DEF tm
  <1>3. utc_mktime(tm) \in Int /\ mktime(tm) \in Int /\ utc_mktime(mid) \in Int /\ mktime(mid) \in Int
        /\ utc_mktime(first) \in Int
    <2> DEFINE q == loc \div DaySecs
               r == loc % DaySecs
    <2>1. /\ utc_mktime(tm) = loc /\ mktime(tm) = loc - Off
          /\ utc_mktime(mid) = (q * DaySecs) + 0 /\ mktime(mid) = ((q * DaySecs) + 0) - Off
          /\ utc_mktime(first) = (Day0 * DaySecs) + r
      BY <1>1, Midnight, Zenon
    <2>2. q \in Int /\ r \in Int /\ DaySecs \in Int /\ Off \in Int /\ Day0 \in Int
      BY BrokenDown, Constants, SMT
    <2> HIDE DEF q, r, mid, first
    <2> QED
      BY <2>1, <2>2, SMT
  <1>4. \E sec \in Int : DateTimeCast(v, out) = Made(out, sec, v)
    <2>1. v.type \in Type
      BY Zenon DEF Typed
    <2>2. \/ v.type = out
          \/ out = "time" /\ v.type = "timetz"
          \/ out = "time" /\ v.type \in Dated
          \/ out = "date" /\ v.type \in Dated
          \/ out = "timestamp" /\ v.type = "date"
          \/ out = "timestamp" /\ v.type = "timestamptz"
          \/ out = "timetz" /\ v.type = "time"
          \/ out = "timestamptz" /\ v.type = "date"
          \/ out = "timestamptz" /\ v.type = "timestamp"
      BY <2>1, CastKinds, Zenon
    <2> QED
      BY <1>2, <1>3, <2>2, CastMakes, Zenon DEF tm, Dated
  <1>5. out \in Type
    BY CastKinds, Zenon DEF Typed
  <1> QED
    BY <1>2, <1>4, <1>5, MadeTyped, Zenon DEF Made

LEMMA DaysTyped ==
    ASSUME NEW v, Typed(v), NEW n \in Int
    PROVE  AddDays(v, n) = Error \/ Typed(AddDays(v, n))
  <1> DEFINE sec == seconds_of(v.int)
             micro == micro_of(v.int)
             d == sec \div DaySecs
             s == sec % DaySecs
             tm == gmtime(sec)
             later == [tm EXCEPT !.day = @ + n]
  <1>1. sec \in Int /\ micro \in Int
    BY Digits, MicroInt, Zenon DEF Typed
  <1>2. AddDays(v, n) \in {Error, checked("date", add_micro_seconds(utc_mktime(later), micro))}
    BY Zenon DEF AddDays
  <1> HIDE DEF sec, micro
  <1>3. tm = [day |-> d, sod |-> s] /\ d \in Int /\ s \in Int /\ DaySecs \in Int
    <2>1. tm = [day |-> d, sod |-> s] /\ d \in Int /\ s \in 0 .. (DaySecs - 1)
      BY <1>1, BrokenDown, Zenon
    <2>2. DaySecs \in Int
      BY Constants, SMT
    <2> QED
      BY <2>1, <2>2, SodInt, Zenon
  <1> HIDE DEF d, s, tm
  <1>4. later = [day |-> d + n, sod |-> s]
    BY <1>3, SMT
  <1> HIDE DEF later
  <1>5. utc_mktime(later) = ((d + n) * DaySecs) + s
    BY <1>4, Zenon DEF utc_mktime
  <1>6. utc_mktime(later) \in Int
    BY <1>3, <1>5, SMT
  <1>7. "date" \in Type
    BY Zenon DEF Type
  <1> QED
    BY <1>1, <1>2, <1>6, <1>7, MadeTyped, Zenon

LEMMA UtcInt ==
    ASSUME NEW v, Typed(v)
    PROVE  utc_mktime(tm_of(v)) \in Int /\ tm_of(v).sod \in Int /\ micro_of(v.int) \in Int
  <1>1. PICK loc \in Int : tm_of(v) = gmtime(loc)
    BY TypedTime, Zenon
  <1>2. utc_mktime(gmtime(loc)) = loc
    BY Midnight, Zenon
  <1>3. gmtime(loc).sod \in 0 .. (DaySecs - 1)
    <2>1. loc % DaySecs \in 0 .. (DaySecs - 1)
      BY BrokenDown, Zenon
    <2>2. gmtime(loc).sod = loc % DaySecs
      BY Zenon DEF gmtime
    <2> QED
      BY <2>1, <2>2, Zenon
  <1>4. micro_of(v.int) \in Int
    BY Digits, MicroInt, Zenon DEF Typed
  <1>5. utc_mktime(gmtime(loc)) \in Int /\ gmtime(loc).sod \in Int
    BY <1>2, <1>3, SodInt, Zenon
  <1> QED
    BY <1>1, <1>4, <1>5, Zenon

LEMMA TimeTyped ==
    ASSUME NEW v, Typed(v), NEW w, Typed(w)
    PROVE  /\ AddTime(v, w) = Error \/ Typed(AddTime(v, w))
           /\ SubTime(v, w) = Error \/ Typed(SubTime(v, w))
  <1> DEFINE u == utc_mktime(tm_of(v))
             x == tm_of(w).sod
             m == micro_of(v.int)
             o == micro_of(w.int)
             st == sum_type(v.type, w.type)
             carry == IF m + o >= Base THEN 1 ELSE 0
             borrow == IF m - o < -Base THEN 1 ELSE 0
  <1>1. u \in Int /\ m \in Int /\ x \in Int /\ o \in Int
    BY UtcInt, Zenon
  <1>2. st \in Type
    BY Zenon DEF sum_type, Typed, Type, Zoned
  <1>3. /\ AddTime(v, w) = checked(st, add_micro_seconds(back_to_utc(v, w, u + x + carry), (m + o) - (carry * Base)))
        /\ SubTime(v, w) = checked(st, add_micro_seconds(back_to_utc(v, w, u - x - borrow), (m - o) + (borrow * Base)))
    BY Zenon DEF AddTime, SubTime
  <1> HIDE DEF u, x, m, o, st
  <1>4. Base \in Int /\ carry \in Int /\ borrow \in Int
    BY BaseNat, SMT
  <1> HIDE DEF carry, borrow
  <1>5. /\ u + x + carry \in Int /\ (m + o) - (carry * Base) \in Int
        /\ u - x - borrow \in Int /\ (m - o) + (borrow * Base) \in Int
    BY <1>1, <1>4, SMTT(30)
  <1>6. \A y \in Int : back_to_utc(v, w, y) \in Int
    <2>1. Off \in Int
      BY Constants, Zenon
    <2> QED
      BY <2>1, SMTT(30) DEF back_to_utc
  <1>7. AddTime(v, w) = Error \/ Typed(AddTime(v, w))
    BY <1>2, <1>3, <1>5, <1>6, MadeTyped, Zenon
  <1>8. SubTime(v, w) = Error \/ Typed(SubTime(v, w))
    BY <1>2, <1>3, <1>5, <1>6, MadeTyped, Zenon
  <1> QED
    BY <1>7, <1>8, Zenon

LEMMA TimeLiteralTyped ==
    ASSUME NEW type \in {"time", "timetz"}, NEW t \in Times
    PROVE  Typed(TimeValue(type, t))
  <1>1. type \in Type /\ LiteralParts(PlusText(t))
    BY TextParts, Zenon DEF Type, Zoned
  <1>2. TimeValue(type, t) = [type |-> type, int |-> Text2Internal(type, PlusText(t))]
    BY Zenon DEF TimeValue, PlusText
  <1> QED
    BY <1>1, <1>2, LiteralTyped, Zenon

LEMMA EpochTyped ==
    Typed([type |-> "timestamp", int |-> 0])
  <1>1. 0 \in Int
    BY SMT
  <1> QED
    BY <1>1, Zenon DEF Typed, Type

\* SET DATESTYLE keeps an order of year, month and day.
LEMMA StyleKept ==
    ASSUME NEW s \in Styles, StyleOk(style), set_date_time_format_from_datestyle(s)
    PROVE  StyleOk(style')
  <1>1. style' = style \/ style' \in orders(s)
    BY Zenon DEF set_date_time_format_from_datestyle
  <1>2. ASSUME NEW run \in orders(s) PROVE StyleOk(run)
    <2>1. s \in Seq(Seq(STRING))
      BY StyleAssumption, Zenon
    <2>2. run \in {s[x] : x \in DOMAIN s} /\ is_order(run)
      BY <1>2, Zenon DEF orders, Range
    <2>3. run \in Seq(STRING)
      BY <2>1, <2>2, SMT
    <2>4. Len(run) = 3 /\ {run[x] : x \in DOMAIN run} = Letters
      BY <2>2, Zenon DEF is_order, Range, Letters
    <2>5. DOMAIN run = 1 .. 3
      BY <2>3, <2>4, SMT
    <2> QED
      BY <2>4, <2>5, Zenon DEF StyleOk
  <1> QED
    BY <1>1, <1>2, Zenon

TextInv == ValueInv /\ (val = Error \/ Typed(val)) /\ StyleOk(style)
LEMMA TextInvStep ==
    ASSUME TextInv, [Next]_vars
    PROVE  TextInv'
  <1>1. ValueInv'
    BY ValueInvStep, Zenon DEF TextInv
  <1> DEFINE T == val = Error \/ Typed(val)
             S == StyleOk(style)
  <1>2. T /\ S
    BY Zenon DEF TextInv
  <1>3. ASSUME InExpression PROVE Typed(val) /\ S'
    BY <1>2, <1>3, Zenon DEF InExpression
  <1>4. ASSUME NEW s \in Styles, set_date_time_format_from_datestyle(s) PROVE T' /\ S'
    <2>1. val' = val
      BY <1>4, Zenon DEF set_date_time_format_from_datestyle
    <2> QED
      BY <1>2, <1>4, <2>1, StyleKept, Zenon
  <1>5. ASSUME NEW type \in Type, NEW text \in Texts, Literal(type, text) PROVE T' /\ S'
    BY <1>2, <1>5, TextParts, LiteralTyped, Zenon DEF Literal
  <1>6. ASSUME NEW type \in {"date", "timestamp"}, NEW text \in Texts, ZutLiteral(type, text) PROVE T' /\ S'
    BY <1>2, <1>6, ZutTyped, Zenon DEF ZutLiteral
  <1>7. ASSUME NEW out \in Type, Cast(out) PROVE T' /\ S'
    BY <1>3, <1>7, CastTyped, Zenon DEF Cast
  <1>8. ASSUME NEW n \in Days, PlusDays(n) PROVE T' /\ S'
    <2>1. n \in Int
      BY LiteralAssumption, Zenon
    <2> QED
      BY <1>3, <1>8, <2>1, DaysTyped, Zenon DEF PlusDays
  <1>9. ASSUME NEW type \in {"time", "timetz"}, NEW t \in Times, PlusTime(type, t) PROVE T' /\ S'
    <2> DEFINE w == TimeValue(type, t)
    <2>1. InExpression /\ val' \in sums_of(val, w)
      BY <1>9, Zenon DEF PlusTime
    <2>2. Typed(w)
      BY TimeLiteralTyped, Zenon
    <2> HIDE DEF w
    <2>3. val' = AddTime(val, w) \/ val' = AddTime(w, val)
      BY <2>1, Zenon DEF sums_of
    <2> QED
      BY <1>3, <2>1, <2>2, <2>3, TimeTyped, Zenon
  <1>10. ASSUME NEW t \in Times, MinusTime(t) PROVE T' /\ S'
    <2>1. InExpression /\ val' = SubTime(val, TimeValue("time", t))
      BY <1>10, Zenon DEF MinusTime
    <2> QED
      BY <1>3, <2>1, TimeTyped, TimeLiteralTyped, Zenon
  <1>11. ASSUME NEW in \in Inputs, Validate(in[1], in[2], in[3]) PROVE T' /\ S'
    <2>1. val' = val /\ style' = style
      BY <1>11, Zenon DEF Validate
    <2> QED
      BY <1>2, <2>1, Zenon
  <1>12. ASSUME Finish PROVE T' /\ S'
    <2>1. val' = [type |-> "timestamp", int |-> 0] /\ style' = style
      BY <1>12, Zenon DEF Finish
    <2> QED
      BY <1>2, <2>1, EpochTyped, Zenon
  <1>13. ASSUME UNCHANGED vars PROVE T' /\ S'
    <2>1. val' = val /\ style' = style
      BY <1>13, Zenon DEF vars
    <2> QED
      BY <1>2, <2>1, Zenon
  <1>14. T' /\ S'
    BY <1>4, <1>5, <1>6, <1>7, <1>8, <1>9, <1>10, <1>11, <1>12, <1>13, Zenon DEF Next
  <1> QED
    BY <1>1, <1>14, Zenon DEF TextInv

\* The text of an exact value is read back as that value; every value, exact or
\* not, is printed in a format that the validation in PrintDateTimeResultColumnValue()
\* accepts, whatever DATESTYLE says, and no two days are printed alike.
THEOREM TextsReadBack == Spec => []TextReadsBack
  <1>1. Init => TextInv
    <2>1. Init => ValueInv
      BY ValueInvInit, Zenon
    <2>2. ASSUME style = <<"m", "d", "Y">> PROVE StyleOk(style)
      <3>1. style[1] = "m" /\ style[2] = "d" /\ style[3] = "Y"
        BY <2>2, SMTT(30)
      <3>2. 1 \in 1 .. 3 /\ 2 \in 1 .. 3 /\ 3 \in 1 .. 3 /\ (\A i \in 1 .. 3 : i = 1 \/ i = 2 \/ i = 3)
        BY SMTT(30)
      <3> QED
        BY <3>1, <3>2, Zenon DEF StyleOk, Letters
    <2> QED
      BY <2>1, <2>2, EpochTyped, Zenon DEF Init, TextInv
  <1>2. TextInv /\ [Next]_vars => TextInv'
    BY TextInvStep, Zenon
  <1>3. TextInv => TextReadsBack
    <2>1. SUFFICES ASSUME TextInv, val # Error PROVE TextReadsBack
      BY Zenon DEF TextReadsBack
    <2>2. StyleOk(style) /\ Typed(val) /\ ops \in 0 .. MaxOps /\ (exact => \E loc : LocMeant(val, shown, ops, loc))
      BY <2>1, Zenon DEF TextInv, ValueInv, Outcome
    <2>3. ASSUME exact, val.type \in {"date", "timestamp", "timestamptz"}
          PROVE  /\ Text2Internal(val.type, InternalFormat2Text(val)) = val.int
                 /\ val.type = "timestamptz" =>
                      ConvertToLocalTimezone(val) = Text2Internal("timestamp", InternalFormat2Text(val))
      <3>1. PICK loc : LocMeant(val, shown, ops, loc)
        BY <2>2, <2>3, Zenon
      <3>2. val.type \notin TimeTypes
        BY <2>3, Zenon DEF TimeTypes
      <3> QED
        BY <2>2, <3>1, <3>2, FoundAgain, Zenon
    <2>4. ValueOk(val)
      BY <2>2, TypedOk, Zenon
    <2>5. is_date_time_literal_in_valid_format(val.type, text_tokens(val))
      BY <2>2, <2>4, ValueText, Zenon
    <2>6. InternalFormat2Text(val).day \in Int
      BY <2>4, TextFields, Zenon DEF ValueOk
    <2>7. ASSUME NEW other \in Texts, date_tokens(other.day) = date_tokens(InternalFormat2Text(val).day)
          PROVE  other.day = InternalFormat2Text(val).day
      BY <2>2, <2>6, <2>7, TextParts, TextNumbers, DatesDiffer, Zenon
    <2> QED
      BY <2>3, <2>5, <2>7, Zenon DEF TextReadsBack
  <1> QED
    BY <1>1, <1>2, <1>3, PTL DEF Spec

-----------------------------------------------------------------------------
\* The numeric formats.  The days of HOROLOG are those of the calendar.
FirstHorolog == 47117
LEMMA HorologYears ==
    ASSUME NEW v \in Int
    PROVE  LET year == civil(v - FirstHorolog).Y
           IN  (v >= -365 /\ v <= 2980013) <=> (year >= 1840 /\ year <= 9999)
  <1> DEFINE day == v - FirstHorolog
             z == day + EpochDay
             year == civil(day).Y
  <1>0. day \in Int /\ z \in Int
    BY SMT DEF FirstHorolog, EpochDay
  <1>1. (z >= 671986 <=> v >= -365) /\ (z <= 3652364 <=> v <= 2980013)
    BY SMT DEF FirstHorolog, EpochDay
  <1> HIDE DEF day
  <1>2. PICK era, yoe, doy : CivilIs(day, era, yoe, doy)
    BY <1>0, CivilParts, Zenon
  <1>3. era \in Int /\ EraYear(yoe) /\ YearDay(doy) /\ z = (era * EraDays) + (DaysBefore(yoe) + doy)
        /\ year = YearNumber(era, yoe, doy)
    BY <1>2, Zenon DEF CivilIs
  <1> HIDE DEF z, year
  <1> DEFINE y == YearNumber(era, yoe, doy)
  <1>4. (y >= 1840 <=> z >= 671986) /\ (y <= 9999 <=> z <= 3652364)
    BY <1>0, <1>3, YearBounds, SMTT(30)
  <1> HIDE DEF y
  <1>5. year = y
    BY <1>3, Zenon DEF y
  <1>6. (v >= -365 /\ v <= 2980013) <=> (year >= 1840 /\ year <= 9999)
    BY <1>1, <1>4, <1>5, SMTT(30)
  <1> QED
    BY <1>6, SMT DEF year, day

LEMMA HorologRange ==
    ASSUME NEW f \in Seq([given : BOOLEAN, v : Int]), Len(f) = 1, f[1].given
    PROVE  horolog_ok("date", f) <=> civil(f[1].v - 47117).Y >= 1840 /\ civil(f[1].v - 47117).Y <= 9999
  <1> DEFINE v == f[1].v
             year == civil(v - FirstHorolog).Y
  <1>1. v \in Int /\ 1 \in DOMAIN f
    <2>1. 1 \in DOMAIN f /\ f[1] \in [given : BOOLEAN, v : Int]
      <3> DEFINE R == [given : BOOLEAN, v : Int]
      <3>1. f \in Seq(R)
        OBVIOUS
      <3> HIDE DEF R
      <3>2. 1 \in DOMAIN f /\ f[1] \in R
        BY <3>1, SMTT(30)
      <3> QED
        BY <3>2, Zenon DEF R
    <2> QED
      BY <2>1, Zenon
  <1>2. has_delims(f, 0)
    BY <1>1, SMT DEF has_delims
  <1>3. horolog_ok("date", f) <=> is_date_in_horolog_range(f)
    BY <1>2, Zenon DEF horolog_ok
  <1>4. is_date_in_horolog_range(f) <=> v >= -365 /\ v <= 2980013
    BY SMT DEF is_date_in_horolog_range
  <1>5. (v >= -365 /\ v <= 2980013) <=> (year >= 1840 /\ year <= 9999)
    BY <1>1, HorologYears, SMTT(30)
  <1>6. year = civil(f[1].v - 47117).Y
    BY SMT DEF FirstHorolog
  <1> HIDE DEF v, year
  <1> QED
    BY <1>3, <1>4, <1>5, <1>6, SMTT(30)

(* The digits of a FILEMAN time, with the zeros put back, are a time of day. *)
TimeOfDay(t) ==
    LET D(i) == IF i <= Len(t) THEN t[i] ELSE 0
        Pair(i) == (10 * D(i)) + D(i + 1)
    IN  (Pair(1) < 24 /\ Pair(3) < 60 /\ Pair(5) < 60) \/ <<Pair(1), Pair(3), Pair(5)>> = <<24, 0, 0>>
LEMMA FilemanTime ==
    ASSUME NEW t \in Seq(0 .. 9), Len(t) > 1, is_time_in_fileman_range(t)
    PROVE  TimeOfDay(t)
  <1> DEFINE n == Len(t)
             D(i) == IF i <= Len(t) THEN t[i] ELSE 0
             Pair(i) == (10 * D(i)) + D(i + 1)
             Read(i) == IF n > i THEN (10 * D(i)) + D(i + 1) ELSE D(i)
             Good == (Pair(1) < 24 /\ Pair(3) < 60 /\ Pair(5) < 60) \/ (Pair(1) = 24 /\ Pair(3) = 0 /\ Pair(5) = 0)
  <1>1. n \in Int /\ n > 1
    BY SMT
  <1>2. \A i \in 1 .. 6 : D(i) \in 0 .. 9 /\ (i > n => D(i) = 0)
    BY SMT
  <1>3. /\ n <= 6 /\ (n = 3 => Read(3) < 6) /\ (n = 5 => Read(5) < 6) /\ Read(1) <= 24
        /\ IF Read(1) = 24 THEN Read(3) = 0 /\ Read(5) = 0 ELSE Read(3) <= 59 /\ Read(5) <= 59
    <2>1. n >= 2
      BY <1>1, SMT
    <2> QED
      BY <2>1, Zenon DEF is_time_in_fileman_range
  <1>4. Read(1) = Pair(1)
    BY <1>1, Zenon
  <1> HIDE DEF D, n
  <1>5. Good
    <2>1. D(1) \in 0 .. 9 /\ D(2) \in 0 .. 9 /\ D(3) \in 0 .. 9 /\ D(4) \in 0 .. 9 /\ D(5) \in 0 .. 9 /\ D(6) \in 0 .. 9
          /\ (3 > n => D(3) = 0) /\ (4 > n => D(4) = 0) /\ (5 > n => D(5) = 0) /\ (6 > n => D(6) = 0)
      BY <1>2, SMT
    <2> DEFINE d1 == D(1)
               d2 == D(2)
               d3 == D(3)
               d4 == D(4)
               d5 == D(5)
               d6 == D(6)
    <2>2. 1 + 1 = 2 /\ 3 + 1 = 4 /\ 5 + 1 = 6
      BY SMT
    <2>3. /\ Pair(1) = (10 * d1) + d2 /\ Pair(3) = (10 * d3) + d4 /\ Pair(5) = (10 * d5) + d6
          /\ Read(3) = (IF n > 3 THEN (10 * d3) + d4 ELSE d3)
          /\ Read(5) = (IF n > 5 THEN (10 * d5) + d6 ELSE d5)
      BY <2>2, Zenon
    <2> HIDE DEF Pair, Read, d1, d2, d3, d4, d5, d6
    <2>4. d1 \in 0 .. 9 /\ d2 \in 0 .. 9 /\ d3 \in 0 .. 9 /\ d4 \in 0 .. 9 /\ d5 \in 0 .. 9 /\ d6 \in 0 .. 9
          /\ (3 > n => d3 = 0) /\ (4 > n => d4 = 0) /\ (5 > n => d5 = 0) /\ (6 > n => d6 = 0)
      BY <2>1, Zenon DEF d1, d2, d3, d4, d5, d6
    <2> QED
      BY <1>1, <1>3, <1>4, <2>3, <2>4, SMTT(30)
  <1> QED
    BY <1>5, SMT DEF D, n, TimeOfDay

\* A time zone has no point and at most nine characters.
Tok == STRING \X Nat \X Int
TokWidth(tok) == IF tok[1] = "n" THEN tok[2] ELSE 1
LEMMA ZoneParts ==
    ASSUME NEW z \in Seq(Tok), is_time_zone(z)
    PROVE  /\ Len(z) \in {0, 2, 4, 6}
           /\ \A j \in 1 .. Len(z) : z[j][1] # "." /\ TokWidth(z[j]) \in Nat
           /\ \A j \in {2, 4, 6} : j <= Len(z) => TokWidth(z[j]) = 2
           /\ \A j \in {1, 3, 5} : j <= Len(z) => TokWidth(z[j]) = 1
  <1>1. CASE z = <<>>
    BY <1>1, SMT
  <1>2. CASE z # <<>>
    <2>1. /\ Len(z) \in {2, 4, 6} /\ z[1][1] \in {"+", "-"}
          /\ \A i \in {2, 4, 6} : i <= Len(z) => z[i][1] = "n" /\ z[i][2] = 2
          /\ \A i \in {3, 5} : i <= Len(z) => z[i][1] = ":"
      BY <1>2, Zenon DEF is_time_zone
    <2>2. \A j \in {2, 4, 6} : j <= Len(z) => z[j][1] # "." /\ TokWidth(z[j]) = 2
      BY <2>1, SMTT(30) DEF TokWidth
    <2>3. \A j \in {1, 3, 5} : j <= Len(z) => z[j][1] # "." /\ TokWidth(z[j]) = 1
      BY <2>1, SMT DEF TokWidth
    <2>4. \A j \in 1 .. Len(z) : j <= Len(z) /\ (j \in {2, 4, 6} \/ j \in {1, 3, 5})
      <3> DEFINE n == Len(z)
      <3>1. n \in {2, 4, 6}
        BY <2>1, Zenon
      <3> HIDE DEF n
      <3>2. \A j \in 1 .. n : j <= n /\ (j \in {2, 4, 6} \/ j \in {1, 3, 5})
        BY <3>1, SMTT(30)
      <3> QED
        BY <3>2, Zenon DEF n
    <2>5. \A j \in 1 .. Len(z) : z[j][1] # "." /\ TokWidth(z[j]) \in Nat
      BY <2>2, <2>3, <2>4, 1 \in Nat, 2 \in Nat, Zenon
    <2> QED
      BY <2>1, <2>2, <2>3, <2>5, Zenon
  <1> QED
    BY <1>1, <1>2, Zenon

LEMMA ZoneWidth ==
    ASSUME NEW z \in Seq(Tok), is_time_zone(z)
    PROVE  characters(z) <= 9
  <1> DEFINE n == Len(z)
             w(i) == IF z[i][1] = "n" THEN z[i][2] ELSE 1
             f == [i \in 0 .. n |-> IF i % 2 = 0 THEN 3 * (i \div 2) ELSE (3 * (i \div 2)) + 1]
             count[i \in 0 .. Len(z)] == IF i = 0 THEN 0 ELSE count[i - 1] + (IF z[i][1] = "n" THEN z[i][2] ELSE 1)
  <1>1. /\ n \in {0, 2, 4, 6}
        /\ \A j \in {2, 4, 6} : j <= n => w(j) = 2
        /\ \A j \in {1, 3, 5} : j <= n => w(j) = 1
    BY ZoneParts, Zenon DEF TokWidth
  <1>2. characters(z) = count[n]
    BY Zenon DEF characters
  <1>3. f = [i \in 0 .. n |-> IF i = 0 THEN 0 ELSE f[i - 1] + w(i)]
    <2> HIDE DEF n, w
    <2> DEFINE First6 == {1, 2, 3, 4, 5, 6}
               c(i) == IF i % 2 = 0 THEN 2 ELSE 1
               g(i) == IF i % 2 = 0 THEN 3 * (i \div 2) ELSE (3 * (i \div 2)) + 1
    <2>1. \A i \in 0 .. n : i = 0 \/ (i # 0 /\ i <= n /\ i - 1 \in 0 .. n /\ i \in First6)
      BY <1>1, SMTT(30)
    <2>2. \A i \in First6 : i <= n => w(i) = c(i)
      BY <1>1, SMTT(30)
    <2>3. \A i \in First6 : g(i) = g(i - 1) + c(i)
      BY SMT
    <2>4. g(0) = 0
      BY SMT
    <2>5. \A i \in 0 .. n : f[i] = g(i)
      BY Zenon
    <2> HIDE DEF g, c, Six, f
    <2>6. \A i \in 0 .. n : g(i) = IF i = 0 THEN 0 ELSE f[i - 1] + w(i)
      <3> SUFFICES ASSUME NEW i \in 0 .. n PROVE g(i) = IF i = 0 THEN 0 ELSE f[i - 1] + w(i)
        BY Zenon
      <3>1. CASE i = 0
        BY <2>4, <3>1, Zenon
      <3>2. CASE i # 0
        <4>1. g(i) = g(i - 1) + c(i) /\ w(i) = c(i) /\ f[i - 1] = g(i - 1)
          BY <2>1, <2>2, <2>3, <2>5, <3>2, Zenon
        <4> QED
          BY <3>2, <4>1, Zenon
      <3> QED
        BY <3>1, <3>2, Zenon
    <2> QED
      BY <2>6, Zenon DEF f, g
  <1>4. count = [i \in 0 .. n |-> IF i = 0 THEN 0 ELSE count[i - 1] + w(i)]
    <2> HIDE DEF f
    <2> QED
      BY <1>3, Zenon
  <1> HIDE DEF count, w, n, f
  <1>5. n \in Nat
    BY <1>1, SMT
  <1>6. count[0] = 0 /\ \A i \in 1 .. n : count[i] = count[i - 1] + w(i)
    <2>1. 0 \in 0 .. n /\ \A i \in 1 .. n : i \in 0 .. n /\ i # 0
      BY <1>5, SMT
    <2> QED
      BY <1>4, <2>1, Zenon
  <1>7. count[n] <= 9
    <2>1. \A j \in {2, 4, 6} : j <= n => w(j) = 2 /\ count[j] = count[j - 1] + w(j)
      BY <1>1, <1>5, <1>6, SMTT(30)
    <2>2. \A j \in {1, 3, 5} : j <= n => w(j) = 1 /\ count[j] = count[j - 1] + w(j)
      BY <1>1, <1>5, <1>6, SMTT(30)
    <2>3. n >= 2 => count[1] = 1 /\ count[2] = 3
      BY <1>5, <1>6, <2>1, <2>2, SMTT(30)
    <2>4. n >= 4 => count[3] = 4 /\ count[4] = 6
      BY <1>5, <2>1, <2>2, <2>3, SMTT(30)
    <2>5. n >= 6 => count[5] = 7 /\ count[6] = 9
      BY <1>5, <2>1, <2>2, <2>4, SMTT(30)
    <2> QED
      BY <1>1, <1>6, <2>3, <2>4, <2>5, SMTT(30)
  <1> QED
    BY <1>2, <1>7, Zenon

\* A point in a time stands after the seconds, and the fraction and the zone follow.
LEMMA PointInTime ==
    ASSUME NEW toks \in Seq(Tok), is_time(toks), NEW i \in 1 .. Len(toks), toks[i][1] = "."
    PROVE  i = 6 /\ LET rest == SubSeq(toks, 6, Len(toks))
                    IN  fraction_ok(rest) /\ is_time_zone(after_fraction(rest))
  <1> DEFINE n == Len(toks)
             rest == SubSeq(toks, 6, n)
             z == after_fraction(rest)
  <1>1. /\ n >= 5 /\ toks[1][1] = "n" /\ toks[2][1] = ":" /\ toks[3][1] = "n" /\ toks[4][1] = ":" /\ toks[5][1] = "n"
        /\ fraction_ok(rest) /\ is_time_zone(z)
    BY Zenon DEF is_time, is_valid_number
  <1>2. n \in Nat
    BY SMT
  <1>3. i >= 6
    <2>1. i # 1 /\ i # 2 /\ i # 3 /\ i # 4 /\ i # 5
      BY <1>1, SMTT(30)
    <2> QED
      BY <2>1, SMTT(30)
  <1>4. rest \in Seq(Tok) /\ Len(rest) = n - 5 /\ \A j \in 1 .. (n - 5) : rest[j] = toks[j + 5]
    BY <1>1, <1>2, SMTT(30)
  <1> DEFINE k == i - 5
  <1>5. k \in 1 .. Len(rest) /\ rest[k][1] = "." /\ rest # <<>>
    BY <1>2, <1>3, <1>4, SMTT(30)
  <1> HIDE DEF rest, n, k
  <1>6. CASE rest[1][1] # "."
    <2>1. z = rest
      BY <1>6, Zenon DEF after_fraction
    <2> QED
      BY <1>1, <1>4, <1>5, <2>1, ZoneParts, Zenon
  <1>7. CASE rest[1][1] = "."
    <2>1. Len(rest) > 1 /\ rest[2][1] \in {"n", "+", "-"}
      BY <1>1, <1>5, <1>7, Zenon DEF fraction_ok
    <2> DEFINE from == IF rest[2][1] = "n" THEN 3 ELSE 2
    <2>2. z = SubSeq(rest, from, Len(rest))
      BY <1>5, <1>7, Zenon DEF after_fraction
    <2>3. k # 2
      BY <1>5, <2>1, SMT
    <2>4. ASSUME k # 1 PROVE FALSE
      <3>1. from \in {2, 3}
        BY Zenon
      <3> HIDE DEF from
      <3>2. k >= 3
        BY <1>5, <2>3, <2>4, SMTT(30)
      <3> DEFINE m == Len(rest)
                 j == k + 1 - from
      <3>3. z \in Seq(Tok) /\ Len(z) = m + 1 - from
            /\ \A x \in 1 .. (m + 1 - from) : z[x] = rest[x + from - 1]
        <4> HIDE DEF z
        <4> QED
          BY <1>4, <2>1, <2>2, <3>1, SMTT(30)
      <3>4. m \in Int /\ k \in 1 .. m
        BY <1>4, <1>5, SMTT(30)
      <3> HIDE DEF m, z
      <3>5. j \in 1 .. (m + 1 - from) /\ j + from - 1 = k
        BY <3>1, <3>2, <3>4, SMTT(30)
      <3> HIDE DEF j
      <3>6. j \in 1 .. Len(z) /\ z[j] = rest[k]
        BY <3>3, <3>5, Zenon
      <3> QED
        BY <1>1, <1>5, <3>3, <3>6, ZoneParts, Zenon
    <2>5. i = 6
      BY <2>4, SMTT(30) DEF k
    <2> QED
      BY <1>1, <2>5, Zenon DEF rest, n
  <1> QED
    BY <1>6, <1>7, Zenon

\* What follows from a position of a sequence on.
LEMMA RestOf ==
    ASSUME NEW S, NEW s \in Seq(S), NEW a \in 1 .. Len(s)
    PROVE  LET rest == SubSeq(s, a, Len(s))
           IN  rest \in Seq(S) /\ rest # <<>> /\ rest[1] = s[a]
  <1>1. SubSeq(s, a, Len(s)) \in Seq(S)
    BY SMT
  <1>2. Len(SubSeq(s, a, Len(s))) = Len(s) - a + 1 /\ Len(s) \in Nat
    BY SMT
  <1>3. SubSeq(s, a, Len(s))[1] = s[a]
    BY SMT
  <1>4. SubSeq(s, a, Len(s)) # <<>>
    <2>1. Len(<<>>) = 0
      BY SMT
    <2>2. Len(s) - a + 1 # 0
      BY SMT
    <2> QED
      BY <1>2, <2>1, <2>2, Zenon
  <1> QED
    BY <1>1, <1>3, <1>4, Zenon

\* The fraction and the zone of a time fit.
LEMMA FractionInTime ==
    ASSUME NEW t \in Seq(Tok), is_time(t), NEW j \in 1 .. Len(t), t[j][1] = "."
    PROVE  FractionFits(SubSeq(t, j, Len(t)))
  <1> DEFINE rest == SubSeq(t, 6, Len(t))
             z == after_fraction(rest)
  <1>1. j = 6 /\ fraction_ok(rest) /\ is_time_zone(z)
    BY PointInTime, Zenon
  <1>2. rest \in Seq(Tok) /\ rest # <<>> /\ rest[1][1] = "."
    <2>1. 6 \in 1 .. Len(t) /\ t[6][1] = "."
      BY <1>1, Zenon
    <2>2. rest \in Seq(Tok) /\ rest # <<>> /\ rest[1] = t[6]
      BY <2>1, RestOf, Zenon
    <2> QED
      BY <2>1, <2>2, Zenon
  <1> HIDE DEF rest
  <1>3. Len(rest) > 1 /\ (rest[2][1] = "n" => rest[2][2] <= 6)
    BY <1>1, <1>2, Zenon DEF fraction_ok
  <1> DEFINE from == IF rest[2][1] = "n" THEN 3 ELSE 2
  <1>4. z = SubSeq(rest, from, Len(rest)) /\ from \in {2, 3}
    BY <1>2, Zenon DEF after_fraction
  <1> HIDE DEF from, z
  <1>5. z \in Seq(Tok)
    BY <1>2, <1>3, <1>4, SMTT(30)
  <1>6. characters(z) <= 9
    BY <1>1, <1>5, ZoneWidth, Zenon
  <1>7. FractionFits(rest)
    BY <1>3, <1>6, Zenon DEF FractionFits, z
  <1> QED
    BY <1>1, <1>7, Zenon DEF rest

\* What is_date_time_literal_in_valid_format() lets through fits the buffers.
LEMMA AcceptedText ==
    ASSUME NEW toks \in Seq(Tok), NEW type, type # "date", is_date_time_literal_in_valid_format(type, toks),
           NEW i \in DOMAIN toks, toks[i][1] = "."
    PROVE  FractionFits(SubSeq(toks, i, Len(toks)))
  <1> DEFINE n == Len(toks)
             rest == SubSeq(toks, 6, n)
             t == Tail(rest)
  <1>1. i \in 1 .. n /\ n \in Nat
    BY SMT
  <1>2. CASE type \in {"time", "timetz"}
    BY <1>1, <1>2, FractionInTime, Zenon DEF is_date_time_literal_in_valid_format
  <1>3. CASE type \notin {"time", "timetz"}
    <2>1. /\ n >= 5 /\ \A x \in 1 .. 3 : toks[(2 * x) - 1][1] = "n"
          /\ toks[2][1] = "-" /\ toks[4][1] = "-"
          /\ \/ rest = <<>>
             \/ rest[1][1] # "." /\ is_time(t)
             \/ rest[1][1] # "." /\ Len(rest) = 1
      BY <1>3, Zenon DEF is_date_time_literal_in_valid_format, is_valid_number
    <2>2. i > 5
      <3>1. (2 * 1) - 1 = 1 /\ (2 * 2) - 1 = 3 /\ (2 * 3) - 1 = 5 /\ 1 \in 1 .. 3 /\ 2 \in 1 .. 3 /\ 3 \in 1 .. 3
        BY SMT
      <3>2. toks[1][1] = "n" /\ toks[3][1] = "n" /\ toks[5][1] = "n"
        BY <2>1, <3>1, Zenon
      <3>3. i # 1 /\ i # 2 /\ i # 3 /\ i # 4 /\ i # 5
        BY <2>1, <3>2, Zenon
      <3> QED
        BY <1>1, <3>3, SMTT(30)
    <2>3. rest \in Seq(Tok) /\ Len(rest) = n - 5 /\ \A j \in 1 .. (n - 5) : rest[j] = toks[j + 5]
      BY <1>1, <2>1, SMTT(30)
    <2>4. rest # <<>> /\ rest[i - 5] = toks[i] /\ i - 5 \in 1 .. (n - 5)
      BY <1>1, <2>2, <2>3, SMTT(30)
    <2> HIDE DEF rest, n
    <2>5. i - 5 # 1
      BY <2>1, <2>4, Zenon
    <2>6. Len(rest) # 1 /\ is_time(t)
      <3>1. Len(rest) # 1
        BY <1>1, <2>3, <2>4, <2>5, SMTT(30)
      <3> QED
        BY <2>1, <2>4, <3>1, Zenon
    <2>7. t \in Seq(Tok) /\ Len(t) = n - 6 /\ \A j \in 1 .. (n - 6) : t[j] = rest[j + 1]
      BY <1>1, <2>3, <2>4, SMTT(30)
    <2> DEFINE k == i - 6
    <2> HIDE DEF t
    <2>8. k \in 1 .. (n - 6) /\ k + 1 = i - 5
      BY <1>1, <2>2, <2>5, SMTT(30)
    <2>9. k \in 1 .. Len(t) /\ t[k][1] = "."
      <3> HIDE DEF k
      <3>1. t[k] = rest[k + 1]
        BY <2>7, <2>8, Zenon
      <3> QED
        BY <2>4, <2>7, <2>8, <3>1, Zenon
    <2>10. FractionFits(SubSeq(t, k, Len(t)))
      <3> HIDE DEF k
      <3> QED
        BY <2>6, <2>7, <2>9, FractionInTime, Zenon
    <2>11. SubSeq(t, k, Len(t)) = SubSeq(toks, i, n)
      <3>1. SubSeq(t, k, Len(t)) = [j \in 1 .. (Len(t) - k + 1) |-> t[k + j - 1]]
        BY <2>7, <2>9, SMTT(30)
      <3>2. SubSeq(toks, i, n) = [j \in 1 .. (n - i + 1) |-> toks[i + j - 1]]
        BY <1>1, SMTT(30) DEF n
      <3>3. Len(t) - k + 1 = n - i + 1
        BY <1>1, <2>7, SMTT(30)
      <3>4. \A j \in 1 .. (n - i + 1) : t[k + j - 1] = toks[i + j - 1]
        <4> SUFFICES ASSUME NEW j \in 1 .. (n - i + 1)
                     PROVE  t[k + j - 1] = toks[i + j - 1]
          BY Zenon
        <4>1. k + j - 1 \in 1 .. (n - 6) /\ k + j - 1 + 1 \in 1 .. (n - 5) /\ (k + j - 1 + 1) + 5 = i + j - 1
          <5>1. i \in Int /\ n \in Int /\ i >= 7 /\ i <= n /\ j \in Int /\ 1 <= j /\ j <= n - i + 1
            BY <1>1, <2>8, SMTT(30)
          <5> QED
            BY <5>1, PlaceInTime, Zenon
        <4> DEFINE x == k + j - 1
                   y == x + 1
        <4>2. t[x] = rest[y]
          BY <2>7, <4>1, Zenon
        <4>3. rest[y] = toks[y + 5]
          BY <2>3, <4>1, Zenon
        <4> QED
          BY <4>1, <4>2, <4>3, Zenon
      <3> HIDE DEF k
      <3> QED
        BY <3>1, <3>2, <3>3, <3>4, ZenonT(40)
    <2> QED
      BY <2>10, <2>11, Zenon DEF n
  <1> QED
    BY <1>2, <1>3, Zenon

(* The literal that was validated last is of the kind its format says, and what is *)
(* kept of the answer is the answer.                                               *)
HorologParts == Seq([given : BOOLEAN, v : Int])
LitInv ==
    /\ lit.format = "horolog" => lit.in \in HorologParts /\ (lit.ok <=> horolog_ok(lit.type, lit.in))
    /\ lit.format = "fileman" => lit.in.time \in Seq(0 .. 9) /\ (lit.ok <=> fileman_ok(lit.type, lit.in))
    /\ AcceptedFitsBuffers

LEMMA NoLitInv == NoLit.format = "none"
  BY Zenon DEF NoLit

LEMMA LitInvInit == Init => LitInv
  BY NoLitInv, Zenon DEF Init, LitInv, AcceptedFitsBuffers

\* Every step keeps the invariant.
LEMMA LitInvStep == LitInv /\ [Next]_vars => LitInv'
  <1> SUFFICES ASSUME LitInv, [Next]_vars
               PROVE  LitInv'
    BY Zenon
  <1>1. ASSUME lit' = lit
        PROVE  LitInv'
    BY <1>1, Zenon DEF LitInv, AcceptedFitsBuffers
  <1>2. ASSUME lit' = NoLit
        PROVE  LitInv'
    BY <1>2, NoLitInv, Zenon DEF LitInv, AcceptedFitsBuffers
  <1>3. ASSUME NEW in \in Inputs, Validate(in[1], in[2], in[3])
        PROVE  LitInv'
    <2> DEFINE type == in[1]
               format == in[2]
               arg == in[3]
    <2>1. lit' = [type |-> type, format |-> format, in |-> arg, ok |-> validate_date_time_value(type, format, arg)]
      BY <1>3, Zenon DEF Validate
    <2> HIDE DEF type, format, arg
    <2>2. /\ lit'.type = type /\ lit'.format = format /\ lit'.in = arg
          /\ lit'.ok = validate_date_time_value(type, format, arg)
      BY <2>1, Zenon
    <2>3. /\ format = "horolog" => arg \in HorologParts
          /\ format = "fileman" => arg.time \in Seq(0 .. 9)
      BY InputAssumption, Zenon DEF format, arg, HorologParts
    <2>4. /\ format = "horolog" => (validate_date_time_value(type, format, arg) <=> horolog_ok(type, arg))
          /\ format = "fileman" => (validate_date_time_value(type, format, arg) <=> fileman_ok(type, arg))
      BY Zenon DEF validate_date_time_value
    <2>5. ASSUME format = "text", validate_date_time_value(type, format, arg), type # "date",
                 NEW i \in DOMAIN arg, arg[i][1] = "."
          PROVE  FractionFits(SubSeq(arg, i, Len(arg)))
      <3>1. arg \in Seq(Tok)
        BY <2>5, InputAssumption, Zenon DEF format, arg, Tok
      <3>2. is_date_time_literal_in_valid_format(type, arg)
        BY <2>5, Zenon DEF validate_date_time_value
      <3> QED
        BY <2>5, <3>1, <3>2, AcceptedText, Zenon
    <2>6. AcceptedFitsBuffers'
      BY <2>2, <2>5, Zenon DEF AcceptedFitsBuffers
    <2> QED
      BY <2>2, <2>3, <2>4, <2>6, Zenon DEF LitInv
  <1>4. CASE UNCHANGED vars
    BY <1>1, <1>4, ZenonT(40) DEF vars
  <1> QED
    BY <1>1, <1>2, <1>3, <1>4, Zenon
       DEF Next, set_date_time_format_from_datestyle, Literal, ZutLiteral, Cast, PlusDays, PlusTime, MinusTime,
           InExpression, Finish

\* The invariant and the ranges give the property.
LEMMA NumericFormats == LitInv => NumericFormatsAreDates
  <1> SUFFICES ASSUME LitInv
               PROVE  NumericFormatsAreDates
    BY Zenon
  <1>1. ASSUME lit.format = "horolog", lit.type = "date", Len(lit.in) = 1, lit.in[1].given
        PROVE  lit.ok <=> civil(lit.in[1].v - 47117).Y >= 1840 /\ civil(lit.in[1].v - 47117).Y <= 9999
    <2> DEFINE f == lit.in
    <2>1. f \in Seq([given : BOOLEAN, v : Int]) /\ (lit.ok <=> horolog_ok("date", f))
      BY <1>1, Zenon DEF LitInv, HorologParts
    <2> HIDE DEF f
    <2>2. horolog_ok("date", f) <=> civil(f[1].v - 47117).Y >= 1840 /\ civil(f[1].v - 47117).Y <= 9999
      BY <1>1, <2>1, HorologRange, SMTT(30) DEF f
    <2> QED
      BY <2>1, <2>2, SMTT(30) DEF f
  <1>2. ASSUME lit.ok, lit.format = "fileman", lit.type # "date", Len(lit.in.time) > 1
        PROVE  TimeOfDay(lit.in.time)
    <2> DEFINE t == lit.in.time
    <2>1. t \in Seq(0 .. 9) /\ is_time_in_fileman_range(t)
      BY <1>2, Zenon DEF LitInv, fileman_ok
    <2> HIDE DEF t
    <2>2. Len(t) > 1
      BY <1>2, Zenon DEF t
    <2>3. TimeOfDay(t)
      BY <2>1, <2>2, FilemanTime, Zenon
    <2> QED
      BY <2>3, Zenon DEF t
  <1> QED
    BY <1>1, <1>2, SMTT(30) DEF NumericFormatsAreDates, TimeOfDay

(* The validation lets a HOROLOG day through exactly when it falls in the years    *)
(* 1840 to 9999, and a FILEMAN time of two digits or more only if it is a time of  *)
(* day; a text that it lets through fits into micro[] and time_zone[], to which    *)
(* ydboctoText2InternalFormatC() copies its parts unchecked.                       *)
THEOREM AcceptedAreValid == Spec => []LiteralsValidated
  <1>1. LitInv => LiteralsValidated
    BY NumericFormats, Zenon DEF LitInv, LiteralsValidated
  <1> QED
    BY <1>1, LitInvInit, LitInvStep, PTL DEF Spec
=============================================================================
