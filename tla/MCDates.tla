------------------------------ MODULE MCDates ------------------------------
(* The functions on dates for TLC. *)
EXTENDS Dates, TLC

(***************************************************************************)
(* DATE_FORMAT: walks from every kind of year, starting on each weekday,   *)
(* leap or not, after a leap year or not, and around the century years.    *)
(* Literals with zero, last and impossible values of each field, and every *)
(* conversion.                                                             *)
(***************************************************************************)
MCJan1 ==
    LET table == <<5, 6, 1, 2, 3, 4, 6, 0, 1, 2, 4, 5, 6, 0, 2, 3, 4, 5, 0, 1, 2, 3, 5, 6, 0, 1, 3, 4, 5, 6>>  \* of 1999 to 2028
    IN  [y \in 1999 .. 2028 |-> table[y - 1998]]
          @@ (1699 :> 4) @@ (1700 :> 5) @@ (1899 :> 0) @@ (1900 :> 1)

DateLiterals(Y, M, D) == {[num |-> <<y, m, d>>, delim |-> <<"dash", "dash", "end">>] : y \in Y, m \in M, d \in D}
ClockLiterals ==
    [num : {<<2023, 12, 31, h, i, s>> : h \in {0, 12, 23, 24}, i \in {0, 60}, s \in {59, 60}},
     delim : {<<a, "dash", b, c, e, "other">> : a \in Delim \ {"end"},
                 b \in {"other", "alpha"}, c \in {"other", "alpha"}, e \in {"other", "dashAlpha"}}]
Short ==
    [num : {<<>>}, delim : {<<>>}]
      \cup [num : {<<2024>>}, delim : {<<"dash">>, <<"end">>}]
      \cup [num : {<<2024, 2>>}, delim : {<<"dash", "dash">>, <<"dash", "end">>, <<"dash", "dashAlpha">>}]
Letter == ToStrftime \cup {"e", "D", "f", "k", "l", "Y", "X", "x", "c", "U", "u", "V", "v", "z"}
AllFormats == {<<"%", c>> : c \in Letter} \cup {<<"%", "%", c, "%">> : c \in {"U", "M", "r"}}
MCFormatInputs ==
    (DateLiterals({0, 1900, 2000, 2023, 10000}, {0, 1, 2, 4, 12, 13}, {0, 1, 7, 28, 29, 30, 31, 32})
        \X {<<"%", "d">>})
      \cup (DateLiterals({0, 2000, 2023}, {0, 1, 2, 9, 12}, {0, 1, 29}) \X AllFormats)
      \cup ((ClockLiterals \cup Short) \X {<<"%", "r">>})

(***************************************************************************)
(* Values: microseconds of two digits and a range of three weeks on each   *)
(* side of the epoch.                                                      *)
(***************************************************************************)
Zone(sign, min, sec) == [sign |-> sign, min |-> min, sec |-> sec]
Text(day, sod, micro, zone) == [day |-> day, sod |-> sod, micro |-> micro, zone |-> zone]

mc_MinDay == -20
mc_MaxDay == 20
mc_Day0 == -3
mc_Off == -16245      \* -04:30:45
mc_Texts ==
    {Text(0, 0, 0, NoZone), Text(-1, 86399, 99, NoZone), Text(2, 86400, 50, NoZone),
     Text(-2, 100, 1, Zone(1, 330, 15)), Text(1, 80000, 40, Zone(-1, 570, 0)),
     Text(19, 86000, 60, Zone(-1, 0, 30))}
mc_Days == {-201, -25, -3, 0, 1, 19, 40, 116, 201}     \* 116 days wrap
Time(sod, micro, zone) == [sod |-> sod, micro |-> micro, zone |-> zone]
mc_Times == {Time(0, 1, NoZone), Time(86399, 99, Zone(1, 330, 15)), Time(3600, 50, Zone(-1, 570, 0))}

Run(a, b, c) == <<a, b, c>>
Blank == <<"blank">>
Iso == <<"iso">>
Comma == <<",">>
mc_Styles ==
    {<<>>, <<Iso>>, <<Run("Y", "m", "d")>>, <<Iso, Comma, Blank, Run("d", "m", "Y")>>,
     <<Run("m", "d", "Y"), Comma, Iso>>, <<Iso, Run("Y", "m", "d")>>, <<Run("Y", "m", "m")>>,
     <<<<"Y", "m">>>>, <<Comma>>, <<Iso, Comma>>, <<Run("Y", "d", "m"), Comma, Run("Y", "m", "d")>>}

Given(v) == [given |-> TRUE, v |-> v]
Missing == [given |-> FALSE, v |-> 0]
HorologDays == {-366, -365, 0, 66753, 2980013, 2980014}
Horologs ==
    {<<Given(d)>> : d \in HorologDays} \cup {<<Missing>>}
      \cup {<<Given(0), Given(s)>> : s \in {-1, 0, 86399, 86400}}
      \cup {<<Given(0), Missing>>, <<Missing, Given(1)>>}
Zhorologs ==
    {<<Given(0), Given(1), u, z>> : u \in {Missing, Given(999999), Given(1000000)},
                                    z \in {Missing, Given(-50401), Given(43200)}}
      \cup {<<Missing, Given(1), Missing, Given(0)>>, <<Given(1), Missing, Missing, Missing>>}
Digits == {0, 1, 2, 4, 5, 6}
TimeDigits ==
    {<<>>} \cup {<<a>> : a \in Digits} \cup {<<a, b>> : a, b \in Digits}
      \cup {<<a, b, c>> : a, b, c \in Digits} \cup {<<2, a, b, c>> : a, b, c \in Digits}
      \cup {<<1, 2, a, b, c>> : a, b, c \in Digits} \cup {<<2, 4, 0, a, b, c>> : a, b, c \in Digits}
      \cup {<<1, 2, 0, 1, 0, 1, 1>>}
Fileman(y, m, d, width, signed, time) ==
    [y |-> y, m |-> m, d |-> d, digits |-> width, signed |-> signed, time |-> time]
Filemans ==
    {Fileman(296, 1, 24, 7, FALSE, t) : t \in TimeDigits}
      \cup {Fileman(y, m, d, 7, FALSE, <<>>) : y \in {0, 296}, m \in {0, 12, 13}, d \in {0, 31, 32}}
      \cup {Fileman(296, 1, 1, 6, FALSE, <<>>), Fileman(296, 1, 1, 7, TRUE, <<>>)}
Zuts == {MinDay * DaySecs * Base, (MinDay * DaySecs * Base) - 1, MaxDay * DaySecs * Base,
         (MaxDay * DaySecs * Base) + 1, (MaxDay + 1) * DaySecs * Base}

Day3 == <<Num(2, 1), Sep("-"), Num(2, 2), Sep("-"), Num(4, 2023)>>
Clock == <<Num(2, 23), Sep(":"), Num(2, 59), Sep(":"), Num(2, 59)>>
Fractions == {<<>>} \cup {<<Sep("."), Num(n, 5)>> : n \in {1, 6, 7}} \cup {<<Sep(".")>>}
Zones ==
    {<<>>, <<Sep("+"), Num(2, 15)>>, <<Sep("-"), Num(2, 16)>>, <<Sep("-"), Num(2, 5), Sep(":"), Num(2, 30)>>,
     <<Sep("+"), Num(2, 5), Sep(":"), Num(2, 30), Sep(":"), Num(2, 15)>>,
     <<Sep("+"), Num(2, 5), Sep(":"), Num(2, 30), Sep(":"), Num(3, 150)>>}
Clocks == {Clock \o f \o z : f \in Fractions, z \in Zones}
TextLiterals == Clocks \cup {Day3, Day3 \o <<Sep(" ")>>} \cup {Day3 \o <<Sep(" ")>> \o c : c \in Clocks}

mc_Inputs ==
    (Type \X {"horolog"} \X Horologs) \cup (Type \X {"zhorolog"} \X Zhorologs)
      \cup (Type \X {"fileman"} \X Filemans) \cup ({"date", "time", "timestamp"} \X {"zut"} \X Zuts)
      \cup (Type \X {"text"} \X TextLiterals)
=============================================================================
