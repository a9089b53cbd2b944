------------------------------- MODULE Dates -------------------------------
(***************************************************************************)
(* The functions on dates together: DATE_FORMAT (DateFormat) and the       *)
(* values of the types DATE, TIME and TIMESTAMP (DateTime).  They keep     *)
(* nothing from each other, so the steps of one are taken while the other  *)
(* is in its first state.                                                  *)
(***************************************************************************)
EXTENDS DateFormat, DateTime

DatesInit == FormatInit /\ Init
FormatStep ==
    /\ ops = 0 /\ lit.format = "none" /\ style = <<"m", "d", "Y">>
    /\ FormatNext /\ UNCHANGED vars
ValueStep ==
    /\ cal # NULL /\ days = 0 /\ \A y \in DOMAIN Jan1 : start <= y
    /\ Next /\ UNCHANGED formatVars
DatesSpec == DatesInit /\ [][FormatStep \/ ValueStep]_<<formatVars, vars>>
=============================================================================
