------------------------------ MODULE TypeRules ------------------------------
(***************************************************************************)
(* The rules by which Octo types a statement (src/src/octo_type_check.h,   *)
(* ensure_same_type.c, binary_operation_data_type_check.c,                 *)
(* unary_operation_data_type_check.c, function_definition_lookup.c,        *)
(* check_column_lists_for_type_match.c and the comparison of two           *)
(* table.asterisk operands).  DataTypes applies them to statements.        *)
(*                                                                         *)
(* A type is a SqlValueType.  BOOLEAN_OR_STRING_LITERAL is the type of a   *)
(* quoted literal such as 't' that is a boolean or a string depending on   *)
(* what it meets; PARAMETER_VALUE is a $n of a prepared statement whose    *)
(* type nobody has said yet.                                               *)
(*                                                                         *)
(* The context c of a check is what the rules write besides the statement: *)
(* c.types[n] is the type remembered for $n, c.cur the parameter the rules *)
(* believe they are typing (cur_param_num, 0 before the first), c.declared *)
(* how many parameters the client declared, c.check whether the expression *)
(* is a CHECK constraint, c.used what that constraint uses, and c.bad      *)
(* whether an assertion of the code has failed.                            *)
(***************************************************************************)
EXTENDS Integers, Sequences, FiniteSets, SequencesExt

BOOLEAN_VALUE == "boolean"
INTEGER_LITERAL == "integer"
NUMERIC_LITERAL == "numeric"
STRING_LITERAL == "varchar"
BOOLEAN_OR_STRING_LITERAL == "boolean or varchar"
NUL_VALUE == "null"
PARAMETER_VALUE == "parameter"
TABLE_ASTERISK == "table.*"
UNKNOWN_SqlValueType == "unknown"

TimestampTypes == {"timestamp", "timestamptz"}
TimeTypes == {"time", "timetz"}
DateTimeTypes == {"date"} \union TimeTypes \union TimestampTypes
NumberTypes == {INTEGER_LITERAL, NUMERIC_LITERAL}

IS_NUL_VALUE(t) == t = NUL_VALUE
IS_BOOLEAN_TYPE(t) == t \in {BOOLEAN_VALUE, BOOLEAN_OR_STRING_LITERAL, NUL_VALUE}
IS_STRING_TYPE(t) == t \in {STRING_LITERAL, BOOLEAN_OR_STRING_LITERAL, NUL_VALUE}
IS_DATE_TIME_TIMESTAMP(t) == t \in DateTimeTypes
IS_TIME(t) == t \in TimeTypes

\* The type an ambiguous literal falls back to when nothing decided it.
DefaultType(t) == IF t = BOOLEAN_OR_STRING_LITERAL THEN STRING_LITERAL ELSE t

-----------------------------------------------------------------------------
(* The inference of a pair of types: NULL and an untyped parameter take    *)
(* the type of the other side, an integer becomes numeric next to a        *)
(* numeric, an ambiguous literal follows a boolean or a string.            *)

Expect(holds, c) == [c EXCEPT !.bad = @ \/ ~holds]

\* The types get_psql_type_from_sqlvaluetype describes to a client; the rest
\* is the "unknown" type.
get_psql_type_from_sqlvaluetype(t) ==
  IF t \in {BOOLEAN_VALUE, STRING_LITERAL, BOOLEAN_OR_STRING_LITERAL} \union NumberTypes \union DateTimeTypes
  THEN DefaultType(t) ELSE UNKNOWN_SqlValueType

\* And back, for a parameter whose type is known: there is no case for a boolean.
get_sqlvaluetype_from_psql_type(t) ==
  IF t \in {STRING_LITERAL} \union NumberTypes \union DateTimeTypes THEN t ELSE UNKNOWN_SqlValueType

\* The parameter typed is the one read last, whether or not it is the operand
\* at hand: cur_param_num is never taken back.
record_parameter(t, c) ==
  IF c.cur = 0 THEN c ELSE [c EXCEPT !.types[c.cur] = get_psql_type_from_sqlvaluetype(t)]

MAP_TYPE_TO_PARAMETER_VALUE(from, to, c) ==
  IF from = PARAMETER_VALUE /\ to \in {PARAMETER_VALUE} \union DateTimeTypes
  THEN [ok |-> FALSE, type |-> from, c |-> c]
  ELSE [ok |-> TRUE, type |-> to, c |-> record_parameter(to, c)]

Untyped == {PARAMETER_VALUE, NUL_VALUE}

CAST_AMBIGUOUS_TYPES(l, r, c) ==
  LET pair(x, y) == [ok |-> TRUE, l |-> x, r |-> y, c |-> c]
      left(m) == [ok |-> m.ok, l |-> m.type, r |-> r, c |-> m.c]
      right(m) == [ok |-> m.ok, l |-> l, r |-> m.type, c |-> m.c]
      decides == {BOOLEAN_VALUE, STRING_LITERAL}
  IN  IF l \in Untyped THEN left(MAP_TYPE_TO_PARAMETER_VALUE(l, r, c))
      ELSE IF r \in Untyped THEN right(MAP_TYPE_TO_PARAMETER_VALUE(r, l, c))
      ELSE IF {l, r} = NumberTypes THEN pair(NUMERIC_LITERAL, NUMERIC_LITERAL)
      ELSE IF l = BOOLEAN_OR_STRING_LITERAL /\ r \in decides THEN pair(r, r)
      ELSE IF r = BOOLEAN_OR_STRING_LITERAL /\ l \in decides THEN pair(l, l)
      ELSE pair(l, r)

-----------------------------------------------------------------------------
(* Values of one list (COALESCE, GREATEST, LEAST, a column of VALUES):     *)
(* ensure_same_type wraps one of the two values in a cast.                 *)

ADD_DATE_TIME_TIMESTAMP_CAST_STMT(e, to, pre) == [k |-> "cast", to |-> to, pre |-> pre, e |-> e]

\* The date and time types whose values t can take in.
NarrowerThan(t) ==
  IF t \in TimestampTypes
  THEN {"date"} \union (IF t = "timestamptz" THEN {"timestamp"} ELSE {})
  ELSE IF t = "timetz" THEN {"time"} ELSE {}

ensure_same_type(left, right, a, b, c0) ==
  LET takesIn(wide, narrow) == \/ narrow \in NarrowerThan(wide)
                               \/ IS_DATE_TIME_TIMESTAMP(wide) /\ narrow = STRING_LITERAL
      result(k, t, x, y) == [ok |-> TRUE, type |-> t, a |-> x, b |-> y, c |-> k.c]
      failed(k) == [ok |-> FALSE, type |-> k.r, a |-> a, b |-> b, c |-> k.c]
      \* The branch for timestamptz next to timestamp casts the value that
      \* is a timestamptz already.
      cast(k, l, r) ==
        IF takesIn(r, l) THEN result(k, r, ADD_DATE_TIME_TIMESTAMP_CAST_STMT(a, r, l), b)
        ELSE IF l = "timestamptz" /\ r = "timestamp" THEN result(k, l, ADD_DATE_TIME_TIMESTAMP_CAST_STMT(a, l, r), b)
        ELSE IF takesIn(l, r) THEN result(k, l, a, ADD_DATE_TIME_TIMESTAMP_CAST_STMT(b, l, r))
        ELSE failed(k)
      same(k) == IF ~k.ok THEN failed(k)
                 ELSE IF k.l = k.r THEN result(k, k.r, a, b)
                 ELSE cast(k, DefaultType(k.l), DefaultType(k.r))
  IN  same(CAST_AMBIGUOUS_TYPES(left, right, c0))

-----------------------------------------------------------------------------
(* Two operands table.* : as many columns, of the same types; an integer   *)
(* column is not the same as a numeric one here.  A $n compared with a     *)
(* table takes its type, and is unpacked as if it were one.                *)

IsSubquery(e) == e.k \in {"sub", "setop"}
is_stmt_table_asterisk(e) == e.k = "star"
IsColumnAlias(e) == e.k \in {"col", "star"}

Indices(s) == [i \in DOMAIN s |-> i]

compare_column_count_and_column_type_of_tables(a, b, c) ==
  LET match(k, i) == [ok |-> k.ok /\ k.l = k.r /\ {a.types[i], b.types[i]} # NumberTypes, c |-> k.c]
      Column(acc, i) == IF acc.ok THEN match(CAST_AMBIGUOUS_TYPES(a.types[i], b.types[i], acc.c), i) ELSE acc
  IN  IF ~(is_stmt_table_asterisk(a) /\ is_stmt_table_asterisk(b)) THEN [ok |-> FALSE, c |-> Expect(FALSE, c)]
      ELSE IF Len(a.types) # Len(b.types) THEN [ok |-> FALSE, c |-> c]
      ELSE FoldLeft(Column, [ok |-> TRUE, c |-> c], Indices(a.types))

\* NULL may stand between the tables of an IN list.
compare_each(a, items, c) ==
  LET Item(acc, e) == IF acc.ok /\ is_stmt_table_asterisk(e)
                      THEN compare_column_count_and_column_type_of_tables(a, e, acc.c) ELSE acc
  IN  FoldLeft(Item, [ok |-> TRUE, c |-> c], items)

\* l0 and r0 are the types of the operands before the inference.
validate_table_asterisk_binary_operation(op, a, b, l0, r0, c) ==
  LET other == IF is_stmt_table_asterisk(a) THEN b ELSE a
      bothTables == ~IS_NUL_VALUE(l0) /\ ~IS_NUL_VALUE(r0)
      valid == [ok |-> TRUE, c |-> c]
      invalid == [ok |-> FALSE, c |-> c]
  IN  IF op = "is" THEN [valid EXCEPT !.c = Expect(IS_NUL_VALUE(r0), c)]
      ELSE IF IsSubquery(other) \/ op = "quantified" THEN invalid
      ELSE IF op = "in" THEN IF bothTables THEN compare_each(a, b.items, c) ELSE valid
      ELSE IF bothTables THEN compare_column_count_and_column_type_of_tables(a, b, c)
      ELSE IF IsColumnAlias(other) THEN invalid ELSE valid

-----------------------------------------------------------------------------
(* Operators of two operands.  The operators are grouped as the switch     *)
(* does: "*" stands for *, / and %, "<" for the orderings, "=" for = and   *)
(* !=, "and" for AND and OR, "quantified" for the ANY and ALL forms; a     *)
(* LIKE or SIMILAR TO whose pattern is a literal without wildcards is      *)
(* "like literal".                                                         *)

ArithmeticOps == {"+", "-", "*"}
DateTimeOps == {"date +", "date -"}
LikeOps == {"like", "like literal"}
ComparisonOps == {"=", "<", "is", "in", "quantified"}

\* What subtracting and adding date and time values gives; the pairs that are
\* missing are refused (they would need an INTERVAL).
SUBTRACTION_type(l, r) ==
  IF <<l, r>> \in {<<"date", "date">>, <<"date", NUL_VALUE>>} THEN INTEGER_LITERAL
  ELSE IF <<l, r>> = <<"date", "time">> THEN "timestamp"
  ELSE IF <<l, r>> = <<"date", INTEGER_LITERAL>> THEN "date"
  ELSE IF l \in {"timetz"} \union TimestampTypes /\ r \in {"time", NUL_VALUE} THEN l
  ELSE UNKNOWN_SqlValueType

ADDITION_type(l, r) ==
  LET pair == {l, r}
      widest == (pair \ {"time"}) \intersect ({"timetz"} \union TimestampTypes)
  IN  IF pair = {"date", "time"} THEN "timestamp"
      ELSE IF pair = {"date", "timetz"} THEN "timestamptz"
      ELSE IF pair = {"date", INTEGER_LITERAL} THEN "date"
      ELSE IF "time" \in pair /\ widest # {} THEN CHOOSE t \in widest : TRUE
      ELSE IF pair \in {{NUL_VALUE, "time"}, {NUL_VALUE, "timestamp"}} THEN CHOOSE t \in pair : t # NUL_VALUE
      ELSE UNKNOWN_SqlValueType

Reject(n, c) == [ok |-> FALSE, type |-> UNKNOWN_SqlValueType, t |-> n, c |-> c]
Accept(type, n, c) == [ok |-> TRUE, type |-> type, t |-> n, c |-> c]

\* Mutant: the node does not keep the type of the date operation.
arithmetic_check_untyped(n, l, r, l0, r0, c) ==
  LET allowed == NumberTypes \union {NUL_VALUE} \union (IF n.op = "*" THEN {} ELSE DateTimeTypes)
      dated == IS_DATE_TIME_TIMESTAMP(l) \/ IS_DATE_TIME_TIMESTAMP(r)
      type == IF n.op = "+" THEN ADDITION_type(l0, r0) ELSE SUBTRACTION_type(l0, r0)
  IN  IF ~({l, r} \subseteq allowed) THEN Reject(n, c)
      ELSE IF dated
           THEN IF type = UNKNOWN_SqlValueType THEN Reject(n, c)
                ELSE Accept(type, [n EXCEPT !.op = IF @ = "+" THEN "date +" ELSE "date -"], c)
      ELSE IF l = r THEN Accept(l, n, c) ELSE Reject(n, c)

arithmetic_check(n, l, r, l0, r0, c) ==
  LET allowed == NumberTypes \union {NUL_VALUE} \union (IF n.op = "*" THEN {} ELSE DateTimeTypes)
      dated == IS_DATE_TIME_TIMESTAMP(l) \/ IS_DATE_TIME_TIMESTAMP(r)
      type == IF n.op = "+" THEN ADDITION_type(l0, r0) ELSE SUBTRACTION_type(l0, r0)
      datedOp == IF n.op = "+" THEN "date +" ELSE "date -"
  IN  IF ~({l, r} \subseteq allowed) THEN Reject(n, c)
      ELSE IF dated
           THEN IF type = UNKNOWN_SqlValueType THEN Reject(n, c)
                ELSE Accept(type, [n EXCEPT !.op = datedOp, !.type = type], c)
      ELSE IF l = r THEN Accept(l, n, c) ELSE Reject(n, c)

\* Mutant: only the left operand of || is cast.
CONCAT_check_left(n, l, r, l0, r0, c) ==
  LET asString(e) == ADD_DATE_TIME_TIMESTAMP_CAST_STMT(e, STRING_LITERAL, BOOLEAN_VALUE)
      withNull == IS_NUL_VALUE(l0) \/ IS_NUL_VALUE(r0)
      sameKind == \/ l = TABLE_ASTERISK /\ r = TABLE_ASTERISK
                  \/ IS_DATE_TIME_TIMESTAMP(l) /\ IS_DATE_TIME_TIMESTAMP(r)
  IN  IF IS_STRING_TYPE(l) \/ IS_STRING_TYPE(r)
      THEN Accept(STRING_LITERAL, IF l = BOOLEAN_VALUE THEN [n EXCEPT !.a = asString(@)] ELSE n, c)
      ELSE IF sameKind /\ withNull THEN Accept(STRING_LITERAL, n, c)
      ELSE Reject(n, c)

\* A boolean operand of || is cast to a string, so that the operands stay
\* acceptable when the expression is visited again.
CONCAT_check(n, l, r, l0, r0, c) ==
  LET asString(e) == ADD_DATE_TIME_TIMESTAMP_CAST_STMT(e, STRING_LITERAL, BOOLEAN_VALUE)
      withNull == IS_NUL_VALUE(l0) \/ IS_NUL_VALUE(r0)
      sameKind == \/ l = TABLE_ASTERISK /\ r = TABLE_ASTERISK
                  \/ IS_DATE_TIME_TIMESTAMP(l) /\ IS_DATE_TIME_TIMESTAMP(r)
  IN  IF IS_STRING_TYPE(l) \/ IS_STRING_TYPE(r)
      THEN Accept(STRING_LITERAL,
                  IF l = BOOLEAN_VALUE THEN [n EXCEPT !.a = asString(@)]
                  ELSE IF r = BOOLEAN_VALUE THEN [n EXCEPT !.b = asString(@)]
                  ELSE n, c)
      ELSE IF sameKind /\ withNull THEN Accept(STRING_LITERAL, n, c)
      ELSE Reject(n, c)

\* The type of a column of a set operation is that of the operation, once it
\* is known (get_set_operation_column_alias_type).
HasSetType(e) == e.k = "col" /\ e.setType # UNKNOWN_SqlValueType
SetType(e, t) == IF HasSetType(e) THEN e.setType ELSE t

\* The first column of a set operation in an IN list that differs from the
\* left operand decides.
in_list_types(n, l, r, c) ==
  LET left == SetType(n.a, l)
      columns == IF n.b.k = "list" THEN SelectSeq(n.b.items, HasSetType) ELSE <<>>
      others == SelectSeq(columns, LAMBDA e : e.setType # left)
      same == [ok |-> TRUE, l |-> left, r |-> IF columns = <<>> THEN r ELSE left, c |-> c]
  IN  IF others = <<>> THEN same ELSE CAST_AMBIGUOUS_TYPES(left, others[1].setType, c)

column_types(n, l, r, c) ==
  IF IsColumnAlias(n.a) /\ IsColumnAlias(n.b) /\ TABLE_ASTERISK \in {l, r}
  THEN [ok |-> FALSE, l |-> l, r |-> r, c |-> c]
  ELSE IF IsColumnAlias(n.a) \/ IsColumnAlias(n.b)
  THEN CAST_AMBIGUOUS_TYPES(SetType(n.a, l), SetType(n.b, r), c)
  ELSE [ok |-> TRUE, l |-> l, r |-> r, c |-> c]

\* Dates and timestamps compare with each other, and times with times.
comparable(op, l, r, r0) ==
  \/ l = r
  \/ /\ IS_DATE_TIME_TIMESTAMP(l) /\ IS_DATE_TIME_TIMESTAMP(r)
     /\ IS_TIME(l) <=> IS_TIME(r)
     /\ op = "is" => IS_NUL_VALUE(r0)

comparison_check(n, l, r, l0, r0, c) ==
  LET verdict(ok, d) == IF ok THEN Accept(BOOLEAN_VALUE, n, d) ELSE Reject(n, d)
      tables(v) == verdict(v.ok, v.c)
      values(k) == verdict(k.ok /\ comparable(n.op, k.l, k.r, r0), k.c)
  IN  IF l = TABLE_ASTERISK /\ r = TABLE_ASTERISK
      THEN tables(validate_table_asterisk_binary_operation(n.op, n.a, n.b, l0, r0, c))
      ELSE IF n.op = "in" /\ l = TABLE_ASTERISK THEN Reject(n, c)
      ELSE values(IF n.op = "in" THEN in_list_types(n, l, r, c) ELSE column_types(n, l, r, c))

binary_operation_data_type_check(n, l0, r0, c0) ==
  LET bothAre(Test(_), k) == Test(k.l) /\ Test(k.r) /\ k.l = k.r
      check(k) ==
        IF ~k.ok THEN Reject(n, k.c)
        ELSE IF n.op \in ArithmeticOps THEN arithmetic_check(n, k.l, k.r, l0, r0, k.c)
        ELSE IF n.op \in DateTimeOps THEN Accept(n.type, n, k.c)
        ELSE IF n.op = "||" THEN CONCAT_check(n, k.l, k.r, l0, r0, k.c)
        ELSE IF n.op \in ComparisonOps THEN comparison_check(n, k.l, k.r, l0, r0, k.c)
        ELSE IF n.op = "and"
             THEN IF bothAre(IS_BOOLEAN_TYPE, k) THEN Accept(BOOLEAN_VALUE, n, k.c) ELSE Reject(n, k.c)
        ELSE IF bothAre(IS_STRING_TYPE, k)
             THEN Accept(BOOLEAN_VALUE, [n EXCEPT !.op = IF @ = "like literal" THEN "=" ELSE @], k.c)
        ELSE Reject(n, k.c)
  IN  check(CAST_AMBIGUOUS_TYPES(l0, r0, c0))

-----------------------------------------------------------------------------
(* Operators of one operand: "+" is FORCE_NUM, "-" NEGATIVE.               *)

unary_operation_data_type_check(op, t) ==
  IF op = "exists" THEN [ok |-> TRUE, type |-> BOOLEAN_VALUE]
  ELSE IF op = "not" THEN [ok |-> IS_BOOLEAN_TYPE(t), type |-> IF IS_NUL_VALUE(t) THEN t ELSE BOOLEAN_VALUE]
  ELSE [ok |-> t \in NumberTypes \/ (op = "+" /\ IS_NUL_VALUE(t)), type |-> t]

-----------------------------------------------------------------------------
(* Explicit casts.                                                         *)

IsDatedCast(from, to) == IS_DATE_TIME_TIMESTAMP(from) \/ IS_DATE_TIME_TIMESTAMP(to)

dated_cast_allowed(from, to) ==
  \/ to = STRING_LITERAL
  \/ /\ IS_DATE_TIME_TIMESTAMP(to)
     /\ \/ from \in {STRING_LITERAL, PARAMETER_VALUE}
        \/ to \in {"date"} \union TimestampTypes /\ from \in {"date"} \union TimestampTypes
        \/ to = "time" /\ from \in TimeTypes \union TimestampTypes
        \/ to = "timetz" /\ from \in TimeTypes

coerce_allowed(from, to) ==
  /\ from # TABLE_ASTERISK
  /\ {from, to} # {BOOLEAN_VALUE, NUMERIC_LITERAL}
  /\ IsDatedCast(DefaultType(from), to) => dated_cast_allowed(DefaultType(from), to)

-----------------------------------------------------------------------------
(* Function calls: an exact match of the prototype, NULL counting as a     *)
(* string; failing that, the prototypes NULL and integer arguments can be  *)
(* fitted to, which must all name the same M function.                     *)

function_definition_lookup(functions, name, args) ==
  LET exact == {f \in functions : f.name = name /\ f.params = [i \in DOMAIN args |-> IF IS_NUL_VALUE(args[i]) THEN STRING_LITERAL ELSE args[i]]}
      ambiguous == \E i \in DOMAIN args : args[i] \in {NUL_VALUE, INTEGER_LITERAL}
      fits(param, arg) == \/ IS_NUL_VALUE(arg)
                          \/ arg = param
                          \/ arg = INTEGER_LITERAL /\ param = NUMERIC_LITERAL
      fitted == {f \in functions : /\ f.name = name
                                   /\ Len(f.params) = Len(args)
                                   /\ \A i \in DOMAIN args : fits(f.params[i], args[i])}
  IN  IF exact # {} THEN exact ELSE IF ambiguous THEN fitted ELSE {}

-----------------------------------------------------------------------------
(* A column of each side of a set operation (set), or of the source and    *)
(* the target of an INSERT.                                                *)

HAS_DATE(t) == t \in {"date"} \union TimestampTypes

compatible_columns(l, r, set) ==
  IF l \in NumberTypes THEN r \in {NUL_VALUE} \union NumberTypes
  ELSE IF l = BOOLEAN_VALUE THEN IS_BOOLEAN_TYPE(r)
  ELSE IF l = STRING_LITERAL THEN IS_STRING_TYPE(r) \/ IS_DATE_TIME_TIMESTAMP(r)
  ELSE IF l = BOOLEAN_OR_STRING_LITERAL THEN IS_BOOLEAN_TYPE(r) \/ IS_STRING_TYPE(r)
  ELSE IF l = "date" THEN HAS_DATE(r)
  ELSE IF l \in TimeTypes THEN IS_TIME(r)
  ELSE IF l \in TimestampTypes THEN HAS_DATE(r) \/ (~set /\ r = "time")
  ELSE IS_NUL_VALUE(l)

\* The types of the two columns afterwards: an ambiguous literal follows the
\* other side, and the left string of a set operation becomes a date.
column_type_match(l, r, set) ==
  [ok   |-> compatible_columns(l, r, set),
   l    |-> IF l = BOOLEAN_OR_STRING_LITERAL /\ r \in {BOOLEAN_VALUE, STRING_LITERAL} THEN r
            ELSE IF set /\ l = STRING_LITERAL /\ IS_DATE_TIME_TIMESTAMP(r) THEN r ELSE l,
   r    |-> IF r # BOOLEAN_OR_STRING_LITERAL THEN r
            ELSE IF l = STRING_LITERAL THEN l
            ELSE IF l \in {BOOLEAN_VALUE} \union NumberTypes THEN BOOLEAN_VALUE ELSE r,
   cast |-> set /\ l = STRING_LITERAL /\ IS_DATE_TIME_TIMESTAMP(r)]

=============================================================================
