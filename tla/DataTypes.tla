------------------------------ MODULE DataTypes ------------------------------
(***************************************************************************)
(* Type inference over a parsed statement: populate_data_type.c for        *)
(* queries and DML, qualify_check_constraint.c (c.check) for the CHECK     *)
(* constraints of a table, and the helpers of both.                        *)
(*                                                                         *)
(* The parse tree is a record [k |-> kind, ...].  Visiting a node gives a  *)
(* verdict [ok, type, t, c]: whether it was accepted, its type, the tree   *)
(* as the visit left it (casts added, operators replaced, ambiguous        *)
(* literals decided) and the context.  An ambiguous literal is decided by  *)
(* a second visit, with the type to fix it to; NoFix is an ordinary visit. *)
(***************************************************************************)
EXTENDS TypeRules

CONSTANTS DefinedFunctions, Statements

NoFix == "no fix"
Nothing == [k |-> "nothing"]

SqlValue(type) == [k |-> "literal", type |-> type]
SqlParameter(n) == [k |-> "parameter", n |-> n]
SqlCoerce(to, e) == ADD_DATE_TIME_TIMESTAMP_CAST_STMT(e, to, UNKNOWN_SqlValueType)
SqlColumnAlias(type, setType) == [k |-> "col", type |-> type, setType |-> setType]
SqlTableAsterisk(types) == [k |-> "star", types |-> types]
SqlColumnList(items) == [k |-> "list", items |-> items]
SqlBinaryOperation(op, a, b) == [k |-> "binary", op |-> op, a |-> a, b |-> b, type |-> UNKNOWN_SqlValueType]
SqlUnaryOperation(op, e) == [k |-> "unary", op |-> op, e |-> e]
SqlCoalesceCall(items) == [k |-> "coalesce", items |-> items]
SqlNullIf(a, b) == [k |-> "nullif", a |-> a, b |-> b]
SqlCaseStatement(value, branches, else) == [k |-> "case", value |-> value, branches |-> branches, else |-> else]
SqlAggregateFunction(fn, e) == [k |-> "aggregate", fn |-> fn, e |-> e]
SqlFunctionCall(name, items) == [k |-> "call", name |-> name, items |-> items]
SqlTableAlias(q) == [k |-> "sub", q |-> q]
SqlTableValue(rows) == [k |-> "values", rows |-> rows, types |-> <<>>]
SqlSetOperation(a, b) == [k |-> "setop", a |-> a, b |-> b, types |-> <<>>]

\* An expression list whose types are remembered (SqlColumnListAlias).
SqlColumnListAlias(es) == [es |-> es, types |-> [i \in DOMAIN es |-> UNKNOWN_SqlValueType]]
SqlSelectStatement(from, cols, where, group, having, order) ==
  [k |-> "select", from |-> from, cols |-> SqlColumnListAlias(cols), where |-> where,
   group |-> SqlColumnListAlias(group), having |-> having, order |-> SqlColumnListAlias(order)]
SqlInsertStatement(src, types) == [k |-> "insert", src |-> src, types |-> types]
SqlUpdateStatement(where, sets) == [k |-> "update", where |-> where, sets |-> sets]
SqlDeleteFromStatement(where) == [k |-> "delete", where |-> where]

RECURSIVE populate_data_type(_, _, _)

-----------------------------------------------------------------------------
(* Subqueries.                                                             *)

RECURSIVE drill_to_table_alias(_)
drill_to_table_alias(n) == IF n.k = "setop" THEN drill_to_table_alias(n.a) ELSE n

\* The column types a subquery has to offer.
TableTypes(q) == IF q.k = "select" THEN q.cols.types ELSE q.types
OperandTypes(n) == IF n.k = "setop" THEN n.types ELSE TableTypes(n.q)

get_num_cols_in_table_alias(n) ==
  IF n.q.k = "values" THEN Len(n.q.rows[1]) ELSE Len(TableTypes(n.q))

HasManyColumns(n) == IsSubquery(n) /\ get_num_cols_in_table_alias(drill_to_table_alias(n)) > 1

\* An operand: a subquery has one column there.
Operand(n, fix, c) ==
  IF fix = NoFix /\ HasManyColumns(n) THEN Reject(n, c) ELSE populate_data_type(n, fix, c)

\* The second visit "should never fail": it is accepted with the type asked for.
Succeeds(v) == [v EXCEPT !.c = Expect(v.ok, @)]
Fixed(v, allowed) == [v EXCEPT !.c = Expect(v.ok /\ v.type \in allowed, @)]

-----------------------------------------------------------------------------
(* Leaves and casts.                                                       *)

\* Mutants: only queries turn a literal into a boolean; the literal keeps its type.
fix_literal_query(n, fix, c) ==
  LET decides == fix = STRING_LITERAL \/ (fix = BOOLEAN_VALUE /\ ~c.check)
      type == IF decides THEN fix ELSE IF c.check THEN STRING_LITERAL ELSE n.type
  IN  Accept(type, [n EXCEPT !.type = type], Expect(decides \/ (fix = n.type /\ ~c.check), c))
fix_literal_kept(n, fix, c) == Accept(n.type, n, c)

fix_literal(n, fix, c) ==
  LET decides == fix \in {BOOLEAN_VALUE, STRING_LITERAL}
      type == IF decides THEN fix ELSE IF c.check THEN STRING_LITERAL ELSE n.type
  IN  Accept(type, [n EXCEPT !.type = type], Expect(decides \/ (fix = n.type /\ ~c.check), c))

value_literal(n, fix, c) ==
  IF n.type = BOOLEAN_OR_STRING_LITERAL /\ fix # NoFix THEN fix_literal(n, fix, c) ELSE Accept(n.type, n, c)

\* The truth value UNKNOWN is a boolean on the first visit, and NULL from then on.
unknown_literal(n, c) ==
  Accept(BOOLEAN_VALUE, IF c.check THEN n ELSE SqlValue(NUL_VALUE), c)

value_parameter(n, c) ==
  LET d == [c EXCEPT !.cur = n.n]
      declared == n.n <= c.declared /\ c.types[n.n] # NoFix
      type == get_sqlvaluetype_from_psql_type(c.types[n.n])
  IN  IF ~declared THEN Accept(PARAMETER_VALUE, n, d)
      ELSE Accept(type, IF IS_DATE_TIME_TIMESTAMP(type) THEN SqlValue(type) ELSE n,
                  Expect(type # UNKNOWN_SqlValueType, d))

value_coerce(n, c) ==
  LET coerce(v, m) == IF v.ok /\ (c.check \/ coerce_allowed(v.type, n.to)) THEN Accept(n.to, m, v.c)
                      ELSE Reject(m, v.c)
      operand(v) == coerce(v, [n EXCEPT !.e = v.t, !.pre = DefaultType(v.type)])
  IN  operand(Operand(n.e, NoFix, c))

column_alias(n, c) ==
  Accept(n.type, n, IF c.check THEN [c EXCEPT !.used = @ \union {n}] ELSE c)

-----------------------------------------------------------------------------
(* Lists of values.  With same, every value is brought to the type of the  *)
(* ones before it, by casting the first value or the current one.          *)

populate_data_type_column_list(items, fix, same, c) ==
  LET start == [ok |-> TRUE, type |-> UNKNOWN_SqlValueType, items |-> items, saw |-> FALSE, c |-> c]
      agreed(acc, i, s) == [acc EXCEPT !.ok = s.ok, !.type = s.type, !.items[1] = s.a, !.items[i] = s.b, !.c = s.c]
      agree(acc, i, v) == agreed(acc, i, ensure_same_type(acc.type, v.type, acc.items[1], v.t, v.c))
      visited(acc, i, v) ==
        [acc EXCEPT !.ok = v.ok, !.items[i] = v.t, !.saw = @ \/ v.type = BOOLEAN_OR_STRING_LITERAL, !.c = v.c]
      item(acc, i, v) == IF ~v.ok \/ i = 1 \/ ~same THEN [visited(acc, i, v) EXCEPT !.type = v.type]
                         ELSE agree(visited(acc, i, v), i, v)
      Visit(acc, i) == IF acc.ok THEN item(acc, i, Operand(acc.items[i], fix, acc.c)) ELSE acc
      refixed(acc, i, v) == [acc EXCEPT !.ok = v.ok, !.items[i] = v.t, !.c = Expect(v.ok, v.c)]
      Fix(acc, i) == refixed(acc, i, populate_data_type(acc.items[i], acc.type, acc.c))
      decide(all) ==
        IF all.ok /\ all.saw /\ all.type # BOOLEAN_OR_STRING_LITERAL
        THEN FoldLeft(Fix, [all EXCEPT !.c = Expect(all.type \in {BOOLEAN_VALUE, STRING_LITERAL}, @)], Indices(items))
        ELSE all
  IN  decide(FoldLeft(Visit, start, Indices(items)))

\* COALESCE, GREATEST and LEAST: an ambiguous literal stays ambiguous when all
\* the values are, whatever the call is compared with.
coalesce_call(n, c) ==
  LET call(v) == IF v.ok /\ (c.check \/ v.type # TABLE_ASTERISK) THEN Accept(v.type, [n EXCEPT !.items = v.items], v.c)
                 ELSE Reject([n EXCEPT !.items = v.items], v.c)
  IN  call(populate_data_type_column_list(n.items, NoFix, TRUE, c))

null_if(n, c) ==
  LET ambiguous(v) == v.type = BOOLEAN_OR_STRING_LITERAL
      fix(l, r) == IF BOOLEAN_VALUE \in {l.type, r.type} THEN BOOLEAN_VALUE ELSE STRING_LITERAL
      refix(v, type, d) == IF ambiguous(v) THEN Fixed(populate_data_type(v.t, type, d), {type}) ELSE [v EXCEPT !.c = d]
      dateAndTimestamp(types) == "date" \in types /\ types \intersect TimestampTypes # {}
      call(res, m) == IF res.ok /\ (c.check \/ res.type # TABLE_ASTERISK) THEN Accept(res.type, m, res.c)
                      ELSE Reject(m, res.c)
      agreed(res) == call(res, [n EXCEPT !.a = res.a, !.b = res.b])
      decided(l, r) ==
        agreed(IF dateAndTimestamp({l.type, r.type}) /\ ~c.check
               THEN [ok |-> TRUE, type |-> l.type, a |-> l.t, b |-> r.t, c |-> l.c]
               ELSE ensure_same_type(l.type, r.type, l.t, r.t, l.c))
      fixLeft(l, r, type) == decided(refix(l, type, r.c), r)
      fixRight(l, r, type) == fixLeft(l, refix(r, type, r.c), type)
      right(l, r) == IF r.ok THEN fixRight(l, r, fix(l, r)) ELSE Reject(n, r.c)
      left(l) == IF l.ok THEN right(l, Operand(n.b, NoFix, l.c)) ELSE Reject(n, l.c)
  IN  left(Operand(n.a, NoFix, c))

-----------------------------------------------------------------------------
(* CASE.  expected is the type of the WHEN arguments, then the type of the *)
(* first THEN value; both may still change as the branches are read.       *)

cas_value(n, c) ==
  LET value(v) == IF v.type = BOOLEAN_OR_STRING_LITERAL
                  THEN Fixed(populate_data_type(v.t, STRING_LITERAL, v.c), {STRING_LITERAL}) ELSE v
  IN  IF n.value = Nothing THEN Accept(BOOLEAN_VALUE, Nothing, c) ELSE value(Operand(n.value, NoFix, c))

cas_condition(e, expected, c) ==
  LET when(v) == IF v.ok /\ v.type = BOOLEAN_OR_STRING_LITERAL /\ expected \in {BOOLEAN_VALUE, STRING_LITERAL}
                 THEN Fixed(populate_data_type(v.t, expected, v.c), {expected}) ELSE v
  IN  when(Operand(e, NoFix, c))

\* One branch: its condition against the expected type, then the value of the
\* branch after it against the first value.
cas_branch(acc0, i) ==
  LET last == i = Len(acc0.branches)
      agree(acc, k) == [acc EXCEPT !.ok = k.ok /\ k.l = k.r, !.type = k.l, !.c = k.c]
      next(acc, v) == IF v.ok THEN agree([acc EXCEPT !.branches[i + 1].then = v.t], CAST_AMBIGUOUS_TYPES(acc.type, v.type, v.c))
                      ELSE [acc EXCEPT !.ok = FALSE, !.branches[i + 1].then = v.t, !.c = v.c]
      goOn(acc) == IF acc.ok /\ ~last THEN next(acc, Operand(acc.branches[i + 1].then, NoFix, acc.c)) ELSE acc
      expect(acc, k) == goOn([acc EXCEPT !.ok = k.ok /\ k.l = k.r, !.expected = k.l, !.c = k.c])
      when(acc, v) == IF v.ok THEN expect([acc EXCEPT !.branches[i].when = v.t], CAST_AMBIGUOUS_TYPES(acc.expected, v.type, v.c))
                      ELSE [acc EXCEPT !.ok = FALSE, !.branches[i].when = v.t, !.c = v.c]
  IN  IF acc0.ok THEN when(acc0, cas_condition(acc0.branches[i].when, acc0.expected, acc0.c)) ELSE acc0

\* All the results are ambiguous (or NULL): they become strings.  A query takes
\* the type of the result visited last, which may be NULL; a CHECK does not.
cas_fix(n, c) ==
  LET fix(e, d) == Fixed(populate_data_type(e, STRING_LITERAL, d), {STRING_LITERAL, NUL_VALUE})
      then(acc, i, v) == [acc EXCEPT !.type = v.type, !.branches[i].then = v.t, !.c = v.c]
      Fix(acc, i) == then(acc, i, fix(acc.branches[i].then, acc.c))
      fixed(thens, else) == Accept(IF c.check THEN STRING_LITERAL ELSE else.type,
                                   [n EXCEPT !.branches = thens.branches, !.else = else.t], else.c)
      fixElse(thens) == fixed(thens, IF n.else = Nothing THEN Accept(thens.type, Nothing, thens.c)
                                     ELSE fix(n.else, thens.c))
  IN  fixElse(FoldLeft(Fix, [type |-> STRING_LITERAL, branches |-> n.branches, c |-> c], Indices(n.branches)))

cas(n, c) ==
  LET result(m, k) == IF ~k.ok \/ k.l # k.r \/ k.l = TABLE_ASTERISK THEN Reject(m, k.c)
                      ELSE IF k.l = BOOLEAN_OR_STRING_LITERAL THEN cas_fix(m, k.c)
                      ELSE Accept(k.l, m, k.c)
      else(m, type, v) == IF v.ok THEN result([m EXCEPT !.else = v.t], CAST_AMBIGUOUS_TYPES(type, v.type, v.c))
                          ELSE Reject([m EXCEPT !.else = v.t], v.c)
      branches(m, all) == IF ~all.ok THEN Reject(m, all.c)
                          ELSE IF n.else = Nothing THEN result(m, [ok |-> TRUE, l |-> all.type, r |-> all.type, c |-> all.c])
                          ELSE else(m, all.type, Operand(n.else, NoFix, all.c))
      start(value, then) == [ok |-> TRUE, expected |-> value.type, type |-> then.type,
                             branches |-> [n.branches EXCEPT ![1].then = then.t], c |-> then.c]
      all(value, acc) == branches([n EXCEPT !.value = value.t, !.branches = acc.branches], acc)
      then(value, v) == IF v.ok THEN all(value, FoldLeft(cas_branch, start(value, v), Indices(n.branches)))
                        ELSE Reject(n, v.c)
      case(value) == IF value.ok THEN then(value, Operand(n.branches[1].then, NoFix, value.c)) ELSE Reject(n, value.c)
  IN  case(cas_value(n, c))

-----------------------------------------------------------------------------
(* Functions.                                                              *)

aggregate_function(n, c) ==
  LET refused == CASE n.fn = "count" -> {}
                   [] n.fn \in {"sum", "avg"} -> {TABLE_ASTERISK, STRING_LITERAL, BOOLEAN_VALUE, BOOLEAN_OR_STRING_LITERAL}
                                                 \union DateTimeTypes
                   [] OTHER -> {TABLE_ASTERISK, BOOLEAN_VALUE}
      type(v) == CASE n.fn = "count" -> INTEGER_LITERAL
                   [] n.fn = "avg" -> NUMERIC_LITERAL
                   [] OTHER -> v.type
      call(v) == IF v.ok /\ v.type \notin refused THEN Accept(type(v), [n EXCEPT !.e = v.t], v.c)
                 ELSE Reject([n EXCEPT !.e = v.t], v.c)
  IN  call(Operand(n.e, NoFix, c))

function_arguments(items, c) ==
  LET add(acc, i, v) ==
        [ok |-> v.ok, types |-> Append(acc.types, v.type), items |-> [acc.items EXCEPT ![i] = v.t], c |-> v.c]
      fix(v) == IF v.ok /\ v.type = BOOLEAN_OR_STRING_LITERAL
                THEN Fixed(populate_data_type(v.t, STRING_LITERAL, v.c), {STRING_LITERAL}) ELSE v
      Argument(acc, i) == IF acc.ok THEN add(acc, i, fix(Operand(acc.items[i], NoFix, acc.c))) ELSE acc
  IN  FoldLeft(Argument, [ok |-> TRUE, types |-> <<>>, items |-> items, c |-> c], Indices(items))

function_call_data_type_check(n, c) ==
  LET unique(found) == found # {} /\ \A f, g \in found : f.extrinsic = g.extrinsic
      call(f, m, d) == Accept(f.type, m, IF c.check THEN [d EXCEPT !.used = @ \union {f}] ELSE d)
      lookup(args, m, found) == IF args.ok /\ unique(found) THEN call(CHOOSE f \in found : TRUE, m, args.c)
                                ELSE Reject(m, args.c)
      check(args) == lookup(args, [n EXCEPT !.items = args.items],
                            function_definition_lookup(DefinedFunctions, n.name, args.types))
  IN  check(function_arguments(n.items, c))

-----------------------------------------------------------------------------
(* Operators.                                                              *)

fix_for_operator(op, l, r) ==
  IF l = r THEN IF op \in {"and", "is"} THEN BOOLEAN_VALUE ELSE STRING_LITERAL
  ELSE IF BOOLEAN_VALUE \in {l, r} THEN BOOLEAN_VALUE ELSE STRING_LITERAL

binary_operation(n, c) ==
  LET isList == n.op = "in" /\ n.b.k = "list"
      asOperand(v) == [ok |-> v.ok, type |-> v.type, t |-> SqlColumnList(v.items), c |-> v.c]
      ambiguous(v) == v.type = BOOLEAN_OR_STRING_LITERAL
      check(l, r) == binary_operation_data_type_check([n EXCEPT !.a = l.t, !.b = r.t], l.type, r.type, r.c)
      refix(v, fix, d) == IF isList THEN asOperand(populate_data_type_column_list(v.t.items, fix, FALSE, d))
                          ELSE populate_data_type(v.t, fix, d)
      fixRight(l, r, fix, allowed) ==
        check(l, IF ambiguous(r) THEN Fixed(refix(r, fix, l.c), allowed) ELSE [r EXCEPT !.c = l.c])
      fixLeft(l, r, fix) ==
        fixRight(IF ambiguous(l) THEN Fixed(populate_data_type(l.t, fix, r.c), {fix}) ELSE [l EXCEPT !.c = r.c],
                 r, fix, IF ambiguous(l) THEN {fix} ELSE {fix, STRING_LITERAL})
      right(l, r) == IF r.ok THEN fixLeft(l, r, fix_for_operator(n.op, l.type, r.type)) ELSE Reject(n, r.c)
      left(l) == IF ~l.ok THEN Reject(n, l.c)
                 ELSE right(l, IF isList THEN asOperand(populate_data_type_column_list(n.b.items, NoFix, TRUE, l.c))
                               ELSE Operand(n.b, NoFix, l.c))
  IN  left(Operand(n.a, NoFix, c))

\* An untyped parameter falls through the switch of unary + and -.  A CHECK goes
\* on after the operator was refused: it asserts something of a type that nobody
\* has set, which may fail, and then makes the second visit of an ambiguous
\* literal and asserts that nothing was refused.
unary_operation(n, c) ==
  LET v == IF n.op = "exists" THEN populate_data_type(n.e, NoFix, c) ELSE Operand(n.e, NoFix, c)
      u == unary_operation_data_type_check(n.op, v.type)
      f == Succeeds(populate_data_type(v.t, BOOLEAN_VALUE, v.c))
      untyped == n.op \in {"+", "-"} /\ v.type \in {PARAMETER_VALUE, UNKNOWN_SqlValueType}
  IN  IF ~v.ok THEN Reject(n, v.c)
      ELSE IF untyped THEN Accept(UNKNOWN_SqlValueType, [n EXCEPT !.e = v.t], Expect(FALSE, v.c))
      ELSE IF ~u.ok THEN Reject([n EXCEPT !.e = v.t], Expect(~c.check, v.c))
      ELSE IF v.type = BOOLEAN_OR_STRING_LITERAL THEN Accept(u.type, [n EXCEPT !.e = f.t], f.c)
      ELSE Accept(u.type, [n EXCEPT !.e = v.t], v.c)

-----------------------------------------------------------------------------
(* Queries.                                                                *)

\* Every expression of the list is visited, whatever became of the ones before.
\* A type that is known already must not change.
populate_data_type_column_list_alias(list, fixes, c) ==
  LET known(type) == type \notin {UNKNOWN_SqlValueType, BOOLEAN_OR_STRING_LITERAL}
      visited(acc, i, v) ==
        [ok |-> acc.ok /\ v.ok, type |-> v.type,
         list |-> [es |-> [acc.list.es EXCEPT ![i] = v.t], types |-> [acc.list.types EXCEPT ![i] = v.type]],
         c |-> Expect(known(acc.list.types[i]) => acc.list.types[i] = v.type, v.c)]
      Visit(acc, i) == visited(acc, i, Operand(acc.list.es[i], IF i \in DOMAIN fixes THEN fixes[i] ELSE NoFix, acc.c))
  IN  FoldLeft(Visit, [ok |-> TRUE, type |-> UNKNOWN_SqlValueType, list |-> list, c |-> c], Indices(list.es))

\* WHERE, HAVING and ON, visited as v: a boolean, or a literal that may be one.
as_condition(v) ==
  LET boolean(f) == IF v.ok /\ IS_BOOLEAN_TYPE(f.type) THEN f ELSE Reject(f.t, f.c)
  IN  boolean(IF v.type = BOOLEAN_OR_STRING_LITERAL THEN Succeeds(populate_data_type(v.t, BOOLEAN_VALUE, v.c)) ELSE v)

condition(e, c) ==
  IF e = Nothing THEN Accept(BOOLEAN_VALUE, e, c) ELSE as_condition(Operand(e, NoFix, c))

join(from, c) ==
  LET on(acc, i, v) == [acc EXCEPT !.ok = v.ok, !.from[i].on = v.t, !.c = v.c]
      table(acc, i) == IF acc.ok THEN on(acc, i, condition(acc.from[i].on, acc.c)) ELSE acc
      source(acc, i, v) == table([acc EXCEPT !.ok = v.ok, !.from[i].src = v.t, !.c = v.c], i)
      Visit(acc, i) == IF acc.ok THEN source(acc, i, populate_data_type(acc.from[i].src, NoFix, acc.c)) ELSE acc
  IN  FoldLeft(Visit, [ok |-> TRUE, from |-> from, c |-> c], Indices(from))

select(n, c) ==
  LET order(m, type, v) == IF v.ok THEN Accept(type, [m EXCEPT !.order = v.list], v.c) ELSE Reject(m, v.c)
      having(m, type, v) == IF v.ok THEN order(m, type, populate_data_type_column_list_alias(n.order, <<>>, v.c))
                            ELSE Reject(m, v.c)
      group(m, type, v) == IF v.ok THEN LET h == condition(n.having, v.c) IN having([m EXCEPT !.having = h.t], type, h)
                           ELSE Reject(m, v.c)
      where(m, type, v) == IF v.ok THEN LET g == populate_data_type_column_list_alias(n.group, <<>>, v.c)
                                        IN  group([m EXCEPT !.group = g.list], type, g)
                           ELSE Reject(m, v.c)
      cols(m, v) == IF v.ok THEN LET w == condition(n.where, v.c) IN where([m EXCEPT !.where = w.t], v.type, w)
                    ELSE Reject(m, v.c)
      from(m, v) == IF v.ok THEN LET l == populate_data_type_column_list_alias(n.cols, <<>>, v.c)
                                 IN  cols([m EXCEPT !.cols = l.list], l)
                    ELSE Reject(m, v.c)
      tables(v) == from([n EXCEPT !.from = v.from], v)
  IN  tables(join(n.from, c))

\* VALUES: row by row, each column against the value of the first row; then the
\* columns that had an ambiguous literal again, with the type the column got.
table_value(n, c) ==
  LET cells == FlattenSeq([r \in DOMAIN n.rows |-> [j \in DOMAIN n.rows[r] |-> <<r, j>>]])
      start == [ok |-> TRUE, rows |-> n.rows, types |-> [j \in DOMAIN n.rows[1] |-> UNKNOWN_SqlValueType],
                saw |-> {}, c |-> c]
      agreed(acc, r, j, s) ==
        [acc EXCEPT !.ok = s.ok, !.rows[1][j] = s.a, !.rows[r][j] = s.b, !.types[j] = s.type, !.c = s.c]
      agree(acc, r, j, v) == agreed(acc, r, j, ensure_same_type(acc.types[j], v.type, acc.rows[1][j], v.t, v.c))
      visited(acc, r, j, v) ==
        [acc EXCEPT !.ok = v.ok, !.rows[r][j] = v.t, !.c = v.c,
                    !.saw = @ \union (IF v.type = BOOLEAN_OR_STRING_LITERAL THEN {j} ELSE {})]
      cell(acc, r, j, v) == IF ~v.ok \/ r = 1 THEN [visited(acc, r, j, v) EXCEPT !.types[j] = v.type]
                            ELSE agree(visited(acc, r, j, v), r, j, v)
      Visit(acc, x) == IF acc.ok THEN cell(acc, x[1], x[2], Operand(acc.rows[x[1]][x[2]], NoFix, acc.c)) ELSE acc
      refixed(acc, x, fix, v) ==
        [acc EXCEPT !.rows[x[1]][x[2]] = v.t, !.c = Expect(fix \in {BOOLEAN_VALUE, STRING_LITERAL}, v.c)]
      refix(acc, x, fix) == refixed(acc, x, fix, Fixed(populate_data_type(acc.rows[x[1]][x[2]], fix, acc.c), {fix, NUL_VALUE}))
      Fix(acc, x) == IF x[2] \in acc.saw THEN refix(acc, x, DefaultType(acc.types[x[2]])) ELSE acc
      typed(all, types) == Accept(types[1], [n EXCEPT !.rows = all.rows, !.types = types],
                                  Expect(PARAMETER_VALUE \notin ToSet(types), all.c))
      table(all) == IF all.ok THEN typed(FoldLeft(Fix, all, cells), [j \in DOMAIN all.types |-> DefaultType(all.types[j])])
                    ELSE Reject([n EXCEPT !.rows = all.rows], all.c)
  IN  IF n.types # <<>> THEN Accept(n.types[1], n, c) ELSE table(FoldLeft(Visit, start, cells))

RECURSIVE populate_data_type_cla_fix(_, _, _)
populate_data_type_cla_fix(n, fixes, c) ==
  LET columns(v) == [t |-> [n EXCEPT !.q.cols = v.list], c |-> Expect(v.ok /\ Len(fixes) = Len(n.q.cols.es), v.c)]
      right(a, b) == [t |-> [n EXCEPT !.a = a.t, !.b = b.t], c |-> b.c]
      left(a) == right(a, populate_data_type_cla_fix(n.b, fixes, a.c))
  IN  IF n.k = "setop" THEN left(populate_data_type_cla_fix(n.a, fixes, c))
      ELSE IF n.q.k # "select" THEN [t |-> n, c |-> c]
      ELSE columns(populate_data_type_column_list_alias(n.q.cols, fixes, c))

\* A subquery is only ever fixed to a string, whatever type was asked for; there
\* is a fix for its first column alone.
fix_subquery(n, fix, c) ==
  LET f == populate_data_type_cla_fix(n, <<STRING_LITERAL>>, c)
  IN  Accept(STRING_LITERAL, f.t, Expect(n.k = "sub" => n.q.k = "select" /\ fix \in {STRING_LITERAL, BOOLEAN_VALUE}, f.c))

table_alias(n, fix, c) ==
  LET v == populate_data_type(n.q, NoFix, c)
  IN  IF fix # NoFix THEN fix_subquery(n, fix, c) ELSE [v EXCEPT !.t = [n EXCEPT !.q = v.t]]

-----------------------------------------------------------------------------
(* Set operations and INSERT.                                              *)

RECURSIVE AddCast(_, _, _, _)
AddCast(n, i, to, pre) ==
  IF n.k = "setop"
  THEN IF IS_NUL_VALUE(OperandTypes(n.a)[i]) THEN [n EXCEPT !.b = AddCast(@, i, to, pre)]
       ELSE [n EXCEPT !.a = AddCast(@, i, to, pre)]
  ELSE IF n.q.k = "select"
  THEN [n EXCEPT !.q.cols.es[i] = ADD_DATE_TIME_TIMESTAMP_CAST_STMT(@, to, pre)]
  ELSE n

StoreType(n, i, type) ==
  IF n.k = "setop" THEN [n EXCEPT !.types[i] = type]
  ELSE IF n.q.k = "values" THEN [n EXCEPT !.q.types[i] = type]
  ELSE [n EXCEPT !.q.cols.types[i] = type]

Unmatchable == {PARAMETER_VALUE, UNKNOWN_SqlValueType, TABLE_ASTERISK}

\* The columns are compared up to the first mismatch; the casts and the types
\* decided before it stay.
match_columns(a, b, c) ==
  LET Match(acc, i) ==
        LET l == OperandTypes(acc.a)[i]
            r == OperandTypes(acc.b)[i]
            m == column_type_match(l, r, TRUE)
            x == IF acc.ok THEN StoreType(IF m.cast THEN AddCast(acc.a, i, m.l, l) ELSE acc.a, i, m.l) ELSE acc.a
            y == IF acc.ok THEN StoreType(acc.b, i, m.r) ELSE acc.b
            from == IF IS_NUL_VALUE(l) THEN y ELSE x
        IN  [ok |-> acc.ok /\ m.ok, a |-> x, b |-> y, types |-> Append(acc.types, OperandTypes(from)[i]),
             fixed |-> acc.fixed \/ (acc.ok /\ (m.r # r \/ (m.l # l /\ ~m.cast))),
             c |-> Expect(r \notin Unmatchable /\ (acc.ok => l \notin Unmatchable), acc.c)]
      shorter == IF Len(OperandTypes(a)) < Len(OperandTypes(b)) THEN OperandTypes(a) ELSE OperandTypes(b)
  IN  FoldLeft(Match, [ok |-> TRUE, a |-> a, b |-> b, types |-> <<>>, fixed |-> FALSE, c |-> c], Indices(shorter))

set_operation(n, fix, c) ==
  LET typed(f, k) == Accept(k.l, f.t, Expect(k.ok, k.c))
      fixed(l, r, f) == typed(f, CAST_AMBIGUOUS_TYPES(l, r, f.c))
      matched(a, b, m, t) ==
        IF ~m.ok \/ Len(OperandTypes(a.t)) # Len(OperandTypes(b.t)) THEN Reject(t, m.c)
        ELSE fixed(a.type, b.type, IF m.fixed THEN populate_data_type_cla_fix(t, m.types, m.c) ELSE [t |-> t, c |-> m.c])
      match(a, b, m) == matched(a, b, m, [n EXCEPT !.a = m.a, !.b = m.b, !.types = m.types])
      right(a, b) == IF b.ok THEN match(a, b, match_columns(a.t, b.t, b.c)) ELSE Reject([n EXCEPT !.a = a.t, !.b = b.t], b.c)
      left(a) == IF a.ok THEN right(a, populate_data_type(n.b, NoFix, a.c)) ELSE Reject([n EXCEPT !.a = a.t], a.c)
  IN  IF fix # NoFix THEN fix_subquery(n, fix, c) ELSE left(populate_data_type(n.a, NoFix, c))

\* The column an ambiguous source literal goes to decides the type of the source
\* column, not of the literal.  The target may have columns to spare.
RECURSIVE SetSourceType(_, _, _)
SetSourceType(n, i, type) ==
  IF n.k = "setop" THEN [n EXCEPT !.a = SetSourceType(@, i, type)] ELSE StoreType(n, i, type)

insert(n, c) ==
  LET v == populate_data_type(n.src, NoFix, c)
      source == OperandTypes(drill_to_table_alias(v.t))
      Match(acc, i) ==
        LET m == column_type_match(source[i], n.types[i], FALSE)
        IN  IF ~acc.ok THEN acc
            ELSE [ok |-> m.ok, src |-> SetSourceType(acc.src, i, m.l), c |-> Expect(source[i] \notin Unmatchable, acc.c)]
      all == FoldLeft(Match, [ok |-> TRUE, src |-> v.t, c |-> v.c],
                      Indices(IF Len(source) < Len(n.types) THEN source ELSE n.types))
  IN  IF v.ok /\ Len(source) <= Len(n.types) /\ all.ok
      THEN Accept(UNKNOWN_SqlValueType, [n EXCEPT !.src = all.src], all.c)
      ELSE Reject(n, IF v.ok THEN all.c ELSE v.c)

-----------------------------------------------------------------------------
(* UPDATE and DELETE.  A subquery is accepted as their condition whatever  *)
(* its columns.                                                            *)

dml_condition(e, c) ==
  IF e = Nothing THEN Accept(BOOLEAN_VALUE, e, c) ELSE as_condition(populate_data_type(e, NoFix, c))

delete_from(n, c) ==
  LET w == dml_condition(n.where, c) IN [w EXCEPT !.t = [n EXCEPT !.where = w.t], !.type = UNKNOWN_SqlValueType]

\* sets[i] assigns sets[i].value to a column of type sets[i].type.
update(n, c) ==
  LET set(acc, i, v) == [acc EXCEPT !.sets[i].value = v.t, !.c = v.c]
      typed(acc, i, v, k) ==
        IF ~v.ok \/ ~k.ok \/ k.l # k.r THEN [acc EXCEPT !.ok = FALSE, !.c = IF v.ok THEN k.c ELSE v.c]
        ELSE set(acc, i, IF v.type # BOOLEAN_OR_STRING_LITERAL THEN [v EXCEPT !.c = k.c]
                         ELSE Succeeds(populate_data_type(v.t, k.r, Expect(k.r \in {STRING_LITERAL, BOOLEAN_VALUE}, k.c))))
      value(acc, i, v) == typed(acc, i, v, CAST_AMBIGUOUS_TYPES(acc.sets[i].type, v.type, v.c))
      Assign(acc, i) == IF acc.ok THEN value(acc, i, Operand(acc.sets[i].value, NoFix, acc.c)) ELSE acc
      done(m, all) == IF all.ok THEN Accept(UNKNOWN_SqlValueType, [m EXCEPT !.sets = all.sets], all.c)
                      ELSE Reject([m EXCEPT !.sets = all.sets], all.c)
      where(m, w) == IF w.ok THEN done(m, FoldLeft(Assign, [ok |-> TRUE, sets |-> n.sets, c |-> w.c], Indices(n.sets)))
                     ELSE Reject(m, w.c)
      start(w) == where([n EXCEPT !.where = w.t], w)
  IN  start(dml_condition(n.where, c))

-----------------------------------------------------------------------------
(* The traversal of a CHECK constraint goes through the same rules; where  *)
(* it departs from that of a query they look at c.check.  A constraint has *)
(* no parameter, subquery, table.* or aggregate in it.                     *)

check_value(n, fix, c) ==
  CASE n.k = "literal" -> value_literal(n, fix, c)
    [] n.k = "unknown" -> unknown_literal(n, c)
    [] n.k = "cast" -> value_coerce(n, c)
    [] n.k = "col" -> column_alias(n, c)

check_operation(n, c) == IF n.k = "binary" THEN binary_operation(n, c) ELSE unary_operation(n, c)

check_call(n, c) ==
  CASE n.k = "call" -> function_call_data_type_check(n, c)
    [] n.k = "coalesce" -> coalesce_call(n, c)
    [] n.k = "nullif" -> null_if(n, c)

qualify_check_constraint(n, fix, c) ==
  CASE n.k \in {"literal", "unknown", "cast", "col"} -> check_value(n, fix, c)
    [] n.k \in {"binary", "unary"} -> check_operation(n, c)
    [] n.k \in {"call", "coalesce", "nullif"} -> check_call(n, c)
    [] n.k = "case" -> cas(n, c)
    [] OTHER -> Reject(n, c)

populate_data_type(n, fix, c) ==
  IF c.check THEN qualify_check_constraint(n, fix, c) ELSE
  CASE n.k = "literal" -> value_literal(n, fix, c)
    [] n.k = "unknown" -> unknown_literal(n, c)
    [] n.k = "parameter" -> value_parameter(n, c)
    [] n.k = "cast" -> value_coerce(n, c)
    [] n.k = "col" -> column_alias(n, c)
    [] n.k = "star" -> Accept(TABLE_ASTERISK, n, c)
    [] n.k = "binary" -> binary_operation(n, c)
    [] n.k = "unary" -> unary_operation(n, c)
    [] n.k = "coalesce" -> coalesce_call(n, c)
    [] n.k = "nullif" -> null_if(n, c)
    [] n.k = "case" -> cas(n, c)
    [] n.k = "call" -> function_call_data_type_check(n, c)
    [] n.k = "aggregate" -> aggregate_function(n, c)
    [] n.k = "sub" -> table_alias(n, fix, c)
    [] n.k = "setop" -> set_operation(n, fix, c)
    [] n.k = "values" -> table_value(n, c)
    [] n.k = "select" -> select(n, c)
    [] n.k = "insert" -> insert(n, c)
    [] n.k = "update" -> update(n, c)
    [] n.k = "delete" -> delete_from(n, c)

-----------------------------------------------------------------------------
(* A statement (tree, and the types the client declared for its leading    *)
(* parameters) is typed as a query or, when it is an expression, also as   *)
(* the CHECK constraint of a table.  An expression that the statement uses *)
(* in two places, such as a selected one that ORDER BY names, is one node  *)
(* of the parse tree and is visited again as the first visit left it.      *)

VARIABLES source, query, constraint, again
vars == <<source, query, constraint, again>>

Pending == [ok |-> FALSE, type |-> UNKNOWN_SqlValueType, t |-> Nothing, c |-> Nothing]

InitialContext(declared, check) ==
  [types |-> [n \in 1..2 |-> IF n \in DOMAIN declared THEN declared[n] ELSE NoFix],
   cur |-> 0, declared |-> Len(declared), check |-> check, used |-> {}, bad |-> FALSE]

StatementKinds == {"select", "setop", "insert", "update", "delete"}
IsExpression(n) == n.k \notin StatementKinds

Init == /\ source \in Statements
        /\ query = Pending
        /\ constraint = Pending
        /\ again = Pending

CheckQuery ==
  /\ query = Pending
  /\ query' = populate_data_type(source.tree, NoFix, InitialContext(source.declared, FALSE))
  /\ UNCHANGED <<source, constraint, again>>

Revisit ==
  /\ query.ok /\ again = Pending /\ IsExpression(source.tree)
  /\ again' = populate_data_type(query.t, NoFix, query.c)
  /\ UNCHANGED <<source, query, constraint>>

CheckConstraint ==
  /\ constraint = Pending /\ IsExpression(source.tree)
  /\ constraint' = populate_data_type(source.tree, NoFix, InitialContext(<<>>, TRUE))
  /\ UNCHANGED <<source, query, again>>

Next == CheckQuery \/ Revisit \/ CheckConstraint

Spec == Init /\ [][Next]_vars

-----------------------------------------------------------------------------
(* What the values are at run time, from the typed tree alone: a literal   *)
(* that is still ambiguous when the query is hashed is a string.           *)

Kinds(t) ==
  CASE t = BOOLEAN_VALUE -> {"boolean"}
    [] t \in {STRING_LITERAL, BOOLEAN_OR_STRING_LITERAL} -> {"string"}
    [] t \in NumberTypes -> {"number"}
    [] HAS_DATE(t) -> {"date"}
    [] IS_TIME(t) -> {"time"}
    [] OTHER -> {}

RECURSIVE RunKinds(_)
RunKinds(n) ==
  CASE n.k = "literal" -> Kinds(n.type)
    [] n.k = "cast" -> Kinds(n.to)
    [] n.k = "col" -> Kinds(IF HasSetType(n) THEN n.setType ELSE n.type)
    [] n.k = "binary" -> IF n.op \in ArithmeticOps THEN {"number"}
                         ELSE IF n.op \in DateTimeOps THEN Kinds(n.type)
                         ELSE IF n.op = "||" THEN {"string"} ELSE {"boolean"}
    [] n.k = "unary" -> IF n.op = "exists" THEN {"boolean"} ELSE RunKinds(n.e)
    [] n.k \in {"coalesce", "list"} -> UNION {RunKinds(n.items[i]) : i \in DOMAIN n.items}
    [] n.k = "nullif" -> RunKinds(n.a)
    [] n.k = "case" -> RunKinds(n.else) \union UNION {RunKinds(n.branches[i].then) : i \in DOMAIN n.branches}
    [] n.k = "aggregate" -> IF n.fn \in {"count", "sum", "avg"} THEN {"number"} ELSE RunKinds(n.e)
    [] n.k = "call" -> UNION {Kinds(f.type) : f \in {g \in DefinedFunctions : g.name = n.name}}
    [] n.k = "sub" -> IF n.q.k = "select" THEN RunKinds(n.q.cols.es[1])
                      ELSE UNION {RunKinds(n.q.rows[i][1]) : i \in DOMAIN n.q.rows}
    [] n.k = "setop" -> RunKinds(n.a) \union RunKinds(n.b)
    [] OTHER -> {}

OneKind(ns) == Cardinality(UNION {RunKinds(n) : n \in ns}) <= 1
AllOf(kind, ns) == UNION {RunKinds(n) : n \in ns} \subseteq {kind}

Children(n) ==
  CASE n.k \in {"binary", "nullif", "setop"} -> {n.a, n.b}
    [] n.k \in {"unary", "cast", "aggregate"} -> {n.e}
    [] n.k \in {"coalesce", "call", "list"} -> ToSet(n.items)
    [] n.k = "case" -> {n.value, n.else} \union UNION {{b.when, b.then} : b \in ToSet(n.branches)}
    [] n.k = "sub" -> {n.q}
    [] n.k = "values" -> UNION {ToSet(r) : r \in ToSet(n.rows)}
    [] n.k = "select" -> UNION {{f.src, f.on} : f \in ToSet(n.from)} \union ToSet(n.cols.es) \union ToSet(n.group.es)
                         \union ToSet(n.order.es) \union {n.where, n.having}
    [] n.k = "insert" -> {n.src}
    [] n.k = "update" -> {n.where} \union {s.value : s \in ToSet(n.sets)}
    [] n.k = "delete" -> {n.where}
    [] OTHER -> {}

RECURSIVE Nodes(_)
Nodes(n) == {n} \union UNION {Nodes(m) : m \in Children(n)}

OperandsFit(n) ==
  CASE n.k = "binary" ->
         IF n.op \in ArithmeticOps THEN AllOf("number", {n.a, n.b})
         ELSE IF n.op = "and" THEN AllOf("boolean", {n.a, n.b})
         ELSE IF n.op \in LikeOps THEN AllOf("string", {n.a, n.b})
         ELSE IF n.op = "||" THEN "boolean" \notin RunKinds(n.a) \union RunKinds(n.b)
         ELSE IF n.op \in ComparisonOps THEN OneKind({n.a, n.b}) ELSE TRUE
    [] n.k = "unary" -> n.op = "not" => AllOf("boolean", {n.e})
    [] n.k \in {"coalesce", "nullif", "setop"} -> OneKind(Children(n))
    [] n.k = "case" -> /\ OneKind({n.else} \union {b.then : b \in ToSet(n.branches)})
                       /\ IF n.value = Nothing THEN AllOf("boolean", {b.when : b \in ToSet(n.branches)})
                          ELSE OneKind({n.value} \union {b.when : b \in ToSet(n.branches)})
    [] n.k = "values" -> \A j \in DOMAIN n.types : OneKind({r[j] : r \in ToSet(n.rows)})
    [] n.k = "select" -> AllOf("boolean", {n.where, n.having} \union {f.on : f \in ToSet(n.from)})
    [] n.k \in {"update", "delete"} -> AllOf("boolean", {n.where})
    [] OTHER -> TRUE

(* Statements the code mistreats: the properties below speak of the rest.  *)

LeafType(n) ==
  CASE n.k = "literal" -> n.type
    [] n.k = "parameter" -> PARAMETER_VALUE
    [] n.k = "cast" -> n.to
    [] OTHER -> UNKNOWN_SqlValueType
LeafTypes(ns) == {LeafType(n) : n \in ns}
Ambiguous == BOOLEAN_OR_STRING_LITERAL
CaseResults(n) == {n.else} \union {x.then : x \in ToSet(n.branches)}

RECURSIVE OutputColumns(_)
OutputColumns(n) ==
  IF n.k = "setop" THEN OutputColumns(n.a) \union OutputColumns(n.b)
  ELSE IF n.k # "sub" THEN {}
  ELSE IF n.q.k = "select" THEN ToSet(n.q.cols.es) ELSE {}

\* A value that stays ambiguous however its operator is typed.
StaysAmbiguous(n) ==
  \/ n.k = "aggregate" /\ LeafType(n.e) = Ambiguous
  \/ n.k = "coalesce" /\ LET types == LeafTypes(ToSet(n.items))
                         IN  Ambiguous \in types /\ types \subseteq {Ambiguous} \union Untyped
AmbiguousQuery(n) == Ambiguous \in LeafTypes(OutputColumns(n))

Gap(n) ==
  \/ \E m \in Children(n) : m.k = "unknown" /\ ~(n.k = "binary" /\ n.op = "is")
  \/ \E m \in Children(n) : StaysAmbiguous(m)
  \/ n.k = "unary" /\ n.op \in {"+", "-"} /\ n.e.k = "parameter"
  \/ n.k = "binary" /\ \/ {n.a.k, n.b.k} = {"star", "parameter"}
                       \/ AmbiguousQuery(n.a)
                       \/ n.op \in {"and", "is"} /\ AmbiguousQuery(n.b)
  \/ n.k = "case" /\ \/ /\ Ambiguous \in LeafTypes(CaseResults(n))
                        /\ LeafTypes(CaseResults(n)) \intersect ({BOOLEAN_VALUE} \union Untyped) # {}
                     \/ /\ LeafType(n.value) \in Untyped
                        /\ Ambiguous \in LeafTypes({x.when : x \in ToSet(n.branches)})
  \/ n.k \in {"coalesce", "list", "values"} /\ LET types == LeafTypes(Children(n))
                                               IN  Ambiguous \in types /\ types \intersect (Untyped \union DateTimeTypes) # {}
  \/ n.k = "coalesce" /\ Len(n.items) > 2 /\ LeafTypes(ToSet(n.items)) \intersect DateTimeTypes # {}
  \/ n.k = "values" /\ PARAMETER_VALUE \in LeafTypes(Children(n))
  \/ n.k = "insert" /\ PARAMETER_VALUE \in LeafTypes(OutputColumns(n.src))
  \/ n.k = "setop" /\ \/ PARAMETER_VALUE \in LeafTypes(OutputColumns(n))
                      \/ "setop" \in {n.a.k, n.b.k} /\ LeafTypes(OutputColumns(n)) \intersect DateTimeTypes # {}

Covered(n) == \A m \in Nodes(n) : ~Gap(m)

\* The operands of every operator of an accepted statement have values of one
\* kind when it runs, and the kind the operator works on: whatever
\* populate_data_type decided about ambiguous literals, casts and the boolean
\* operands of || has reached the tree that code is generated from.
OperandsAgree == query.ok /\ Covered(source.tree) => \A n \in Nodes(query.t) : OperandsFit(n)

\* A unary operator that is refused.  In a CHECK the assertions at
\* qualify_check_constraint.c:393, and at 398 and 400 for + and - of an ambiguous
\* literal, are reached all the same; a query stops before them.
RefusedUnary(n) ==
  n.k = "unary" /\ ~unary_operation_data_type_check(n.op, IF n.e.k = "col" THEN n.e.type ELSE LeafType(n.e)).ok

\* The assertions of the type inference hold: above all, the second visit that
\* decides an ambiguous literal is accepted and gives the type asked for.  A
\* CHECK with a unary operator that is refused is left out.
AssertsHold ==
  Covered(source.tree) =>
    /\ \A v \in {query, again} : v # Pending => ~v.c.bad
    /\ constraint # Pending /\ (\A n \in Nodes(source.tree) : ~RefusedUnary(n)) => ~constraint.c.bad

\* Explicit casts are not checked in a CHECK constraint, and NULLIF adds casts there.
InBothLanguages(n) ==
  \A m \in Nodes(n) : m.k \notin {"cast", "nullif", "parameter", "aggregate", "star", "sub", "setop"}

\* Every traversal of an expression gives it the same type.  What
\* populate_data_type accepted is accepted again, with the same type, when the
\* node is visited a second time, although the first visit rewrote it; and
\* populate_data_type and qualify_check_constraint agree on which expressions are
\* well typed and on their types.
TraversalsAgree ==
  Covered(source.tree) =>
    /\ again # Pending => again.ok /\ again.type = query.type
    /\ query # Pending /\ constraint # Pending /\ InBothLanguages(source.tree)
         => constraint.ok = query.ok /\ constraint.type = query.type
=============================================================================
