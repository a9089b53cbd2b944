----------------------------- MODULE MCDataTypes -----------------------------
EXTENDS DataTypes

LiteralTypes == {BOOLEAN_VALUE, INTEGER_LITERAL, NUMERIC_LITERAL, STRING_LITERAL, BOOLEAN_OR_STRING_LITERAL, NUL_VALUE,
                 "date", "time", "timetz", "timestamp", "timestamptz"}

MCFunctions == {
  [name |-> "abs", params |-> <<NUMERIC_LITERAL>>, type |-> NUMERIC_LITERAL, extrinsic |-> "abs"],
  [name |-> "round", params |-> <<NUMERIC_LITERAL, INTEGER_LITERAL>>, type |-> NUMERIC_LITERAL, extrinsic |-> "round"],
  [name |-> "lpad", params |-> <<STRING_LITERAL, INTEGER_LITERAL>>, type |-> STRING_LITERAL, extrinsic |-> "lpad2"],
  [name |-> "f", params |-> <<STRING_LITERAL>>, type |-> STRING_LITERAL, extrinsic |-> "f1"],
  [name |-> "f", params |-> <<NUMERIC_LITERAL>>, type |-> STRING_LITERAL, extrinsic |-> "f2"]}

Literals == {SqlValue(t) : t \in LiteralTypes}
Leaves == Literals \union {[k |-> "unknown"], SqlParameter(1), SqlColumnAlias(INTEGER_LITERAL, NUMERIC_LITERAL)}
Ops == ArithmeticOps \union LikeOps \union ComparisonOps \union {"and", "||"}
Binaries(as, bs) == {SqlBinaryOperation(op, a, b) : op \in Ops \ {"in", "is"}, a \in as, b \in bs}
                    \union {SqlBinaryOperation("is", a, x) :
                            a \in as, x \in {SqlValue(NUL_VALUE), SqlValue(BOOLEAN_VALUE), [k |-> "unknown"]}}
Ins(as, bs) == {SqlBinaryOperation("in", a, SqlColumnList(<<b1, b2>>)) : a \in as, b1, b2 \in bs}
Stmt(trees) == {[tree |-> t, declared |-> <<>>] : t \in trees}

b == SqlValue(BOOLEAN_VALUE)
i == SqlValue(INTEGER_LITERAL)
str == SqlValue(STRING_LITERAL)
t == SqlValue(BOOLEAN_OR_STRING_LITERAL)
null == SqlValue(NUL_VALUE)
date == SqlValue("date")
ts == SqlValue("timestamp")
Few == {b, i, str, t, null, date, ts, SqlValue("timestamptz"), SqlParameter(1)}

Select(e) == SqlTableAlias(SqlSelectStatement(<<>>, <<e>>, Nothing, <<>>, Nothing, <<>>))
Case(value, w1, t1, w2, t2, else) == SqlCaseStatement(value, <<[when |-> w1, then |-> t1], [when |-> w2, then |-> t2]>>, else)
Coalesces == {SqlCoalesceCall(<<x, y>>) : x, y \in Few} \union {SqlCoalesceCall(<<x, y, z>>) : x, y, z \in Few}
Nullifs == {SqlNullIf(x, y) : x, y \in Leaves}
Cases == {Case(Nothing, b, x, b, y, z) : x, y \in Few, z \in Few \union {Nothing}}
         \union {Case(v, x, i, y, i, Nothing) : v \in Few \union {Nothing}, x, y \in Few}
Casts == {SqlCoerce(to, x) : to \in LiteralTypes \ {NUL_VALUE, BOOLEAN_OR_STRING_LITERAL}, x \in Leaves}
Unaries == {SqlUnaryOperation(op, x) : op \in {"not", "+", "-"}, x \in Leaves}
Aggregates == {SqlAggregateFunction(fn, x) : fn \in {"count", "sum", "avg", "min"}, x \in Leaves}
Calls == {SqlFunctionCall("abs", <<x>>) : x \in Leaves} \union {SqlFunctionCall("f", <<x>>) : x \in Leaves}
         \union {SqlFunctionCall("round", <<x, y>>) : x, y \in Leaves}
Subs == {Select(x) : x \in Leaves} 
Stars == {SqlTableAsterisk(<<INTEGER_LITERAL>>), SqlTableAsterisk(<<INTEGER_LITERAL, BOOLEAN_VALUE>>)}

Inner == {SqlCoalesceCall(<<x, y>>) : x, y \in {b, str, t, null}} \union {SqlNullIf(x, y) : x, y \in {b, str, t, null}}
         \union {Case(Nothing, b, x, b, y, z) : x, y, z \in {b, str, t, null}}
         \union {SqlCoerce(to, t) : to \in {BOOLEAN_VALUE, STRING_LITERAL}}
         \union {SqlUnaryOperation("not", x) : x \in {b, t, null}}
         \union {SqlAggregateFunction("min", x) : x \in {str, t, null}}
         \union {SqlBinaryOperation(op, x, y) : op \in {"=", "and", "||"}, x, y \in {b, str, t, null}}
         \union {Select(x) : x \in {b, str, t, null, SqlParameter(2)}}
         \union {SqlSetOperation(Select(x), Select(y)) : x, y \in {b, str, t, null}}
Deep == LET outer == Few \ {ts, SqlValue("timestamptz")} IN Binaries(Inner, outer) \union Binaries(outer, Inner)

Select2(e1, e2) == SqlTableAlias(SqlSelectStatement(<<>>, <<e1, e2>>, Nothing, <<>>, Nothing, <<>>))
Values(e1, e2) == SqlTableAlias(SqlTableValue(<<<<e1>>, <<e2>>>>))
Eq(e1, e2) == SqlBinaryOperation("=", e1, e2)
From(on) == <<[src |-> Select(i), on |-> Nothing], [src |-> Values(i, i), on |-> on]>>
Selects == {SqlSelectStatement(From(on), <<x>>, w, <<x>>, h, <<x>>) : on \in {Nothing, t}, x \in Few, w, h \in {Nothing, b, t, i, Eq(i, null), Select(b), Select(str)}}
SetOps == {SqlSetOperation(Select(x), Select(y)) : x, y \in Leaves}
          \union {SqlSetOperation(Select2(x, y), Select2(z, i)) : x, z \in Few, y \in {i, b}}
          \union {SqlSetOperation(Select2(x, y), Select(z)) : x, z \in {b, t}, y \in {i, b}}
          \union {SqlSetOperation(SqlSetOperation(Select(x), Select(y)), Select(z)) : x, y, z \in Few}
          \union {SqlSetOperation(Values(x, y), Select(z)) : x, y, z \in {b, t, str, null}}
ValueTables == {Values(x, y) : x, y \in Leaves}
DML == {SqlInsertStatement(src, types) : src \in {Select(x) : x \in Leaves} \union {Values(x, null) : x \in Few} \union {SqlSetOperation(Select(x), Select(y)) : x, y \in {b, str, t, null}}, types \in {<<x>> : x \in LiteralTypes \ {NUL_VALUE, BOOLEAN_OR_STRING_LITERAL}} \union {<<BOOLEAN_VALUE, INTEGER_LITERAL>>}}
       \union {SqlDeleteFromStatement(x) : x \in Leaves \union {Nothing, Select(t), Select2(b, b)}}
       \union {SqlUpdateStatement(w, <<[type |-> ty, value |-> x]>>) : w \in {Nothing, b, t, i}, ty \in {BOOLEAN_VALUE, STRING_LITERAL, NUMERIC_LITERAL, "date"}, x \in Leaves \union {Select(t), Select(b)}}

MCStatements == Stmt(Binaries(Leaves, Leaves) \union Binaries(Stars, Stars \union Leaves) \union Ins(Few, Few) \union Deep
                     \union Coalesces \union Nullifs \union Cases \union Casts \union Unaries \union Aggregates
                     \union Calls \union Subs \union Selects \union SetOps \union ValueTables \union DML)
=============================================================================
