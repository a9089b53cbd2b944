------------------------------ MODULE Condition ------------------------------
(***************************************************************************)
(* The conditions of WHERE and ON clauses, what they evaluate to on a row, *)
(* and the two rewrites optimize_logical_plan applies to them first:       *)
(* lp_apply_not pushes NOT inwards, lp_make_normal_disjunctive_form makes  *)
(* an OR of ANDs.                                                          *)
(*                                                                         *)
(* A condition is a record [op, l, r].  Its leaves compare operands:       *)
(* columns "k" (the primary key) and "v" of a table, literals, lists of    *)
(* literals, and t.*, the row as a whole.  LIKE stands for everything the  *)
(* rewrites cannot look into: pattern matches, casts, boolean columns and  *)
(* function calls.                                                         *)
(***************************************************************************)
EXTENDS Integers, Sequences, TLC

CONSTANTS
    NULL,
    LikeMatches  \* the values that match the pattern of LIKE

NoCond == [op |-> "NONE"]

Col(t, c) == [kind |-> "col", t |-> t, c |-> c]
Val(x) == [kind |-> "val", x |-> x]
List(xs) == [kind |-> "list", xs |-> xs]
Asterisk(t) == [kind |-> "row", t |-> t]

Cond(o, a, b) == [op |-> o, l |-> a, r |-> b]
Not(e) == Cond("NOT", e, NoCond)

\* The absent condition is neutral, as a NULL operand is in the code.
And(a, b) ==
    IF a = NoCond THEN b ELSE IF b = NoCond THEN a ELSE Cond("AND", a, b)

IsBinary(e) == e.op \in {"AND", "OR"}

\* The tables a condition or an operand reads.
OperandTables(o) == IF o.kind \in {"col", "row"} THEN {o.t} ELSE {}

RECURSIVE Tables(_)
Tables(e) ==
    CASE e.op = "NONE" -> {}
      [] IsBinary(e)   -> Tables(e.l) \cup Tables(e.r)
      [] e.op = "NOT"  -> Tables(e.l)
      [] OTHER         -> OperandTables(e.l) \cup OperandTables(e.r)

----------------------------------------------------------------------------
(***************************************************************************)
(* Evaluation on row: each table has a key, or NULL when an outer join has *)
(* no row of it.  db[t] maps the keys of t to values of v.  Results are    *)
(* "T", "F" and "U" (unknown).                                             *)
(***************************************************************************)
ColumnValue(t, c, row, db) ==
    IF c = "k" \/ row[t] = NULL THEN row[t] ELSE db[t][row[t]]

Value(o, row, db) ==
    IF o.kind = "col" THEN ColumnValue(o.t, o.c, row, db) ELSE o.x

Truth(b) == IF b THEN "T" ELSE "F"
Negate(x) == CASE x = "T" -> "F" [] x = "F" -> "T" [] OTHER -> "U"
Both(x, y) == IF "F" \in {x, y} THEN "F" ELSE IF "U" \in {x, y} THEN "U" ELSE "T"

Compare(o, a, b) ==
    IF NULL \in {a, b} THEN "U"
    ELSE Truth(CASE o = "=" -> a = b [] o = "<>" -> a # b
                 [] o = "<" -> a < b [] o = ">=" -> a >= b
                 [] o = ">" -> a > b [] o = "<=" -> a <= b)

InList(a, xs) ==
    LET hits == {Compare("=", a, xs[i]) : i \in DOMAIN xs}
    IN  IF "T" \in hits THEN "T" ELSE IF "U" \in hits THEN "U" ELSE "F"

\* t.* IS NULL: every column is; t.* IS NOT NULL: no column is.
Nulls(o, row, db) ==
    IF o.kind = "row"
    THEN {ColumnValue(o.t, c, row, db) = NULL : c \in {"k", "v"}}
    ELSE {Value(o, row, db) = NULL}

Leaf(e, row, db) ==
    CASE e.op = "IS"     -> Truth(Nulls(e.l, row, db) = {TRUE})
      [] e.op = "IS_NOT" -> Truth(Nulls(e.l, row, db) = {FALSE})
      [] e.op = "IN"     -> InList(Value(e.l, row, db), e.r.xs)
      [] e.op = "NOT_IN" -> Negate(InList(Value(e.l, row, db), e.r.xs))
      [] e.op = "LIKE"   -> LET x == Value(e.l, row, db)
                            IN  IF x = NULL THEN "U" ELSE Truth(x \in LikeMatches)
      [] OTHER -> Compare(e.op, Value(e.l, row, db), Value(e.r, row, db))

RECURSIVE Eval(_, _, _)
Eval(e, row, db) ==
    CASE e.op = "NONE" -> "T"
      [] e.op = "NOT"  -> Negate(Eval(e.l, row, db))
      [] e.op = "AND"  -> Both(Eval(e.l, row, db), Eval(e.r, row, db))
      [] e.op = "OR"   -> Negate(Both(Negate(Eval(e.l, row, db)),
                                      Negate(Eval(e.r, row, db))))
      [] OTHER -> Leaf(e, row, db)

Holds(e, row, db) == Eval(e, row, db) = "T"

----------------------------------------------------------------------------
(***************************************************************************)
(* lp_apply_not.  odd is count % 2: the number of NOTs above e.            *)
(***************************************************************************)
InverseOp == "AND" :> "OR" @@ "OR" :> "AND"
    @@ "=" :> "<>" @@ "<>" :> "="
    @@ "<" :> ">=" @@ ">=" :> "<" @@ ">" :> "<=" @@ "<=" :> ">"
    @@ "IN" :> "NOT_IN" @@ "NOT_IN" :> "IN"
    @@ "IS" :> "IS_NOT" @@ "IS_NOT" :> "IS"

\* What a NOT directly above stops at: nothing to invert, or t.* IS [NOT]
\* NULL, which are not each other's negation.
KeepsNot(e) == e.op = "LIKE" \/ (e.op \in {"IS", "IS_NOT"} /\ e.l.kind = "row")

RECURSIVE lp_apply_not(_, _)
lp_apply_not(e, odd) ==
    CASE e.op = "NOT" ->
            IF KeepsNot(e.l) THEN (IF odd THEN e.l ELSE e)
            ELSE lp_apply_not(e.l, ~odd)
      [] e.op # "NOT" /\ odd /\ IsBinary(e) ->
            Cond(InverseOp[e.op], lp_apply_not(e.l, odd), lp_apply_not(e.r, odd))
      [] e.op # "NOT" /\ odd /\ ~IsBinary(e) /\ e.op \in DOMAIN InverseOp ->
            Cond(InverseOp[e.op], e.l, e.r)
      [] OTHER -> e

(***************************************************************************)
(* lp_make_normal_disjunctive_form.  Disjuncts is the chain of operands    *)
(* the loops over l and r walk: an OR on the left stays inside its operand *)
(* and is expanded when that operand has become a plan of its own.         *)
(***************************************************************************)
RECURSIVE Disjuncts(_)
Disjuncts(e) == IF e.op = "OR" THEN <<e.l>> \o Disjuncts(e.r) ELSE <<e>>

RECURSIVE OrChain(_)
OrChain(s) == IF Len(s) = 1 THEN s[1] ELSE Cond("OR", s[1], OrChain(Tail(s)))

\* Every pair of an operand of a and one of b, b's running faster.
Distribute(a, b) ==
    [i \in 1..Len(a) * Len(b) |->
        Cond("AND", a[1 + ((i - 1) \div Len(b))], b[1 + ((i - 1) % Len(b))])]

RECURSIVE lp_make_normal_disjunctive_form(_)
lp_make_normal_disjunctive_form(root) ==
    LET e == IF root = NoCond THEN root ELSE lp_apply_not(root, FALSE)
        left == lp_make_normal_disjunctive_form(e.l)
        right == lp_make_normal_disjunctive_form(e.r)
    IN  CASE e.op = "OR"  -> Cond("OR", left, right)
          [] e.op = "AND" -> OrChain(Distribute(Disjuncts(left), Disjuncts(right)))
          [] OTHER        -> e
=============================================================================
