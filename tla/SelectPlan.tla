------------------------------ MODULE SelectPlan ------------------------------
(***************************************************************************)
(* A SELECT from the qualified parse tree to its rows: parse_tree_optimize *)
(* moves parts of WHERE into ON clauses, optimize_logical_plan makes one   *)
(* plan per disjunct, reorders cross joins, fixes keys and drops ORDER BY, *)
(* and the M code that tmpl_tablejoin and tmpl_physical_plan emit runs the *)
(* plans one after the other.                                              *)
(*                                                                         *)
(* A table is its position in the FROM list; it has the key column "k" and *)
(* one other column "v".  A row of the result is the key taken from each   *)
(* table, NULL where an outer join has no row of it: SELECT of all columns.*)
(***************************************************************************)
EXTENDS Condition, FiniteSets, SequencesExt

CONSTANTS
    Queries,    \* [joins, where, order, limit]
    Databases   \* contents of the tables: functions from keys to values of v

VARIABLES
    query,
    db,
    phase,  \* "parsed", "logical", "expanded", "running", "sorting", "done"
    plans,  \* sibling plans, one per disjunct of WHERE, in the order they run
    next,   \* the sibling to optimize or to run
    st      \* the local variables of the running plans

vars == <<query, db, phase, plans, next, st>>

Outer == {"LEFT", "RIGHT", "FULL"}
TypesOf(joins) == {joins[j].type : j \in DOMAIN joins}
HasOuter(joins) == TypesOf(joins) \cap Outer # {}

\* Both columns are common to all tables; those of the tables between are
\* duplicates of the first table's, or the parser refuses the query.
natural_join_condition(t) ==
    And(Cond("=", Col(1, "k"), Col(t, "k")), Cond("=", Col(1, "v"), Col(t, "v")))

----------------------------------------------------------------------------
(* parse_tree_optimize *)

\* The first join whose ON clause may take c: its tables are known there.
MayTake(c, joins, j) ==
    /\ joins[j].type \notin Outer \cup {"CROSS"}
    /\ j < Len(joins) /\ joins[j + 1].type # "CROSS"
    /\ \A t \in Tables(c) : t <= joins[j].tab

\* RIGHT and FULL joins are not looked for.
BugMoveWhereClause(c, joins) ==
    LET takers == {j \in DOMAIN joins : MayTake(c, joins, j)}
        j == Min(takers)
    IN  IF takers = {} THEN [joins |-> joins, where |-> c]
        ELSE [joins |-> [joins EXCEPT ![j].on = And(@, c)],
              where |-> IF HasOuter(joins) THEN c ELSE NoCond]

\* Result: the joins, and what is left of c in WHERE.
move_where_clause_to_on_clause(c, joins) ==
    LET takers == {j \in DOMAIN joins : MayTake(c, joins, j)}
        j == Min(takers)
    IN  IF takers = {} \/ TypesOf(joins) \cap {"RIGHT", "FULL"} # {}
        THEN [joins |-> joins, where |-> c]
        ELSE [joins |-> [joins EXCEPT ![j].on = And(@, c)],
              where |-> IF HasOuter(joins) THEN c ELSE NoCond]

RECURSIVE traverse_where_clause(_, _)
traverse_where_clause(c, joins) ==
    IF c.op # "AND" THEN move_where_clause_to_on_clause(c, joins)
    ELSE LET a == traverse_where_clause(c.l, joins)
             b == traverse_where_clause(c.r, a.joins)
         IN  [joins |-> b.joins, where |-> And(a.where, b.where)]

parse_tree_optimize(q) ==
    IF q.where = NoCond THEN [joins |-> q.joins, where |-> NoCond]
    ELSE traverse_where_clause(q.where, q.joins)

----------------------------------------------------------------------------
(* optimize_logical_plan: one plan per disjunct *)

\* Every operand of the OR chain becomes a copy of the plan put before the
\* ones made so far, the last operand stays in the plan itself; each is then
\* optimized, and so expanded, again.
RECURSIVE ExpandWhere(_)
ExpandWhere(w) ==
    LET ds == Disjuncts(lp_make_normal_disjunctive_form(w))
        n == Len(ds)
        inOrder == Reverse(SubSeq(ds, 1, n - 1)) \o <<ds[n]>>
    IN  IF n = 1 THEN ds ELSE FlattenSeq([i \in 1..n |-> ExpandWhere(inOrder[i])])

----------------------------------------------------------------------------
(* lp_optimize_cross_join *)

\* CROSS joins before the first incompatible join move to the front.
MoveCrossJoins(joins) ==
    LET bad == {j \in 2..Len(joins) : joins[j].type \notin {"CROSS", "NATURAL"}}
        m == IF bad = {} THEN Len(joins) ELSE Min(bad) - 1
        group == SubSeq(joins, 2, m)
    IN  <<joins[1]>> \o SelectSeq(group, LAMBDA x : x.type = "CROSS")
        \o SelectSeq(group, LAMBDA x : x.type # "CROSS")
        \o SubSeq(joins, m + 1, Len(joins))

RECURSIVE Conjuncts(_)
Conjuncts(e) ==
    IF e.op = "AND" THEN Conjuncts(e.l) \cup Conjuncts(e.r)
    ELSE IF e = NoCond THEN {} ELSE {e}

\* Operators and operands that the key fixing looks at.
Fixable(e) ==
    /\ e.op \in {"=", "<", ">", "<=", ">=", "IN", "IS", "IS_NOT"}
    /\ "row" \notin {e.l.kind, e.r.kind}

TableOf(o) == IF o.kind = "col" THEN o.t ELSE 0

\* equals_id1_id2: 0 stands for a literal.
Equated(where, a, b) ==
    \E e \in Conjuncts(where) : Fixable(e) /\ {TableOf(e.l), TableOf(e.r)} = {a, b}

\* sorted_array: tables in the order they are reached from literals.
RECURSIVE Reached(_, _, _, _)
Reached(where, tabs, sorted, i) ==
    IF i > Len(sorted) THEN Tail(sorted)
    ELSE LET new == {t \in tabs \ Range(sorted) : Equated(where, sorted[i], t)}
         IN  Reached(where, tabs, sorted \o SetToSortSeq(new, <), i + 1)

\* Puts table t in position p; only the table of a join moves, its type and
\* its ON clause stay behind.
SwapIn(joins, p, t) ==
    LET q == CHOOSE q \in DOMAIN joins : joins[q].tab = t
    IN  [joins EXCEPT ![p].tab = t, ![q].tab = joins[p].tab]

RECURSIVE SwapAll(_, _, _)
SwapAll(joins, sorted, p) ==
    IF p > Len(sorted) THEN joins
    ELSE SwapAll(SwapIn(joins, p, sorted[p]), sorted, p + 1)

lp_optimize_cross_join(joins, where) ==
    LET moved == MoveCrossJoins(joins)
        tabs == {moved[j].tab : j \in {1} \cup {j \in DOMAIN moved : moved[j].type = "CROSS"}}
    IN  IF Cardinality(tabs) = 1 \/ ~(TypesOf(joins) \subseteq {"NONE", "CROSS", "NATURAL"})
        THEN moved
        ELSE SwapAll(moved, Reached(where, tabs, <<0>>, 1), 1)

----------------------------------------------------------------------------
(* lp_optimize_where_multi_equals_ands: fixing keys *)

Position(joins, t) == CHOOSE j \in DOMAIN joins : joins[j].tab = t

Mirror == "<" :> ">" @@ ">" :> "<" @@ "<=" :> ">=" @@ ">=" :> "<=" @@ "=" :> "="

\* Two columns are left as they are written.
BugIsSwapped(joins, e) == e.r.kind = "col" /\ e.l.kind # "col"

\* The column to fix is the operand whose table comes later.
IsSwapped(joins, e) ==
    /\ e.r.kind = "col"
    /\ e.l.kind = "col" => Position(joins, e.l.t) < Position(joins, e.r.t)

\* Which column e can fix, to what, and how it compares.
FixOf(joins, e) ==
    IF IsSwapped(joins, e) THEN [col |-> e.r, op |-> Mirror[e.op], to |-> e.l]
    ELSE [col |-> e.l, op |-> e.op, to |-> e.r]

\* target is the table of the join whose ON clause e is in, 0 for WHERE.
CanFix(joins, fix, e, target) ==
    LET f == FixOf(joins, e)
    IN  /\ e.op # "IS_NOT"
        /\ target # 0 => f.col.t = target
        /\ target = 0 /\ e.op = "IS" => ~HasOuter(joins)
        /\ fix[f.col.t] = NULL

\* A condition of WHERE is removed under outer joins too.
BugFixKey(joins, fix, e, target) ==
    LET f == FixOf(joins, e)
    IN  IF ~Fixable(e) \/ TableOf(e.l) = TableOf(e.r)
        THEN [fix |-> fix, rest |-> e]
        ELSE IF e.op = "IS_NOT" /\ e.l.c = "k" /\ ~HasOuter(joins)
        THEN [fix |-> fix, rest |-> NoCond]
        ELSE IF CanFix(joins, fix, e, target)
        THEN [fix |-> [fix EXCEPT ![f.col.t] = f], rest |-> NoCond]
        ELSE [fix |-> fix, rest |-> e]

\* Result: the fixed keys, and what is left of e.
FixKey(joins, fix, e, target) ==
    LET f == FixOf(joins, e)
    IN  IF ~Fixable(e) \/ TableOf(e.l) = TableOf(e.r)
        THEN [fix |-> fix, rest |-> e]
        ELSE IF e.op = "IS_NOT" /\ e.l.c = "k" /\ ~HasOuter(joins)
        THEN [fix |-> fix, rest |-> NoCond]
        ELSE IF CanFix(joins, fix, e, target)
        THEN [fix |-> [fix EXCEPT ![f.col.t] = f],
              rest |-> IF target = 0 /\ HasOuter(joins) THEN e ELSE NoCond]
        ELSE [fix |-> fix, rest |-> e]

RECURSIVE lp_optimize_where_multi_equals_ands(_, _, _, _)
lp_optimize_where_multi_equals_ands(joins, fix, e, target) ==
    CASE e.op = "AND" ->
            LET a == lp_optimize_where_multi_equals_ands(joins, fix, e.l, target)
                b == lp_optimize_where_multi_equals_ands(joins, a.fix, e.r, target)
            IN  [fix |-> b.fix, rest |-> And(a.rest, b.rest)]
      [] e.op = "NONE" -> [fix |-> fix, rest |-> e]
      [] OTHER -> FixKey(joins, fix, e, target)

\* ON clauses in join order, then WHERE.
FixOn(p, j) ==
    LET f == lp_optimize_where_multi_equals_ands(p.joins, p.fix, p.joins[j].on, p.joins[j].tab)
    IN  [p EXCEPT !.fix = f.fix, !.joins[j].on = f.rest]

FixKeys(p) ==
    LET on == FoldLeft(FixOn, p, [j \in DOMAIN p.joins |-> j])
        w == lp_optimize_where_multi_equals_ands(on.joins, on.fix, on.where, 0)
    IN  [on EXCEPT !.fix = w.fix, !.where = w.rest]

----------------------------------------------------------------------------
(* lp_optimize_order_by *)

IsXref(p, t) == p.fix[t] # NULL /\ p.fix[t].col.c = "v"

\* Cross references are not looked at.
BugFollowsKeys(p) ==
    /\ Len(p.order) <= Len(p.joins)
    /\ \A i \in DOMAIN p.order :
          /\ p.order[i].t = p.joins[i].tab /\ p.order[i].c = "k"

\* ORDER BY follows the tables' keys in join order, and no cross reference
\* is walked over several values on the way.
FollowsKeys(p) ==
    /\ Len(p.order) <= Len(p.joins)
    /\ \A i \in DOMAIN p.order :
          /\ p.order[i].t = p.joins[i].tab /\ p.order[i].c = "k"
          /\ IsXref(p, p.order[i].t) => p.fix[p.order[i].t].op \in {"=", "IS"}

lp_optimize_order_by(p) ==
    IF FollowsKeys(p)
    THEN [p EXCEPT !.order = <<>>,
                   !.desc = {p.order[i].t : i \in {i \in DOMAIN p.order : p.order[i].desc}}]
    ELSE p

optimize_logical_plan(p, alone) ==
    LET fixed == FixKeys([p EXCEPT !.joins = lp_optimize_cross_join(@, p.where)])
    IN  IF alone THEN lp_optimize_order_by(fixed) ELSE fixed

----------------------------------------------------------------------------
(* The generated M code *)

\* In M reading the key of a table that has none yet ends the query.
Reads(e, env) == Tables(e) \subseteq DOMAIN env
Fail(s) == [s EXCEPT !.err = TRUE]

FixCond(f) == Cond(f.op, f.col, f.to)

\* The keys of join j's table that its loop visits, in the order of the
\* cross reference or of the primary key.  The second half of a RIGHT JOIN
\* visits them all.
Visited(p, j, env, second) ==
    LET t == p.joins[j].tab
    IN  IF second \/ p.fix[t] = NULL THEN DOMAIN db[t]
        ELSE {k \in DOMAIN db[t] : Holds(FixCond(p.fix[t]), env @@ (t :> k), db)}

InLoopOrder(p, t, keys, second) ==
    LET Before(a, b) ==
            IF ~second /\ IsXref(p, t) /\ db[t][a] # db[t][b] THEN db[t][a] < db[t][b]
            ELSE IF t \in p.desc THEN a > b ELSE a < b
    IN  SetToSortSeq(keys, Before)

AtLimit(p, s) == p.order = <<>> /\ query.limit # NULL /\ Len(s.out) >= query.limit

\* A row that an earlier sibling has put out is skipped.
tmpl_tablejoin_body(p, env, s) ==
    IF Len(plans) > 1 /\ env \in s.dup THEN s
    ELSE IF ~Reads(p.where, env) THEN Fail(s)
    ELSE IF ~Holds(p.where, env, db) THEN s
    ELSE [s EXCEPT !.out = Append(@, env), !.dup = @ \cup {env}]

RECURSIVE tmpl_tablejoin(_, _, _, _, _), Nest(_, _, _, _)

\* env has the key of join j's table: ON, marks, then the next join.
Visit(p, j, env, s, second) ==
    LET join == p.joins[j]
        mark == <<j, env[join.tab]>>
    IN  IF second THEN IF mark \in s.marks THEN s ELSE Nest(p, j, env, s)
        ELSE IF ~Reads(join.on, env) THEN Fail(s)
        ELSE IF ~Holds(join.on, env, db) THEN s
        ELSE Nest(p, j, env,
                  [s EXCEPT !.z = IF join.type \in {"LEFT", "FULL"} THEN @ \cup {j} ELSE @,
                            !.marks = IF join.type \in {"RIGHT", "FULL"} THEN @ \cup {mark} ELSE @])

tmpl_tablejoin(p, j, env, s, second) ==
    LET t == p.joins[j].tab
        Step(x, k) == IF x.err \/ AtLimit(p, x) THEN x ELSE Visit(p, j, env @@ (t :> k), x, second)
    IN  IF ~second /\ p.fix[t] # NULL /\ ~(OperandTables(p.fix[t].to) \subseteq DOMAIN env)
        THEN Fail(s)
        ELSE FoldLeft(Step, s, InLoopOrder(p, t, Visited(p, j, env, second), second))

\* A LEFT or FULL JOIN whose ON clause held for no row continues with NULLs.
Nest(p, j, env, s) ==
    IF j = Len(p.joins) THEN tmpl_tablejoin_body(p, env, s)
    ELSE LET inner == tmpl_tablejoin(p, j + 1, env, [s EXCEPT !.z = @ \ {j + 1}], FALSE)
         IN  IF p.joins[j + 1].type \in {"LEFT", "FULL"} /\ j + 1 \notin inner.z /\ ~inner.err
             THEN Nest(p, j + 1, env @@ (p.joins[j + 1].tab :> NULL), inner)
             ELSE inner

\* After the outermost loop: the rows of right tables that matched nothing.
tmpl_physical_plan(p, s) ==
    LET Second(x, j) ==
            IF x.err \/ p.joins[j].type \notin {"RIGHT", "FULL"} THEN x
            ELSE tmpl_tablejoin(p, j, [t \in {p.joins[i].tab : i \in 1..(j - 1)} |-> NULL], x, TRUE)
    IN  FoldLeft(Second, tmpl_tablejoin(p, 1, <<>>, [s EXCEPT !.z = {}, !.marks = {}], FALSE),
                 [j \in DOMAIN p.joins |-> j])

----------------------------------------------------------------------------
(* The ORDER BY pass *)

\* NULLs come last in ascending and first in descending order.
BeforeOn(o, a, b) ==
    LET x == ColumnValue(o.t, o.c, a, db)
        y == ColumnValue(o.t, o.c, b, db)
        less == x # y /\ (y = NULL \/ (x # NULL /\ x < y))
    IN  IF o.desc THEN x # y /\ ~less ELSE less

Before(order, a, b) ==
    \E i \in DOMAIN order :
        /\ BeforeOn(order[i], a, b)
        /\ \A h \in 1..(i - 1) : ColumnValue(order[h].t, order[h].c, a, db)
                                 = ColumnValue(order[h].t, order[h].c, b, db)

\* Rows that agree stay in the order they were put out.
tmpl_order_by_sort(order, out) ==
    LET Ahead(i, h) == Before(order, out[i], out[h])
                       \/ (~Before(order, out[h], out[i]) /\ i < h)
        sorted == SetToSortSeq(DOMAIN out, Ahead)
    IN  [i \in DOMAIN out |-> out[sorted[i]]]

UpToLimit(s) == IF query.limit = NULL THEN s ELSE SubSeq(s, 1, Min({query.limit, Len(s)}))

----------------------------------------------------------------------------
\* The parser gives NATURAL joins their condition.
Qualified(q) ==
    [q EXCEPT !.joins = [j \in DOMAIN q.joins |->
        IF q.joins[j].type = "NATURAL"
        THEN [q.joins[j] EXCEPT !.on = natural_join_condition(j)]
        ELSE q.joins[j]]]

Init ==
    /\ query \in {Qualified(q) : q \in Queries}
    /\ db \in Databases
    /\ DOMAIN db = DOMAIN query.joins
    /\ phase = "parsed"
    /\ plans = <<>>
    /\ next = 1
    /\ st = [out |-> <<>>, dup |-> {}, z |-> {}, marks |-> {}, err |-> FALSE]

ParseTreeOptimize ==
    /\ phase = "parsed"
    /\ LET q == parse_tree_optimize(query)
       IN  plans' = <<[joins |-> q.joins, where |-> q.where, order |-> query.order,
                       fix |-> [t \in DOMAIN q.joins |-> NULL], desc |-> {}]>>
    /\ phase' = "logical"
    /\ UNCHANGED <<query, db, next, st>>

ExpandDNF ==
    /\ phase = "logical"
    /\ LET ws == ExpandWhere(plans[1].where)
       IN  plans' = [i \in DOMAIN ws |-> [plans[1] EXCEPT !.where = ws[i]]]
    /\ phase' = "expanded"
    /\ UNCHANGED <<query, db, next, st>>

\* Moves on to the next sibling, or to the next phase after the last.
Advance(then) ==
    IF next < Len(plans) THEN next' = next + 1 /\ phase' = phase
    ELSE next' = 1 /\ phase' = then

OptimizePlan ==
    /\ phase = "expanded"
    /\ plans' = [plans EXCEPT ![next] = optimize_logical_plan(@, Len(plans) = 1)]
    /\ Advance("running")
    /\ UNCHANGED <<query, db, st>>

RunPlan ==
    /\ phase = "running"
    /\ st' = tmpl_physical_plan(plans[next], st)
    /\ IF st'.err THEN phase' = "done" /\ next' = next ELSE Advance("sorting")
    /\ UNCHANGED <<query, db, plans>>

\* Only the last sibling has code for ORDER BY and its LIMIT.
Sort ==
    /\ phase = "sorting"
    /\ LET order == plans[Len(plans)].order
       IN  st' = IF order = <<>> THEN st
                 ELSE [st EXCEPT !.out = UpToLimit(tmpl_order_by_sort(order, @))]
    /\ phase' = "done"
    /\ UNCHANGED <<query, db, plans, next>>

Next == ParseTreeOptimize \/ ExpandDNF \/ OptimizePlan \/ RunPlan \/ Sort

Spec == Init /\ [][Next]_vars

----------------------------------------------------------------------------
(***************************************************************************)
(* What the query means: joins from left to right as the SQL standard has  *)
(* them, then WHERE, as a set of rows.                                     *)
(***************************************************************************)
RECURSIVE JoinedRows(_, _)
JoinedRows(joins, j) ==
    IF j = 0 THEN {<<>>}
    ELSE LET rows == JoinedRows(joins, j - 1)
             t == joins[j].tab
             keys == DOMAIN db[t]
             pairs == {x \in rows \X keys : Holds(joins[j].on, x[1] @@ (t :> x[2]), db)}
             lonelyRows == IF joins[j].type \in {"LEFT", "FULL"} THEN rows \ {x[1] : x \in pairs} ELSE {}
             lonelyKeys == IF joins[j].type \in {"RIGHT", "FULL"} THEN keys \ {x[2] : x \in pairs} ELSE {}
             noRow == [i \in {joins[i].tab : i \in 1..(j - 1)} |-> NULL]
         IN  {x[1] @@ (t :> x[2]) : x \in pairs}
             \cup {r @@ (t :> NULL) : r \in lonelyRows}
             \cup {noRow @@ (t :> k) : k \in lonelyKeys}

RowsOf(joins, where) == {r \in JoinedRows(joins, Len(joins)) : Holds(where, r, db)}

Meaning == RowsOf(query.joins, query.where)

----------------------------------------------------------------------------
(* Properties *)

\* Moving parts of WHERE into ON clauses, pushing NOT inwards and splitting
\* the query at every OR change what runs but not which rows are selected:
\* before keys are fixed the sibling plans together select the rows of the
\* query.
MeaningKept ==
    phase \in {"logical", "expanded"} /\ next = 1 =>
        UNION {RowsOf(p.joins, p.where) : p \in Range(plans)} = Meaning

\* The generated loops, with reordered tables, fixed keys and conditions
\* removed, put out every row of the query exactly once; under LIMIT, that
\* many of them.
RowsCorrect ==
    phase = "done" /\ ~st.err =>
        /\ \A i, h \in DOMAIN st.out : st.out[i] = st.out[h] => i = h
        /\ IF query.limit = NULL THEN Range(st.out) = Meaning
           ELSE /\ Range(st.out) \subseteq Meaning
                /\ Len(st.out) = Min({query.limit, Cardinality(Meaning)})

\* Rows come out as ORDER BY says, whether the sort ran or lp_optimize_order_by
\* removed it, and LIMIT drops no row that goes before one it kept.
OrderKept ==
    phase = "done" /\ ~st.err =>
        /\ \A i, h \in DOMAIN st.out : i < h => ~Before(query.order, st.out[h], st.out[i])
        /\ \A r \in Meaning \ Range(st.out), i \in DOMAIN st.out :
              ~Before(query.order, r, st.out[i])

\* No condition is evaluated, and no key fixed, before the tables it reads
\* have a row: "columns all of which correspond to tables that are known at
\* the time the JOIN is parsed" (move_where_clause_to_on_clause.c).
BoundReads == ~st.err
=============================================================================
