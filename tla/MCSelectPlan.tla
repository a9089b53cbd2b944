---------------------------- MODULE MCSelectPlan ----------------------------
(***************************************************************************)
(* Queries and databases for SelectPlan: one table with deep WHERE clauses *)
(* and all contents within the bounds, two tables with every join type,    *)
(* and chains of three tables.                                             *)
(***************************************************************************)
EXTENDS SelectPlan

K(t) == Col(t, "k")
V(t) == Col(t, "v")
Eq(a, b) == Cond("=", a, b)
Or(a, b) == Cond("OR", a, b)
IsNull(c) == Cond("IS", c, Val(NULL))
IsNotNull(c) == Cond("IS_NOT", c, Val(NULL))
Like(c) == Cond("LIKE", c, Val(1))

Join(t, type, on) == [tab |-> t, type |-> type, on |-> on]
First == Join(1, "NONE", NoCond)
By(t, c, desc) == [t |-> t, c |-> c, desc |-> desc]
Query(joins, where, order, limit) ==
    [joins |-> joins, where |-> where, order |-> order, limit |-> limit]

----------------------------------------------------------------------------
(* One table.  Bounds: keys 1..3, v in {NULL, 1, 2}; LIMIT 0 and 2. *)

Contents == UNION {[ks -> {NULL, 1, 2}] : ks \in SUBSET (1..3)}

Leaves == {Eq(K(1), Val(2)), Cond(">", K(1), Val(1)), Eq(V(1), Val(1)),
           Cond("IN", V(1), List(<<2, 1>>)), Cond(">", Val(2), V(1)), IsNull(V(1))}

Simple == Leaves \cup {NoCond, IsNotNull(V(1)), IsNotNull(K(1)), Like(V(1)), Eq(V(1), Val(NULL)),
                       Eq(K(1), V(1)), Eq(Val(1), Val(1)), IsNull(Asterisk(1)), Not(Like(V(1))),
                       Not(IsNotNull(Asterisk(1))), Cond("IN", K(1), List(<<3, 1>>))}

Nested == {And(a, b) : a, b \in Leaves} \cup {Or(a, b) : a, b \in Leaves}
          \cup {Not(And(a, b)) : a, b \in Leaves} \cup {Not(Or(a, Not(b))) : a, b \in Leaves}

Deep == {And(Or(a, b), Or(b, c)) : a \in Leaves, b \in {Eq(V(1), Val(1))}, c \in {IsNull(V(1)), Like(V(1))}}
        \cup {Not(And(Or(a, b), Not(c))) : a \in Leaves, b, c \in {Eq(V(1), Val(1)), Eq(K(1), Val(2))}}

OneTableOrders == {<<>>, <<By(1, "k", FALSE)>>, <<By(1, "k", TRUE)>>, <<By(1, "v", TRUE), By(1, "k", FALSE)>>}

OneTable ==
    {Query(<<First>>, w, <<>>, NULL) : w \in Nested \cup Deep}
    \cup {Query(<<First>>, w, o, l) : w \in Simple, o \in OneTableOrders, l \in {NULL, 2}}
    \cup {Query(<<First>>, Or(Eq(V(1), Val(1)), Eq(K(1), Val(2))), o, l) : o \in OneTableOrders, l \in {0, 2}}

----------------------------------------------------------------------------
(* Joins.  Bounds: the contents below for each table; LIMIT 1. *)

Joined == {<<>>, 1 :> 1, 1 :> 1 @@ 2 :> 1, 1 :> NULL @@ 2 :> 1, 1 :> 2 @@ 2 :> 1}

Ons == {Eq(K(1), K(2)), Eq(V(2), V(1)), And(Eq(K(2), V(1)), Eq(V(2), Val(1))),
        Eq(V(1), Val(1)), Cond("<", K(1), K(2)), IsNull(V(2)), Or(Eq(K(1), K(2)), Eq(V(1), V(2)))}

TwoTables ==
    {<<First, Join(2, type, on)>> : type \in {"INNER", "LEFT", "RIGHT", "FULL"}, on \in Ons}
    \cup {<<First, Join(2, type, NoCond)>> : type \in {"CROSS", "NATURAL"}}

Wheres == {NoCond, Eq(V(1), Val(1)), Eq(V(2), Val(1)), Eq(K(2), Val(1)), IsNull(V(2)), IsNotNull(K(2)),
           Eq(K(2), K(1)), Cond("<", V(1), V(2)), Or(Eq(V(1), Val(1)), IsNull(K(1))),
           And(Eq(V(1), Val(1)), Eq(K(2), V(1)))}

TwoTableOrders == {<<>>, <<By(1, "k", FALSE), By(2, "k", FALSE)>>, <<By(1, "k", TRUE)>>}

Chains ==
    {<<First, Join(2, a, Eq(V(2), V(1))), Join(3, b, Eq(K(3), K(2)))>>
        : a, b \in {"INNER", "LEFT", "RIGHT", "FULL"}}
    \cup {<<First, Join(2, a, NoCond), Join(3, b, NoCond)>> : a, b \in {"CROSS", "NATURAL"}}
    \cup {<<First, Join(2, "CROSS", NoCond), Join(3, "INNER", Eq(K(3), V(1)))>>}

ChainWheres == {NoCond, Eq(V(1), Val(1)), And(Eq(K(3), V(2)), Eq(V(3), Val(1))), IsNull(V(3)),
                And(Eq(V(1), Val(1)), Eq(K(3), Val(2))), Or(Eq(K(1), K(3)), Eq(K(2), Val(1)))}

\* The parser refuses T1 CROSS JOIN T2 NATURAL JOIN T3: a column of T3 is
\* common to two tables on the left.
Refused(joins) == \E i, j \in DOMAIN joins : i < j /\ joins[i].type = "CROSS" /\ joins[j].type = "NATURAL"

\* The rows that a RIGHT or FULL JOIN adds with NULLs on the left come last.
NullsOutOfPlace(q) ==
    /\ TypesOf(q.joins) \cap {"RIGHT", "FULL"} # {}
    /\ q.order # <<>> /\ q.order[1].desc

\* CROSS JOIN after NATURAL JOIN and a WHERE clause: the condition moved to an ON
\* clause is evaluated before its table has a row when the tables are reordered.
OnLeftBehind(q) == {"NATURAL", "CROSS"} \subseteq TypesOf(q.joins) /\ q.where # NoCond

TwoTable == {Query(j, w, o, NULL) : j \in TwoTables, w \in Wheres, o \in TwoTableOrders}
            \cup {Query(j, NoCond, o, 1) : j \in TwoTables, o \in TwoTableOrders}

ThreeTable == {Query(j, w, <<>>, NULL) : j \in {j \in Chains : ~Refused(j)}, w \in ChainWheres}

MCQueries ==
    OneTable \cup {q \in TwoTable \cup ThreeTable : ~NullsOutOfPlace(q) /\ ~OnLeftBehind(q)}

Three == {1 :> 1, 1 :> NULL @@ 2 :> 1, 1 :> 2 @@ 2 :> 1}

MCDatabases == [1..1 -> Contents] \cup [1..2 -> Joined] \cup [1..3 -> Three]

\* NOT over an AND with an operand that NOT cannot be pushed into.
NotQueries == {Query(<<First>>, Not(And(a, b)), <<>>, NULL) : a \in {Like(V(1))}, b \in Leaves}
=============================================================================
