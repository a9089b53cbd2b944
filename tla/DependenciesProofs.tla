------------------------- MODULE DependenciesProofs -------------------------
(***************************************************************************)
(* For any processes, names and definitions: the indexes of Dependencies   *)
(* mirror each other and a DROP never takes away what a stored view or     *)
(* constraint was seen to use.  Functions with the name of a table are not *)
(* covered (Clashing of Dependencies).                                     *)
(***************************************************************************)
EXTENDS Dependencies, TLAPS

-----------------------------------------------------------------------------
(* The inductive invariant. *)

\* The lvn of a process with a CREATE VIEW under way names all that the view uses.
Gathered ==
    \A p \in Proc :
        Exclusive(p, "create view") =>
            \A o \in stmt[p].def.on : <<stmt[p].name, o>> \in lvnView[p]

\* Every use of a stored view is in the index that DROP reads.
ViewsRecorded ==
    \A v \in View : views[v] # NoDef => \A o \in views[v].on \ Clashing : <<o, v>> \in usedByView

\* The first function of every constraint of a stored table is in the index that
\* DROP FUNCTION reads.
CallsRecorded ==
    \A t \in Table, c \in Constraint, f \in Func \ Clashing :
        tables[t] # NoDef /\ f \in First(tables[t].calls[c]) => <<f, t, c>> \in usedByTable

DepInv == TypeOK /\ IndexesAgree /\ Gathered /\ ViewsRecorded /\ CallsRecorded

-----------------------------------------------------------------------------
(* The steps that leave the database alone. *)

\* A step that changes no stored definition and no index keeps what speaks of them.
LEMMA DatabaseKept ==
    ASSUME DepInv, UNCHANGED dbVars
    PROVE  IndexesAgree' /\ ViewsRecorded' /\ CallsRecorded'
BY DEF DepInv, IndexesAgree, ViewsRecorded, CallsRecorded, dbVars, indexVars

\* Exclusive() pins the shape of the statement.
LEMMA StatementShape ==
    ASSUME TypeOK, NEW p \in Proc, stmt[p] # NoDef
    PROVE  /\ stmt[p] \in Statement
           /\ stmt[p].op = "create view" => stmt[p].name \in View /\ stmt[p].def \in ViewDefs
           /\ stmt[p].op = "create table" => stmt[p].name \in Table /\ stmt[p].def \in TableDefs
           /\ stmt[p].op \in {"create function", "drop function"} => stmt[p].name \in Func
           /\ stmt[p].op = "drop table" => stmt[p].name \in Table
           /\ stmt[p].op = "drop view" => stmt[p].name \in View
<1>1. stmt[p] \in Statement
  BY DEF TypeOK
<1>. QED
  BY <1>1, Zenon DEF Statement

\* A statement that ends leaves the others as they were.
LEMMA ReturnShape ==
    ASSUME TypeOK, NEW p \in Proc, Return(p)
    PROVE  /\ stmt' \in [Proc -> Statement \cup {NoDef}]
           /\ stmt'[p] = NoDef
           /\ \A q \in Proc \ {p} : stmt'[q] = stmt[q]
BY DEF TypeOK, Return

\* Parsing keeps the invariant: CREATE VIEW gathers what it will need.
LEMMA ParseStep ==
    ASSUME DepInv, NEW p \in Proc,
           \/ \E v \in View, d \in ViewDefs : ParseCreateView(p, v, d)
           \/ \E t \in Table, d \in TableDefs : ParseCreateTable(p, t, d)
           \/ \E s \in Statement : ParseOther(p, s)
    PROVE  DepInv'
<1>1. UNCHANGED dbVars
  BY Zenon DEF ParseCreateView, ParseCreateTable, ParseOther, Accept
<1>2. IndexesAgree' /\ ViewsRecorded' /\ CallsRecorded'
  BY <1>1, DatabaseKept
<1>3. CASE \E v \in View, d \in ViewDefs : ParseCreateView(p, v, d)
  <2>1. PICK v \in View, d \in ViewDefs : ParseCreateView(p, v, d)
    BY <1>3
  <2>2. d.on \subseteq Object
    BY DefAssumption DEF ViewType
  <2>3. TypeOK'
    <3>1. [op |-> "create view", name |-> v, def |-> d] \in Statement
      BY Zenon DEF Statement
    <3>2. lvnView' \in [Proc -> SUBSET (View \X Object)]
      BY <2>1, <2>2, ZenonT(30) DEF DepInv, TypeOK, ParseCreateView
    <3>. QED
      BY <1>1, <2>1, <3>1, <3>2, Zenon DEF DepInv, TypeOK, ParseCreateView, Accept, dbVars, indexVars
  <2>4. Gathered'
    <3>1. \A q \in Proc \ {p} : stmt'[q] = stmt[q] /\ lvnView'[q] = lvnView[q]
      BY <2>1, Zenon DEF DepInv, TypeOK, ParseCreateView, Accept
    <3>2. stmt'[p] = [op |-> "create view", name |-> v, def |-> d]
      BY <2>1, Zenon DEF DepInv, TypeOK, ParseCreateView, Accept
    <3>3. \A o \in d.on : <<v, o>> \in lvnView'[p]
      BY <2>1, Zenon DEF DepInv, TypeOK, ParseCreateView
    <3>4. ASSUME NEW q \in Proc, Exclusive(q, "create view")',
                 NEW o \in stmt'[q].def.on
          PROVE  <<stmt'[q].name, o>> \in lvnView'[q]
      <4>1. CASE q = p
        <5>1. stmt'[q].def = d /\ stmt'[q].name = v
          <6>. DEFINE r == [op |-> "create view", name |-> v, def |-> d]
          <6>1. r.def = d /\ r.name = v
            OBVIOUS
          <6>2. stmt'[q] = r
            BY <3>2, <4>1, Zenon
          <6>. HIDE DEF r
          <6>. QED
            BY <6>1, <6>2
        <5>. QED
          BY <3>3, <3>4, <4>1, <5>1, Zenon
      <4>2. CASE q # p
        BY <3>1, <3>4, <4>2, Zenon DEF DepInv, Gathered, Exclusive
      <4>. QED
        BY <4>1, <4>2
    <3>. QED
      BY <3>4, Zenon DEF Gathered
  <2>. QED
    BY <1>2, <2>3, <2>4 DEF DepInv
<1>4. CASE \E t \in Table, d \in TableDefs : ParseCreateTable(p, t, d)
  <2>1. PICK t \in Table, d \in TableDefs : ParseCreateTable(p, t, d)
    BY <1>4
  <2>2. [op |-> "create table", name |-> t, def |-> d] \in Statement
    BY Zenon DEF Statement
  <2>3. TypeOK'
    BY <1>1, <2>1, <2>2, Zenon DEF DepInv, TypeOK, ParseCreateTable, Accept, dbVars, indexVars
  <2>4. Gathered'
    BY <2>1, Zenon DEF DepInv, TypeOK, Gathered, Exclusive, ParseCreateTable, Accept
  <2>. QED
    BY <1>2, <2>3, <2>4 DEF DepInv
<1>5. CASE \E s \in Statement : ParseOther(p, s)
  <2>1. PICK s \in Statement : ParseOther(p, s)
    BY <1>5
  <2>2. TypeOK'
    BY <1>1, <2>1, Zenon DEF DepInv, TypeOK, ParseOther, Accept, dbVars, indexVars
  <2>3. Gathered'
    BY <2>1, Zenon DEF DepInv, TypeOK, Gathered, Exclusive, ParseOther, Accept
  <2>. QED
    BY <1>2, <2>2, <2>3 DEF DepInv
<1>. QED
  BY <1>3, <1>4, <1>5

\* So does every end without effect: a timeout, a refusal or the end of the process.
LEMMA IdleStep ==
    ASSUME DepInv, NEW p \in Proc, Fail(p) \/ Exit(p)
    PROVE  DepInv'
<1>1. UNCHANGED dbVars /\ Return(p)
  BY DEF Fail, Exit
<1>2. IndexesAgree' /\ ViewsRecorded' /\ CallsRecorded'
  BY <1>1, DatabaseKept
<1>3. lvnView' \in [Proc -> SUBSET (View \X Object)]
  BY DEF DepInv, TypeOK, Fail, Exit
<1>4. \A q \in Proc \ {p} : lvnView'[q] = lvnView[q]
  BY DEF DepInv, TypeOK, Fail, Exit
<1>5. TypeOK'
  BY <1>1, <1>3, ReturnShape DEF DepInv, TypeOK, dbVars, indexVars
<1>6. Gathered'
  BY <1>1, <1>4, ReturnShape, Zenon DEF DepInv, Gathered, Exclusive
<1>. QED
  BY <1>2, <1>5, <1>6 DEF DepInv
-----------------------------------------------------------------------------
(* The steps of the exclusive section. *)

\* What is gathered stays so when a statement returns and no other lvn changes.
LEMMA GatheredKept ==
    ASSUME DepInv, NEW p \in Proc, Return(p),
           \A q \in Proc \ {p} : lvnView'[q] = lvnView[q]
    PROVE  Gathered'
BY ReturnShape, Zenon DEF DepInv, Gathered, Exclusive

\* CREATE VIEW copies the lvn into both indexes.
LEMMA CreateViewStep ==
    ASSUME DepInv, NEW p \in Proc, CreateView(p)
    PROVE  DepInv'
<1>. DEFINE v == stmt[p].name
            found == {o \in Object : <<v, o>> \in lvnView[p]}
<1>1. v \in View /\ stmt[p].def \in ViewDefs
  BY StatementShape, Zenon DEF DepInv, CreateView, Exclusive
<1>2. /\ viewUses' = viewUses \cup ({v} \X found)
      /\ usedByView' = usedByView \cup (found \X {v})
      /\ lvnView' = [lvnView EXCEPT ![p] = {}]
      /\ views' = [views EXCEPT ![v] = stmt[p].def]
      /\ UNCHANGED <<tables, funcs, broken, tableUses, usedByTable, pkeyOwner>>
      /\ Return(p)
  BY Zenon DEF CreateView, StoreViewDependencies, Name
<1>3. TypeOK'
  <2>1. lvnView' \in [Proc -> SUBSET (View \X Object)]
    BY <1>2 DEF DepInv, TypeOK
  <2>2. viewUses' \subseteq View \X Object /\ usedByView' \subseteq Object \X View
    BY <1>1, <1>2 DEF DepInv, TypeOK
  <2>3. views' \in [View -> ViewDefs \cup {NoDef}]
    BY <1>1, <1>2 DEF DepInv, TypeOK
  <2>. QED
    BY <1>2, <2>1, <2>2, <2>3, ReturnShape DEF DepInv, TypeOK
<1>4. IndexesAgree'
  BY <1>1, <1>2 DEF DepInv, IndexesAgree
<1>5. Gathered'
  <2>1. \A q \in Proc \ {p} : lvnView'[q] = lvnView[q]
    BY <1>2 DEF DepInv, TypeOK
  <2>. QED
    BY <1>2, <2>1, GatheredKept
<1>6. ViewsRecorded'
  <2>1. \A o \in stmt[p].def.on : o \in found
    <3>1. stmt[p].def.on \subseteq Object
      BY <1>1, DefAssumption DEF ViewType
    <3>. QED
      BY <3>1, Zenon DEF DepInv, Gathered, CreateView
  <2>. HIDE DEF found
  <2>2. ASSUME NEW w \in View, views'[w] # NoDef, NEW o \in views'[w].on \ Clashing
        PROVE  <<o, w>> \in usedByView'
    <3>1. CASE w = v
      BY <1>1, <1>2, <2>1, <2>2, <3>1 DEF DepInv, TypeOK
    <3>2. CASE w # v
      BY <1>2, <2>2, <3>2 DEF DepInv, TypeOK, ViewsRecorded
    <3>. QED
      BY <3>1, <3>2
  <2>. QED
    BY <2>2 DEF ViewsRecorded
<1>7. CallsRecorded'
  BY <1>2 DEF DepInv, CallsRecorded
<1>. QED
  BY <1>3, <1>4, <1>5, <1>6, <1>7 DEF DepInv

\* CREATE TABLE links the first function of every constraint.
LEMMA CreateTableStep ==
    ASSUME DepInv, NEW p \in Proc, CreateTable(p)
    PROVE  DepInv'
<1>. DEFINE t == stmt[p].name
            d == stmt[p].def
<1>1. t \in Table /\ d \in TableDefs
  BY StatementShape, Zenon DEF DepInv, CreateTable, Exclusive
<1>2. d.pkey \in PKey
  BY <1>1, DefAssumption DEF TableType
<1>3. /\ tables' = [tables EXCEPT ![t] = d]
      /\ tableUses' = tableUses \cup {<<t, l[1], l[2]>> : l \in FirstCalls(d)}
      /\ usedByTable' = usedByTable \cup {<<l[2], t, l[1]>> : l \in FirstCalls(d)}
      /\ pkeyOwner' = [pkeyOwner EXCEPT ![d.pkey] = t]
      /\ Return(p)
      /\ UNCHANGED <<lvnView, views, funcs, broken, viewUses, usedByView>>
  BY Zenon DEF CreateTable, Name
<1>4. FirstCalls(d) \subseteq Constraint \X Func
  BY DEF FirstCalls
<1>5. \A c \in Constraint, f \in Func :
          /\ <<t, c, f>> \in tableUses' <=> <<t, c, f>> \in tableUses \/ <<c, f>> \in FirstCalls(d)
          /\ <<f, t, c>> \in usedByTable' <=> <<f, t, c>> \in usedByTable \/ <<c, f>> \in FirstCalls(d)
  BY <1>3, <1>4
<1>6. \A u \in Table, c \in Constraint, f \in Func :
          u # t => /\ <<u, c, f>> \in tableUses' <=> <<u, c, f>> \in tableUses
                   /\ <<f, u, c>> \in usedByTable' <=> <<f, u, c>> \in usedByTable
  BY <1>3
<1>7. TypeOK'
  <2>1. tableUses' \subseteq Table \X Constraint \X Func
    BY <1>1, <1>3, <1>4 DEF DepInv, TypeOK
  <2>2. usedByTable' \subseteq Func \X Table \X Constraint
    BY <1>1, <1>3, <1>4 DEF DepInv, TypeOK
  <2>3. pkeyOwner' \in [PKey -> Table \cup {NoDef}]
    BY <1>1, <1>2, <1>3 DEF DepInv, TypeOK
  <2>4. tables' \in [Table -> TableDefs \cup {NoDef}]
    BY <1>1, <1>3, SMTT(30) DEF DepInv, TypeOK
  <2>. QED
    BY <1>3, <2>1, <2>2, <2>3, <2>4, ReturnShape DEF DepInv, TypeOK
<1>8. IndexesAgree'
  BY <1>3, <1>5, <1>6 DEF DepInv, IndexesAgree
<1>9. Gathered'
  BY <1>3, GatheredKept
<1>10. ViewsRecorded'
  BY <1>3 DEF DepInv, ViewsRecorded
<1>11. CallsRecorded'
  <2>1. ASSUME NEW u \in Table, NEW c \in Constraint, NEW f \in Func,
               f \notin Clashing, tables'[u] # NoDef, f \in First(tables'[u].calls[c])
        PROVE  <<f, u, c>> \in usedByTable'
    <3>1. CASE u = t
      <4>1. tables'[u] = d
        BY <1>1, <1>3, <3>1 DEF DepInv, TypeOK
      <4>2. <<c, f>> \in FirstCalls(d)
        BY <2>1, <4>1 DEF FirstCalls
      <4>. QED
        BY <1>5, <3>1, <4>2, Zenon
    <3>2. CASE u # t
      <4>1. tables'[u] = tables[u]
        BY <1>3, <3>2 DEF DepInv, TypeOK
      <4>. QED
        BY <1>6, <2>1, <3>2, <4>1, Zenon DEF DepInv, CallsRecorded
    <3>. QED
      BY <3>1, <3>2
  <2>. QED
    BY <2>1 DEF CallsRecorded
<1>. QED
  BY <1>7, <1>8, <1>9, <1>10, <1>11 DEF DepInv

\* CREATE FUNCTION and DROP FUNCTION touch no index.
LEMMA FunctionStep ==
    ASSUME DepInv, NEW p \in Proc, CreateFunction(p) \/ DropFunction(p)
    PROVE  DepInv'
<1>1. /\ UNCHANGED <<lvnView, tables, views, indexVars>>
      /\ Return(p)
  BY Zenon DEF CreateFunction, DropFunction
<1>2. funcs' \subseteq Func /\ broken' \subseteq Func
  <2>1. CASE CreateFunction(p)
    BY <2>1, StatementShape, Zenon DEF DepInv, TypeOK, CreateFunction, Exclusive, Name
  <2>2. CASE DropFunction(p)
    BY <2>2, Zenon DEF DepInv, TypeOK, DropFunction
  <2>. QED
    BY <2>1, <2>2
<1>3. TypeOK'
  BY <1>1, <1>2, ReturnShape DEF DepInv, TypeOK, indexVars
<1>4. Gathered'
  BY <1>1, GatheredKept
<1>5. IndexesAgree' /\ ViewsRecorded' /\ CallsRecorded'
  BY <1>1 DEF DepInv, IndexesAgree, ViewsRecorded, CallsRecorded, indexVars
<1>. QED
  BY <1>3, <1>4, <1>5 DEF DepInv

\* DROP VIEW removes the nodes of that view, on both sides, and no others.
LEMMA DropViewStep ==
    ASSUME DepInv, NEW p \in Proc, DropView(p)
    PROVE  DepInv'
<1>. DEFINE v == stmt[p].name
<1>1. v \in View
  BY StatementShape, Zenon DEF DepInv, DropView, Exclusive
<1>2. /\ viewUses' = {u \in viewUses : u[1] # v}
      /\ usedByView' = {u \in usedByView : <<v, u[1]>> \notin viewUses \/ u[2] # v}
      /\ views' = [views EXCEPT ![v] = NoDef]
      /\ Return(p)
      /\ UNCHANGED <<lvnView, tables, funcs, broken, tableUses, usedByTable, pkeyOwner>>
  BY Zenon DEF DropView, DiscardView, Name
<1>3. \A w \in View, o \in Object :
          /\ <<w, o>> \in viewUses' <=> <<w, o>> \in viewUses /\ w # v
          /\ <<o, w>> \in usedByView' <=> <<o, w>> \in usedByView /\ (<<v, o>> \notin viewUses \/ w # v)
  BY <1>2
<1>4. TypeOK'
  BY <1>2, ReturnShape, Zenon DEF DepInv, TypeOK
<1>5. IndexesAgree'
  <2>1. \A w \in View, o \in Object \ Clashing : <<w, o>> \in viewUses' <=> <<o, w>> \in usedByView'
    BY <1>3, Zenon DEF DepInv, IndexesAgree
  <2>. QED
    BY <1>2, <2>1 DEF DepInv, IndexesAgree
<1>6. Gathered'
  BY <1>2, GatheredKept
<1>7. ViewsRecorded'
  <2>1. ASSUME NEW w \in View, views'[w] # NoDef, NEW o \in views'[w].on \ Clashing
        PROVE  <<o, w>> \in usedByView'
    <3>1. w # v /\ views'[w] = views[w]
      BY <1>1, <1>2, <2>1 DEF DepInv, TypeOK
    <3>2. <<o, w>> \in usedByView
      BY <2>1, <3>1 DEF DepInv, ViewsRecorded
    <3>. QED
      BY <1>2, <3>1, <3>2
  <2>. QED
    BY <2>1 DEF ViewsRecorded
<1>8. CallsRecorded'
  BY <1>2 DEF DepInv, CallsRecorded
<1>. QED
  BY <1>4, <1>5, <1>6, <1>7, <1>8 DEF DepInv

\* Of a function that has not the name of a table, discardTable() removes links of that
\* table only, each with its mirror.
LEMMA DiscardShape ==
    ASSUME DepInv, NEW t \in Table, DiscardTable(t)
    PROVE  /\ tableUses' \subseteq tableUses /\ usedByTable' \subseteq usedByTable
           /\ usedByView' \subseteq usedByView
           /\ funcs' \subseteq funcs /\ funcs \ Clashing \subseteq funcs'
           /\ broken' \subseteq Func
           /\ \A o \in Object \ Clashing, v \in View :
                  <<o, v>> \in usedByView' <=> <<o, v>> \in usedByView
           /\ \A u \in Table, c \in Constraint, f \in Func \ Clashing :
                  /\ (<<u, c, f>> \in tableUses <=> <<f, u, c>> \in usedByTable)
                        => (<<u, c, f>> \in tableUses' <=> <<f, u, c>> \in usedByTable')
                  /\ u # t => (<<f, u, c>> \in usedByTable' <=> <<f, u, c>> \in usedByTable)
<1>1. PICK gone : gone = FirstLink(t, Constraint \ Extract) \cup FirstLink(t, Extract)
  OBVIOUS
<1>2. PICK hit : hit = RunsInto(t, gone)
  OBVIOUS
<1>3. /\ tableUses' = tableUses \ gone
      /\ \E lost \in SUBSET {u \in usedByTable : u[1] \in hit} :
             usedByTable' = usedByTable \ (lost \cup {<<u[3], u[1], u[2]>> : u \in gone})
      /\ \E lost \in SUBSET {u \in usedByView : u[1] \in hit} : usedByView' = usedByView \ lost
      /\ \E lost \in SUBSET (funcs \cap hit) :
             funcs' = funcs \ lost /\ broken' = broken \cup lost
  BY <1>1, <1>2, Zenon DEF DiscardTable
<1>4. hit \subseteq Clashing
  BY <1>2 DEF RunsInto, Clashing
<1>5. gone \subseteq tableUses /\ \A u \in gone : u[1] = t
  BY <1>1 DEF FirstLink
<1>6. gone \subseteq Table \X Constraint \X Func
  BY <1>5 DEF DepInv, TypeOK
<1>7. PICK links \in SUBSET {u \in usedByTable : u[1] \in hit} :
          usedByTable' = usedByTable \ (links \cup {<<u[3], u[1], u[2]>> : u \in gone})
  BY <1>3
<1>8. PICK uses \in SUBSET {u \in usedByView : u[1] \in hit} : usedByView' = usedByView \ uses
  BY <1>3
<1>9. PICK defs \in SUBSET (funcs \cap hit) : funcs' = funcs \ defs /\ broken' = broken \cup defs
  BY <1>3
<1>10. funcs' \subseteq funcs /\ funcs \ Clashing \subseteq funcs' /\ broken' \subseteq Func
  BY <1>4, <1>9, Zenon DEF DepInv, TypeOK
<1>11. \A o \in Object \ Clashing, v \in View : <<o, v>> \in usedByView' <=> <<o, v>> \in usedByView
  BY <1>4, <1>8
<1>12. ASSUME NEW u \in Table, NEW c \in Constraint, NEW f \in Func \ Clashing
       PROVE  /\ <<u, c, f>> \in tableUses' <=> <<u, c, f>> \in tableUses /\ <<u, c, f>> \notin gone
              /\ <<f, u, c>> \in usedByTable' <=>
                     <<f, u, c>> \in usedByTable /\ <<u, c, f>> \notin gone
              /\ <<u, c, f>> \in gone => u = t
  <2>1. <<f, u, c>> \notin links
    BY <1>4, <1>7
  <2>2. <<f, u, c>> \in {<<w[3], w[1], w[2]>> : w \in gone} <=> <<u, c, f>> \in gone
    BY <1>6
  <2>3. <<u, c, f>> \in gone => u = t
    BY <1>5
  <2>. QED
    BY <1>3, <1>7, <2>1, <2>2, <2>3, Zenon
<1>. QED
  BY <1>3, <1>7, <1>8, <1>10, <1>11, <1>12, Zenon

\* DROP TABLE removes links on both sides, of functions that it does not run into.
LEMMA DropTableStep ==
    ASSUME DepInv, NEW p \in Proc, DropTable(p)
    PROVE  DepInv'
<1>. DEFINE t == stmt[p].name
            k == tables[t].pkey
<1>1. t \in Table /\ tables[t] # NoDef
  BY StatementShape, Zenon DEF DepInv, DropTable, Exclusive, Name
<1>2. k \in PKey
  BY <1>1, DefAssumption DEF DepInv, TypeOK, TableType
<1>3. /\ DiscardTable(t)
      /\ pkeyOwner' = [pkeyOwner EXCEPT ![k] = NoDef]
      /\ tables' = [tables EXCEPT ![t] = NoDef]
      /\ Return(p)
      /\ UNCHANGED <<lvnView, views, viewUses>>
  BY Zenon DEF DropTable, Name
<1>4. TypeOK'
  BY <1>1, <1>2, <1>3, ReturnShape, DiscardShape, ZenonT(40) DEF DepInv, TypeOK
<1>5. IndexesAgree'
  BY <1>1, <1>3, DiscardShape, ZenonT(40) DEF DepInv, IndexesAgree
<1>6. Gathered'
  BY <1>3, GatheredKept
<1>7. ViewsRecorded'
  <2>1. \A v \in View, o \in Object \ Clashing : <<o, v>> \in usedByView => <<o, v>> \in usedByView'
    BY <1>1, <1>3, DiscardShape, Zenon
  <2>2. \A v \in View : views[v] # NoDef => views[v].on \subseteq Object
    BY DefAssumption DEF DepInv, TypeOK, ViewType
  <2>. QED
    BY <1>3, <2>1, <2>2, Zenon DEF DepInv, ViewsRecorded
<1>8. CallsRecorded'
  <2>1. ASSUME NEW u \in Table, NEW c \in Constraint, NEW f \in Func,
               f \notin Clashing, tables'[u] # NoDef, f \in First(tables'[u].calls[c])
        PROVE  <<f, u, c>> \in usedByTable'
    <3>1. u # t /\ tables'[u] = tables[u]
      BY <1>1, <1>3, <2>1 DEF DepInv, TypeOK
    <3>2. <<f, u, c>> \in usedByTable
      BY <2>1, <3>1, Zenon DEF DepInv, CallsRecorded
    <3>. QED
      BY <1>1, <1>3, <2>1, <3>1, <3>2, DiscardShape, Zenon
  <2>. QED
    BY <2>1, Zenon DEF CallsRecorded
<1>. QED
  BY <1>4, <1>5, <1>6, <1>7, <1>8 DEF DepInv

-----------------------------------------------------------------------------
(* The theorems. *)

\* Every step of Dependencies keeps the invariant.
LEMMA StepKeepsDepInv ==
    ASSUME DepInv, [Next]_vars
    PROVE  DepInv'
<1>1. CASE UNCHANGED vars
  <2>1. UNCHANGED dbVars /\ UNCHANGED <<stmt, lvnView>>
    BY <1>1 DEF vars
  <2>2. TypeOK' /\ Gathered'
    BY <2>1, Zenon DEF DepInv, TypeOK, Gathered, Exclusive, dbVars, indexVars
  <2>. QED
    BY <2>1, <2>2, DatabaseKept DEF DepInv
<1>2. ASSUME NEW p \in Proc, Timeout(p) \/ Exit(p) \/ Refuse(p)
      PROVE  DepInv'
  BY <1>2, IdleStep, Zenon DEF Timeout, Refuse
<1>. QED
  BY <1>1, <1>2, ParseStep, CreateViewStep, CreateTableStep, FunctionStep, DropViewStep,
     DropTableStep DEF Next

\* The inductive invariant holds in every behaviour.
THEOREM DepInvHolds == Spec => []DepInv
<1>1. Init => DepInv
  BY DEF Init, DepInv, TypeOK, IndexesAgree, Gathered, ViewsRecorded, CallsRecorded, Exclusive
<1>2. DepInv /\ [Next]_vars => DepInv'
  BY StepKeepsDepInv
<1>. QED
  BY <1>1, <1>2, PTL DEF Spec

\* The two sides of each dependency index are always in sync, whatever CREATEs and
\* DROPs of however many processes store and discard, for all views and tables and for
\* all functions that have not the name of a table.
THEOREM IndexesInSync == Spec => []IndexesAgree
<1>1. DepInv => IndexesAgree
  BY DEF DepInv
<1>. QED
  BY <1>1, DepInvHolds, PTL

\* No DROP takes away what a stored view uses, or the function noted for a stored
\* constraint, unless it is a function with the name of a table.
THEOREM DependentsKept == Spec => DropKeepsDependents
<1>. DEFINE Kept ==
        /\ \A v \in Views :
              views'[v] = views[v] => (Present \cap views[v].on) \ Clashing \subseteq Present'
        /\ \A t \in Tables, c \in Constraint :
              tables'[t] = tables[t] =>
                  (funcs \cap First(tables[t].calls[c])) \ Clashing \subseteq funcs'
<1>1. DepInv /\ [Next]_vars => [Kept]_vars
  <2>. SUFFICES ASSUME DepInv, Next
                PROVE  Kept
    OBVIOUS
  <2>1. CASE UNCHANGED <<tables, views, funcs>>
    BY <2>1 DEF Present, Tables, Views
  <2>2. ASSUME NEW p \in Proc, CreateView(p) \/ CreateTable(p) \/ CreateFunction(p)
        PROVE  Kept
    <3>1. Present \subseteq Present' /\ funcs \subseteq funcs'
      <4>1. CASE CreateView(p)
        <5>1. stmt[p].name \in View /\ stmt[p].def # NoDef
          BY <4>1, StatementShape, DefAssumption, ZenonT(30) DEF DepInv, CreateView, Exclusive
        <5>. QED
          BY <4>1, <5>1, ZenonT(30) DEF DepInv, TypeOK, CreateView, Name, Present, Tables, Views
      <4>2. CASE CreateTable(p)
        <5>1. stmt[p].name \in Table /\ stmt[p].def # NoDef
          BY <4>2, StatementShape, DefAssumption, Zenon DEF DepInv, CreateTable, Exclusive
        <5>. QED
          BY <4>2, <5>1, Zenon DEF DepInv, TypeOK, CreateTable, Name, Present, Tables, Views
      <4>3. CASE CreateFunction(p)
        BY <4>3, Zenon DEF CreateFunction, Present, Tables, Views
      <4>. QED
        BY <2>2, <4>1, <4>2, <4>3
    <3>. QED
      BY <3>1
  <2>3. ASSUME NEW p \in Proc, DropView(p)
        PROVE  Kept
    <3>1. stmt[p].name \in View
      BY <2>3, StatementShape, ZenonT(30) DEF DepInv, DropView, Exclusive
    <3>2. Present \ {stmt[p].name} \subseteq Present'
      BY <2>3, <3>1, ZenonT(30) DEF DepInv, TypeOK, DropView, Name, Present, Tables, Views
    <3>3. \A v \in Views : stmt[p].name \notin views[v].on \ Clashing
      BY <2>3, Zenon DEF DepInv, ViewsRecorded, DropView, UsedByView, Name, Views
    <3>4. funcs' = funcs
      BY <2>3, Zenon DEF DropView
    <3>. QED
      BY <3>2, <3>3, <3>4
  <2>4. ASSUME NEW p \in Proc, DropTable(p)
        PROVE  Kept
    <3>1. stmt[p].name \in Table
      BY <2>4, StatementShape, Zenon DEF DepInv, DropTable, Exclusive
    <3>2. funcs \ Clashing \subseteq funcs'
      BY <2>4, <3>1, DiscardShape, Zenon DEF DropTable, Name
    <3>3. (Present \ {stmt[p].name}) \ Clashing \subseteq Present'
      BY <2>4, <3>1, <3>2, ZenonT(30) DEF DepInv, TypeOK, DropTable, Name, Present, Tables, Views
    <3>4. \A v \in Views : stmt[p].name \notin views[v].on \ Clashing
      BY <2>4, Zenon DEF DepInv, ViewsRecorded, DropTable, UsedByView, Name, Views
    <3>. QED
      BY <3>2, <3>3, <3>4
  <2>5. ASSUME NEW p \in Proc, DropFunction(p)
        PROVE  Kept
    <3>1. stmt[p].name \in Func
      BY <2>5, StatementShape, Zenon DEF DepInv, DropFunction, Exclusive
    <3>2. Present \ {stmt[p].name} \subseteq Present'
      BY <2>5, Zenon DEF DropFunction, Name, Present, Tables, Views
    <3>3. \A v \in Views : stmt[p].name \notin views[v].on \ Clashing
      BY <2>5, Zenon DEF DepInv, ViewsRecorded, DropFunction, UsedByView, Name, Views
    <3>4. funcs' = funcs \ {stmt[p].name}
      BY <2>5, Zenon DEF DropFunction, Name
    <3>5. \A t \in Tables, c \in Constraint : 
              stmt[p].name \in Clashing \/ stmt[p].name \notin First(tables[t].calls[c])
      <4>1. \A t \in Table, c \in Constraint : <<stmt[p].name, t, c>> \notin usedByTable
        BY <2>5, Zenon DEF DropFunction, UsedByTable, Name
      <4>. QED
        BY <3>1, <4>1, Zenon DEF DepInv, CallsRecorded, Tables
    <3>. QED
      BY <3>2, <3>3, <3>4, <3>5
  <2>6. ASSUME NEW p \in Proc,
               \/ \E v \in View, d \in ViewDefs : ParseCreateView(p, v, d)
               \/ \E t \in Table, d \in TableDefs : ParseCreateTable(p, t, d)
               \/ \E s \in Statement : ParseOther(p, s)
               \/ Timeout(p) \/ Exit(p) \/ Refuse(p)
        PROVE  UNCHANGED <<tables, views, funcs>>
    BY <2>6, Zenon DEF ParseCreateView, ParseCreateTable, ParseOther, Accept, Timeout, Exit, Refuse,
                Fail, dbVars
  <2>. QED
    BY <2>1, <2>2, <2>3, <2>4, <2>5, <2>6, SMTT(30) DEF Next
<1>. QED
  BY <1>1, DepInvHolds, PTL DEF Spec, DropKeepsDependents
=============================================================================
