---------------------------- MODULE Dependencies ----------------------------
(***************************************************************************)
(* What views and CHECK or EXTRACT constraints depend on, how CREATE       *)
(* records it and how DROP uses it (src/src/run_query.c, view_definition.c,*)
(* qualify_view_dependency.c, store_*_dependencies.c, _ydboctoDiscard.m).  *)
(*                                                                         *)
(* A statement is parsed under the shared DDL lock.  The dependencies it   *)
(* finds go to local variables (lvns) of the process.  It then gives the   *)
(* shared lock up, waits for the exclusive one and, holding that, checks,  *)
(* stores the definition and copies the lvns to globals, in two indexes    *)
(* that mirror each other: by what is used and by who uses it.             *)
(*                                                                         *)
(* IF EXISTS and IF NOT EXISTS only turn an error into a message, so they  *)
(* are not told apart.  Deaths and cancels inside the exclusive section    *)
(* are the subject of PlanCache and QueryLock.                             *)
(***************************************************************************)
EXTENDS Naturals, FiniteSets

CONSTANTS
    Proc,        \* octo and rocto processes
    Table, View, \* names of tables and of views
    Func,        \* functions, numbered in the order of their hashes
    NameOf,      \* the name of each function, which may be that of a table
    Constraint,  \* CHECK constraints and EXTRACT columns, in the order of their names
    Extract,     \* the EXTRACT columns among them
    PKey,        \* names of PRIMARY KEY constraints
    NoDef,       \* no definition, no owner
    ViewDefs,    \* what CREATE VIEW may say
    TableDefs    \* what CREATE TABLE may say

Object == Table \cup View \cup Func

(***************************************************************************)
(* A view is known by the objects that qualify_view_dependency() reaches   *)
(* in its query (on) and by the functions that only its ON conditions call *)
(* (joins).  A table is known by the functions each constraint calls and   *)
(* by the name of its primary key.                                         *)
(***************************************************************************)
ViewType == [on : SUBSET Object, joins : SUBSET Func]
TableType == [calls : [Constraint -> SUBSET Func], pkey : PKey]

\* Tables and views share one name space (a CREATE of either looks for both); functions
\* have their own, and nothing compares their names with those of tables.
ASSUME NameAssumption ==
    /\ Table \cap View = {} /\ Table \cap Func = {} /\ View \cap Func = {}
    /\ Func \subseteq Nat /\ Constraint \subseteq Nat /\ Extract \subseteq Constraint
    /\ NoDef \notin Table
ASSUME DefAssumption ==
    /\ ViewDefs \subseteq ViewType /\ TableDefs \subseteq TableType
    /\ NoDef \notin ViewDefs /\ NoDef \notin TableDefs

Statement ==
    [op : {"create view"}, name : View, def : ViewDefs]
      \cup [op : {"create table"}, name : Table, def : TableDefs]
      \cup [op : {"create function", "drop function"}, name : Func]
      \cup [op : {"drop table"}, name : Table]
      \cup [op : {"drop view"}, name : View]

VARIABLES
    stmt,        \* the statement with which each process waits for the exclusive lock
    lvnView,     \* %ydboctoViewDependency(view,kind,object)
    tables, views, funcs,   \* the stored definitions
    broken,      \* functions of which only some of the nodes of the definition are left
    viewUses,    \* ^%ydboctoocto("viewdependency",view,"tables"|"views"|"functions",object)
    usedByView,  \* ("tableviewdependency",t,v), ("viewdependency",v,"fromview",v), ("functionviewdependency",f,v)
    tableUses,   \* ("tableconstraint"|"extractfunction",table,constraint,function)
    usedByTable, \* ("functions",function,"check_constraint"|"extractfunction",table,constraint)
    pkeyOwner    \* ("primary_key_name",name)=table

indexVars == <<viewUses, usedByView, tableUses, usedByTable, pkeyOwner>>
dbVars == <<tables, views, funcs, broken, indexVars>>
vars == <<stmt, lvnView, dbVars>>

TypeOK ==
    /\ stmt \in [Proc -> Statement \cup {NoDef}]
    /\ lvnView \in [Proc -> SUBSET (View \X Object)]
    /\ tables \in [Table -> TableDefs \cup {NoDef}]
    /\ views \in [View -> ViewDefs \cup {NoDef}]
    /\ funcs \subseteq Func /\ broken \subseteq Func
    /\ viewUses \subseteq View \X Object
    /\ usedByView \subseteq Object \X View
    /\ tableUses \subseteq Table \X Constraint \X Func
    /\ usedByTable \subseteq Func \X Table \X Constraint
    /\ pkeyOwner \in [PKey -> Table \cup {NoDef}]

Init ==
    /\ stmt = [p \in Proc |-> NoDef]
    /\ lvnView = [p \in Proc |-> {}]
    /\ tables = [t \in Table |-> NoDef]
    /\ views = [v \in View |-> NoDef]
    /\ funcs = {} /\ broken = {}
    /\ viewUses = {} /\ usedByView = {} /\ tableUses = {} /\ usedByTable = {}
    /\ pkeyOwner = [k \in PKey |-> NoDef]

-----------------------------------------------------------------------------
(* The parse, under the shared lock, up to the wait for the exclusive lock.  Nobody   *)
(* enters an exclusive section meanwhile, so this is one step.                        *)

Tables == {t \in Table : tables[t] # NoDef}
Views == {v \in View : views[v] # NoDef}
Present == Tables \cup Views \cup funcs

Accept(p, s) ==
    /\ stmt[p] = NoDef
    /\ stmt' = [stmt EXCEPT ![p] = s]
    /\ UNCHANGED dbVars

\* Mutant: the functions of the query are not visited.
BugParseCreateView(p, v, d) ==
    /\ d.on \cup d.joins \subseteq Present
    /\ Accept(p, [op |-> "create view", name |-> v, def |-> d])
    /\ lvnView' = [lvnView EXCEPT ![p] = @ \cup ({v} \X (d.on \ Func))]

\* find_view_or_table() and find_function() must find every name; then
\* qualify_view_dependency() adds to the lvn of the view.
ParseCreateView(p, v, d) ==
    /\ d.on \cup d.joins \subseteq Present
    /\ Accept(p, [op |-> "create view", name |-> v, def |-> d])
    /\ lvnView' = [lvnView EXCEPT ![p] = @ \cup ({v} \X d.on)]

\* The functions must exist and no table may have the primary key's name.  The lvns of
\* table_definition() are those of this statement: it starts by removing older ones.
ParseCreateTable(p, t, d) ==
    /\ \A c \in Constraint : d.calls[c] \subseteq funcs
    /\ pkeyOwner[d.pkey] = NoDef
    /\ Accept(p, [op |-> "create table", name |-> t, def |-> d])
    /\ UNCHANGED lvnView

ParseOther(p, s) ==
    /\ s.op \notin {"create view", "create table"}
    /\ Accept(p, s)
    /\ UNCHANGED lvnView

Return(p) == stmt' = [stmt EXCEPT ![p] = NoDef]

\* An error leaves the lvns as they are.
Fail(p) ==
    /\ Return(p)
    /\ UNCHANGED <<lvnView, dbVars>>

\* TIMEOUT_DDL_EXCLUSIVELOCK.
Timeout(p) == stmt[p] # NoDef /\ Fail(p)

\* The session ends; its process takes the lvn with it.
Exit(p) ==
    /\ Return(p)
    /\ lvnView' = [lvnView EXCEPT ![p] = {}]
    /\ UNCHANGED dbVars

-----------------------------------------------------------------------------
(* The exclusive section: one step, as every other process is outside a parse. *)

Exclusive(p, op) == stmt[p] # NoDef /\ stmt[p].op = op

Name(p) == stmt[p].name

\* store_view_dependencies() copies the lvn nodes of the view, in both directions,
\* and deletes the whole lvn.
StoreViewDependencies(p, v) ==
    LET found == {o \in Object : <<v, o>> \in lvnView[p]}
    IN  /\ viewUses' = viewUses \cup ({v} \X found)
        /\ usedByView' = usedByView \cup (found \X {v})
        /\ lvnView' = [lvnView EXCEPT ![p] = {}]

CreateView(p) ==
    /\ Exclusive(p, "create view")
    /\ views[Name(p)] = NoDef
    /\ views' = [views EXCEPT ![Name(p)] = stmt[p].def]
    /\ StoreViewDependencies(p, Name(p))
    /\ Return(p)
    /\ UNCHANGED <<tables, funcs, broken, tableUses, usedByTable, pkeyOwner>>

\* The lowest member of a set of numbers, if there is one.
First(S) == {f \in S : \A g \in S : f <= g}

\* store_function_dependencies() takes the first function of each constraint.
FirstCalls(d) == {l \in Constraint \X Func : l[2] \in First(d.calls[l[1]])}

CreateTable(p) ==
    LET t == Name(p)
        d == stmt[p].def
    IN  /\ Exclusive(p, "create table")
        /\ tables[t] = NoDef
        /\ tables' = [tables EXCEPT ![t] = d]
        /\ tableUses' = tableUses \cup {<<t, l[1], l[2]>> : l \in FirstCalls(d)}
        /\ usedByTable' = usedByTable \cup {<<l[2], t, l[1]>> : l \in FirstCalls(d)}
        /\ pkeyOwner' = [pkeyOwner EXCEPT ![d.pkey] = t]
        /\ Return(p)
        /\ UNCHANGED <<lvnView, views, funcs, broken, viewUses, usedByView>>

\* $DATA of ^%ydboctoocto("functions",name,hash): any node below it counts.
FunctionData(f) == f \in funcs \cup broken \/ \E u \in usedByTable : u[1] = f

CreateFunction(p) ==
    /\ Exclusive(p, "create function")
    /\ ~FunctionData(Name(p))
    /\ funcs' = funcs \cup {Name(p)}
    /\ Return(p)
    /\ UNCHANGED <<lvnView, tables, views, broken, indexVars>>

UsedByView(o) == \E v \in View : <<o, v>> \in usedByView
UsedByTable(f) == \E u \in usedByTable : u[1] = f

\* discardView(): every node of the view, each with its mirror.
DiscardView(v) ==
    /\ viewUses' = {u \in viewUses : u[1] # v}
    /\ usedByView' = {u \in usedByView : <<v, u[1]>> \notin viewUses \/ u[2] # v}

DropView(p) ==
    /\ Exclusive(p, "drop view")
    /\ views[Name(p)] # NoDef
    /\ ~UsedByView(Name(p))
    /\ views' = [views EXCEPT ![Name(p)] = NoDef]
    /\ DiscardView(Name(p))
    /\ Return(p)
    /\ UNCHANGED <<lvnView, tables, funcs, broken, tableUses, usedByTable, pkeyOwner>>

\* The first turn of the loop of discardTable() over one kind of node.
FirstLink(t, kind) ==
    LET links == {u \in tableUses : u[1] = t /\ u[2] \in kind}
    IN  {u \in links : \A w \in links : u[2] < w[2] \/ (u[2] = w[2] /\ u[3] <= w[3])}

\* The loop continues with $QUERY from the mirror node that it has just killed, and goes
\* on while the second subscript, of a mirror the name of the function, is the name of
\* the table.  So it ends after the first turn, unless the function has the name of the
\* table: then it kills nodes of the functions of that name.
RunsInto(t, gone) ==
    IF \E u \in gone : NameOf[u[3]] = t THEN {f \in Func : NameOf[f] = t} ELSE {}

\* Mutant: the mirror of a killed node stays.
BugDiscardTable(t) ==
    /\ tableUses' = tableUses \ (FirstLink(t, Constraint \ Extract) \cup FirstLink(t, Extract))
    /\ UNCHANGED <<usedByTable, usedByView, funcs, broken>>

\* Which nodes of the functions hit are killed depends on how names collate with each
\* other and with the literals of the catalog: any set of their definitions and of the
\* mirrors of links, which keep their other side.
DiscardTable(t) ==
    LET gone == FirstLink(t, Constraint \ Extract) \cup FirstLink(t, Extract)
        hit == RunsInto(t, gone)
    IN  /\ tableUses' = tableUses \ gone
        /\ \E lost \in SUBSET {u \in usedByTable : u[1] \in hit} :
               usedByTable' = usedByTable \ (lost \cup {<<u[3], u[1], u[2]>> : u \in gone})
        /\ \E lost \in SUBSET {u \in usedByView : u[1] \in hit} : usedByView' = usedByView \ lost
        /\ \E lost \in SUBSET (funcs \cap hit) :
               funcs' = funcs \ lost /\ broken' = broken \cup lost

DropTable(p) ==
    /\ Exclusive(p, "drop table")
    /\ tables[Name(p)] # NoDef
    /\ ~UsedByView(Name(p))
    /\ DiscardTable(Name(p))
    /\ pkeyOwner' = [pkeyOwner EXCEPT ![tables[Name(p)].pkey] = NoDef]
    /\ tables' = [tables EXCEPT ![Name(p)] = NoDef]
    /\ Return(p)
    /\ UNCHANGED <<lvnView, views, viewUses>>

DropFunction(p) ==
    /\ Exclusive(p, "drop function")
    /\ FunctionData(Name(p))
    /\ ~UsedByTable(Name(p))
    /\ ~UsedByView(Name(p))
    /\ funcs' = funcs \ {Name(p)}
    /\ broken' = broken \ {Name(p)}
    /\ Return(p)
    /\ UNCHANGED <<lvnView, tables, views, indexVars>>

\* The checks of the exclusive section that end in an error.
Refuse(p) ==
    /\ \/ Exclusive(p, "create view") /\ views[Name(p)] # NoDef
       \/ Exclusive(p, "create table") /\ tables[Name(p)] # NoDef
       \/ Exclusive(p, "create function") /\ FunctionData(Name(p))
       \/ Exclusive(p, "drop view") /\ (views[Name(p)] = NoDef \/ UsedByView(Name(p)))
       \/ Exclusive(p, "drop table") /\ (tables[Name(p)] = NoDef \/ UsedByView(Name(p)))
       \/ /\ Exclusive(p, "drop function")
          /\ ~FunctionData(Name(p)) \/ UsedByTable(Name(p)) \/ UsedByView(Name(p))
    /\ Fail(p)

Next ==
    \E p \in Proc :
        \/ \E v \in View, d \in ViewDefs : ParseCreateView(p, v, d)
        \/ \E t \in Table, d \in TableDefs : ParseCreateTable(p, t, d)
        \/ \E s \in Statement : ParseOther(p, s)
        \/ Timeout(p) \/ Exit(p)
        \/ CreateView(p) \/ CreateTable(p) \/ CreateFunction(p)
        \/ DropView(p) \/ DropTable(p) \/ DropFunction(p) \/ Refuse(p)

Spec == Init /\ [][Next]_vars

-----------------------------------------------------------------------------
(* What the indexes promise. *)

\* The functions that have the name of a table: a DROP of that table may run into their
\* nodes.  The properties are about the other ones.
Clashing == {f \in Func : NameOf[f] \in Table}

\* The two indexes of view dependencies and the two of constraint dependencies are
\* "maintained in sync" (_ydboctoDiscard.m): each node has its mirror, of all functions
\* whose name is not that of a table.  DROP reads one side and discards along the other.
\* Links that discardTable() leaves behind are left on both sides.
IndexesAgree ==
    /\ \A v \in View, o \in Object \ Clashing : <<v, o>> \in viewUses <=> <<o, v>> \in usedByView
    /\ \A t \in Table, c \in Constraint, f \in Func \ Clashing :
           <<t, c, f>> \in tableUses <=> <<f, t, c>> \in usedByTable

\* No step takes away an object that a stored view was using, nor the function that
\* store_function_dependencies() noted for a constraint of a stored table, functions with
\* the name of a table excepted: the DROP is refused until the view or the table is
\* dropped.  An object dropped between the parse of a CREATE VIEW and its exclusive
\* section was gone before the view was stored, and is not meant.
DropKeepsDependents ==
    [][ /\ \A v \in Views :
              views'[v] = views[v] => (Present \cap views[v].on) \ Clashing \subseteq Present'
        /\ \A t \in Tables, c \in Constraint :
              tables'[t] = tables[t] =>
                  (funcs \cap First(tables[t].calls[c])) \ Clashing \subseteq funcs'
      ]_vars
=============================================================================
