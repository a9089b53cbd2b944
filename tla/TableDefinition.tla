--------------------------- MODULE TableDefinition ---------------------------
(***************************************************************************)
(* CREATE TABLE, from the parsed elements to the table that is stored:     *)
(* parser/table_definition.c and its helpers, and the text definition      *)
(* (emit_create_table.c) from which an upgrade creates the table again.    *)
(*                                                                         *)
(* A table is a list of columns.  A table-level constraint is a column     *)
(* without a name.  Both kinds carry a list of keywords, which the passes  *)
(* move between columns, merge, name and complete while they walk over     *)
(* them.  Names are sequences of letters, as truncation tells them apart.  *)
(*                                                                         *)
(* Bounds: MaxIdent and MaxKeyCount stand for OCTO_MAX_IDENT (63) and      *)
(* MAX_KEY_COUNT (256); MaxSuffix bounds the number a generated name may   *)
(* end in.                                                                 *)
(***************************************************************************)
EXTENDS Integers, Sequences, FiniteSets, SequencesExt

CONSTANTS
  Statements,   \* the CREATE TABLE statements that may be issued
  OtherKeys,    \* the names of the primary keys of other tables
  MaxIdent, MaxKeyCount, MaxSuffix

VARIABLES
  declared,     \* the statement
  columns,      \* table->columns
  local,        \* what the passes hand on to one another
  at,           \* the column and the keyword a pass is at
  pc,           \* the pass; "made", "failed" (an error was reported), "loops"
  made          \* the definitions made so far: the first from the statement,
                \* the second from the text of the first

vars == <<declared, columns, local, at, pc, made>>

NoName == <<>>
None == <<>>
TableName == <<"t", "t", "t">>
HIDDEN_KEY_COL_NAME == <<"%">>

\* Keywords.  The fields other than k and id are the ones that kind has.
Kw(k) == [k |-> k, id |-> None]
KeyNum(n) == [k |-> "KEY_NUM", id |-> None, n |-> n]
Piece(n) == [k |-> "PIECE", id |-> None, n |-> n]
Delim(empty) == [k |-> "DELIM", id |-> None, empty |-> empty]
Constraint(k, name, def) == [k |-> k, id |-> None, name |-> name, def |-> def]
PrimaryKey(name, def) == Constraint("PRIMARY_KEY", name, def)
Unique(name, def) == Constraint("UNIQUE", name, def)
\* uses: the columns the condition names; ok: it passes type inference.
Check(name, def, uses, ok) ==
  [k |-> "CHECK", id |-> None, name |-> name, def |-> def, uses |-> uses, ok |-> ok, check_columns |-> {}]
\* EXTRACT of a SQL function of columns, and of M code that names columns.
ExtractCall(args, ok) == [k |-> "EXTRACT", id |-> None, sql |-> TRUE, args |-> args, ok |-> ok]
ExtractText(refs) == [k |-> "EXTRACT", id |-> None, sql |-> FALSE, refs |-> refs]
\* Text that may name columns: the subscripts of a GLOBAL or START.  A START stands for
\* END, STARTINCLUDE and ENDPOINT too, which are treated alike.
Keys(c) == [f |-> "keys", c |-> c]
Values(c) == [f |-> "values", c |-> c]
Other == [f |-> "other", c |-> NoName]
Global(refs) == [k |-> "GLOBAL", id |-> None, refs |-> refs]
Start(refs) == [k |-> "START", id |-> None, refs |-> refs]

\* integer: the column is of type INTEGER.
Column(name, integer, kws) == [name |-> name, integer |-> integer, kws |-> kws, id |-> None, hidden |-> FALSE, number |-> 0]

-----------------------------------------------------------------------------
(* The grammar.  A DELIM "" is not joined with the keywords after it.      *)

column_definition_tail(kws) ==
  LET cut == SelectInSeq(kws, LAMBDA w : w.k = "DELIM" /\ w.empty)
  IN IF cut # 0 THEN SubSeq(kws, 1, cut) ELSE Append(kws, Kw("NO_KEYWORD"))

table_element_list(elements) ==
  [i \in DOMAIN elements |->
     LET e == elements[i]
         kws == IF e.name = NoName THEN e.kws ELSE column_definition_tail(e.kws)
     IN [e EXCEPT !.id = <<i>>, !.kws = [j \in DOMAIN kws |-> [kws[j] EXCEPT !.id = <<i, j>>]]]]

-----------------------------------------------------------------------------
(* Helpers.                                                                *)

find_column(name, cols) == SelectInSeq(cols, LAMBDA c : c.name # NoName /\ c.name = name)
KeywordIndex(c, k) == SelectInSeq(c.kws, LAMBDA w : w.k = k)
Has(c, k) == KeywordIndex(c, k) # 0
get_keyword(c, k) == c.kws[KeywordIndex(c, k)]
IS_KEY_COLUMN(c) == Has(c, "KEY_NUM")
AddKeyword(c, w) == [c EXCEPT !.kws = Append(@, w)]
DropKeyword(c, j) == [c EXCEPT !.kws = RemoveAt(@, j)]
DropKind(c, k) == IF Has(c, k) THEN DropKeyword(c, KeywordIndex(c, k)) ELSE c

\* The key columns by number, or the error (-2) the code reports.
get_key_columns(cols) ==
  LET keyed == {i \in DOMAIN cols : cols[i].name # NoName /\ IS_KEY_COLUMN(cols[i])}
      Num(i) == get_keyword(cols[i], "KEY_NUM").n
      nums == {Num(i) : i \in keyed}
  IN [error |-> \/ \E n \in nums : n \notin 0..(MaxKeyCount - 1)
                \/ Cardinality(nums) # Cardinality(keyed)
                \/ nums # 0..(Cardinality(nums) - 1),
      max   |-> Cardinality(nums) - 1,
      col   |-> [n \in nums |-> CHOOSE i \in keyed : Num(i) = n]]

\* The text names columns of the table; keys() names key columns in their order, all of them.
validate_global_keyword(refs, cols, max_key) ==
  LET keyed == SelectSeq(refs, LAMBDA r : r.f = "keys")
  IN refs = <<>> \/ /\ \A r \in Range(refs) : r.f # "values"
                    /\ Len(keyed) = max_key + 1
                    /\ \A n \in DOMAIN keyed : LET i == find_column(keyed[n].c, cols) IN
                         i # 0 /\ IS_KEY_COLUMN(cols[i]) /\ get_keyword(cols[i], "KEY_NUM").n = n - 1

validate_start_end_keyword(refs, cols) ==
  \A r \in Range(refs) : \/ r.f = "other"
                         \/ /\ r.f = "keys"
                            /\ find_column(r.c, cols) # 0
                            /\ IS_KEY_COLUMN(cols[find_column(r.c, cols)])

\* The columns M code in an EXTRACT names.
validate_extract(refs, cols) ==
  \A r \in Range(refs) : r.f = "other" \/ LET i == find_column(r.c, cols) IN i # 0 /\ (IS_KEY_COLUMN(cols[i]) <=> r.f = "keys")

-----------------------------------------------------------------------------
(* Generated constraint names.                                             *)

Digits(n) == IF n = 0 THEN <<>> ELSE <<ToString(n)>>
Prefix(s, n) == SubSeq(s, 1, IF n < Len(s) THEN n ELSE Len(s))
JoinNames(names) == FoldLeft(LAMBDA s, n : IF s = <<>> THEN n ELSE s \o <<"_">> \o n, <<>>, names)
NameSuffix(k) == IF k = "CHECK" THEN <<"c">> ELSE IF k = "PRIMARY_KEY" THEN <<"p">> ELSE <<"k">>

constraint_name_auto_generate(w, column_name, num) ==
  LET suffix == NameSuffix(w.k) \o Digits(num)
      col == IF w.k = "CHECK" THEN column_name
             ELSE IF w.k = "PRIMARY_KEY" THEN NoName
             ELSE Prefix(JoinNames(w.def), MaxIdent)
      Name(t, c) == t \o (IF col = NoName THEN <<>> ELSE <<"_">> \o c) \o <<"_">> \o suffix
      avail == MaxIdent - Len(suffix) - 1 - (IF col = NoName THEN 0 ELSE 1)
      column_avail == avail \div 2
      table_avail == avail - column_avail
  IN IF Len(Name(TableName, col)) <= MaxIdent THEN Name(TableName, col)
     ELSE IF col = NoName THEN Name(Prefix(TableName, avail), col)
     ELSE IF Len(TableName) <= table_avail THEN Name(TableName, Prefix(col, avail - Len(TableName)))
     ELSE IF Len(col) <= column_avail THEN Name(Prefix(TableName, avail - Len(col)), col)
     ELSE Name(Prefix(TableName, table_avail), Prefix(col, column_avail))

-----------------------------------------------------------------------------
(* The walk over the keywords of all columns.  The next keyword, and the   *)
(* next column, are noted before the keyword is handled, so columns added  *)
(* while the last column is handled are not reached.                       *)

Cur == columns[at[1]]
Word == Cur.kws[at[2]]
LastKeyword == at[2] = Len(Cur.kws)
LastColumn == at[1] = Len(columns)

Report == /\ pc' = "failed"
          /\ UNCHANGED <<declared, columns, local, at, made>>

\* Go on to the next keyword; gone and colGone: the current one was taken off its list.
Advance(cols, loc, gone, colGone, then) ==
  LET ends == LastKeyword /\ (LastColumn \/ (at[1] = Len(cols) /\ ~colGone))
  IN /\ columns' = cols
     /\ local' = loc
     /\ at' = IF ends THEN <<1, 1>>
              ELSE IF ~LastKeyword THEN <<at[1], at[2] + (IF gone THEN 0 ELSE 1)>>
              ELSE <<at[1] + (IF colGone THEN 0 ELSE 1), 1>>
     /\ pc' = IF ends THEN then ELSE pc
     /\ UNCHANGED <<declared, made>>

Stay(loc, then) == Advance(columns, loc, FALSE, FALSE, then)
Changed(w, loc, then) == Advance([columns EXCEPT ![at[1]].kws[at[2]] = w], loc, FALSE, FALSE, then)

\* Move the current keyword to column i; a table-level constraint leaves with it.
MoveTo(i, w, loc, then) ==
  LET moved == [columns EXCEPT ![i] = AddKeyword(@, w)]
  IN IF Cur.name = NoName
     THEN Advance(RemoveAt(moved, at[1]), loc, TRUE, TRUE, then)
     ELSE Advance([moved EXCEPT ![at[1]] = DropKeyword(@, at[2])], loc, TRUE, FALSE, then)

\* Move the current keyword to a table-level constraint of its own.
MoveOut(w, loc, then) ==
  Advance(Append([columns EXCEPT ![at[1]] = DropKeyword(@, at[2])], [Column(NoName, FALSE, <<w>>) EXCEPT !.id = w.id]),
          loc, TRUE, FALSE, then)

-----------------------------------------------------------------------------
(* First pass: every constraint where it belongs.                          *)

CheckRefused == ~Word.ok \/ \E c \in Word.uses : find_column(c, columns) = 0

ScanCheck ==
  /\ pc = "scan" /\ Word.k = "CHECK"
  /\ LET w == [Word EXCEPT !.check_columns = Word.uses]
         noted == IF Cardinality(Word.uses) = 1 THEN find_column(CHOOSE c \in Word.uses : TRUE, columns) ELSE 0
     IN \/ CheckRefused /\ Report
        \/ /\ ~CheckRefused /\ noted = 0 /\ Cur.name # NoName
           /\ MoveOut(w, local, "keynum")
        \/ /\ ~CheckRefused /\ noted \notin {0, at[1]}
           /\ MoveTo(noted, w, local, "keynum")
        \/ /\ ~CheckRefused /\ (noted = at[1] \/ (noted = 0 /\ Cur.name = NoName))
           /\ Changed(w, local, "keynum")

\* A column list names columns of the table, none of them twice.
ListRefused(def) == \/ \E n \in Range(def) : find_column(n, columns) = 0
                    \/ Cardinality(Range(def)) # Len(def)

ScanUnique ==
  /\ pc = "scan" /\ Word.k \in {"PRIMARY_KEY", "UNIQUE"}
  /\ LET primary == Word.k = "PRIMARY_KEY"
         noted == find_column(Last(Word.def), columns)
         Noting(col, listed) == IF primary THEN [local EXCEPT !.pk = col, !.pkw = Word.id, !.tablePk = @ \/ listed] ELSE local
         refused == \/ primary /\ local.pkw \notin {None, Word.id}
                    \/ ListRefused(Word.def)
         leaves == Len(Word.def) = 1 /\ noted # at[1]
     IN \/ refused /\ Report
        \/ /\ ~refused /\ Word.def = <<>>
           /\ Changed([Word EXCEPT !.def = <<Cur.name>>], Noting(Cur.id, FALSE), "keynum")
        \/ /\ ~refused /\ Word.def # <<>> /\ leaves
           /\ MoveTo(noted, Word, Noting(columns[noted].id, TRUE), "keynum")
        \/ /\ ~refused /\ Word.def # <<>> /\ ~leaves
           /\ Stay(Noting(Cur.id, TRUE), "keynum")

ScanOther ==
  /\ pc = "scan" /\ Word.k \notin {"CHECK", "PRIMARY_KEY", "UNIQUE"}
  /\ Stay([local EXCEPT !.keyNum = @ \/ Word.k = "KEY_NUM"], "keynum")

-----------------------------------------------------------------------------
(* KEY NUM columns make up the primary key.                                *)

ColumnOf(id, cols) == SelectInSeq(cols, LAMBDA c : c.id = id)

\* The primary key becomes a table-level constraint of all key columns.
JoinKeys(cols, keys) ==
  LET first == cols[keys.col[0]]
      names == [n \in 1..(keys.max + 1) |-> cols[keys.col[n - 1]].name]
      named == IF Has(first, "PRIMARY_KEY") THEN get_keyword(first, "PRIMARY_KEY").name ELSE NoName
  IN Append([cols EXCEPT ![keys.col[0]] = DropKind(@, "PRIMARY_KEY")],
            [Column(NoName, FALSE, <<[PrimaryKey(named, names) EXCEPT !.id = <<0>>]>>) EXCEPT !.id = <<0>>])

PrimaryKeyFirst_kept(cols, pk) == cols

\* A table-level primary key goes before the other table-level constraints.
PrimaryKeyFirst(cols, pk) ==
  LET i == ColumnOf(pk, cols)
  IN IF pk = None \/ cols[i].name # NoName THEN cols
     ELSE SelectSeq(cols, LAMBDA c : c.name # NoName) \o <<cols[i]>>
          \o SelectSeq(cols, LAMBDA c : c.name = NoName /\ c.id # pk)

ToTrim(cols, pk, asserts) ==
  /\ columns' = PrimaryKeyFirst(cols, pk)
  /\ local' = [local EXCEPT !.pk = pk, !.asserts = @ /\ asserts]
  /\ at' = <<1, 1>>
  /\ pc' = "trim"
  /\ UNCHANGED <<declared, made>>

CombineKeys ==
  /\ pc = "keynum"
  /\ LET p == ColumnOf(local.pk, columns)
         cols == IF local.pk = None \/ IS_KEY_COLUMN(columns[p]) THEN columns
                 ELSE [columns EXCEPT ![p] = AddKeyword(@, KeyNum(0))]
         keys == get_key_columns(cols)
         first == cols[keys.col[0]]
         refused == local.tablePk \/ keys.error
     IN \/ ~local.keyNum /\ ToTrim(columns, local.pk, TRUE)
        \/ local.keyNum /\ refused /\ Report
        \/ /\ local.keyNum /\ ~refused /\ keys.max > 0
           /\ ToTrim(JoinKeys(cols, keys), <<0>>, local.pk = IF Has(first, "PRIMARY_KEY") THEN first.id ELSE None)
        \/ /\ local.keyNum /\ ~refused /\ keys.max = 0 /\ local.pk = None
           /\ ToTrim([cols EXCEPT ![keys.col[0]] = AddKeyword(@, PrimaryKey(NoName, <<first.name>>))], first.id, TRUE)
        \/ local.keyNum /\ ~refused /\ keys.max = 0 /\ local.pk # None /\ ToTrim(cols, local.pk, TRUE)

-----------------------------------------------------------------------------
(* Second pass: a UNIQUE that repeats another UNIQUE or the PRIMARY KEY is *)
(* taken out, its name kept, and the columns of the PRIMARY KEY are        *)
(* numbered.  The first keyword of the column marks the end of the walk:   *)
(* once it has been taken out the walk does not end.                       *)

NumberKeys(cols, def) ==
  [i \in DOMAIN cols |->
     IF cols[i].name \in Range(def) /\ i = find_column(cols[i].name, cols) /\ ~IS_KEY_COLUMN(cols[i])
     THEN AddKeyword(cols[i], KeyNum(SelectInSeq(def, LAMBDA n : n = cols[i].name) - 1)) ELSE cols[i]]

NumbersAgree(cols, def) ==
  \A n \in DOMAIN def : get_keyword(cols[find_column(def[n], cols)], "KEY_NUM").n = n - 1

\* The later table-level UNIQUE constraints on the same list of columns.
Repeats == {i \in at[1] + 1 .. Len(columns) :
              /\ columns[i].name = NoName
              /\ columns[i].kws[1].k = "UNIQUE"
              /\ columns[i].kws[1].def = Word.def}

\* The name a constraint takes over from its repetitions.
TakenName(own, others) ==
  LET named == SelectSeq(others, LAMBDA n : n # NoName)
  IN IF own = NoName /\ named # <<>> THEN Head(named) ELSE own

TrimTable(cols, loc) ==
  LET names == [i \in 1..Len(columns) |-> IF i \in Repeats THEN columns[i].kws[1].name ELSE NoName]
      kept  == [cols EXCEPT ![at[1]].kws[at[2]].name = TakenName(@, names)]
  IN Advance(SelectSeq(kept, LAMBDA c : ~\E i \in Repeats : columns[i].id = c.id), loc, FALSE, FALSE, "name")

TrimPrimaryKey ==
  /\ pc = "trim" /\ Word.k = "PRIMARY_KEY"
  /\ LET cols == NumberKeys(columns, Word.def)
         loc  == [local EXCEPT !.asserts = @ /\ NumbersAgree(cols, Word.def)]
     IN \/ Cur.name # NoName /\ Advance(cols, loc, FALSE, FALSE, "name")
        \/ Cur.name = NoName /\ TrimTable(cols, loc)

TrimUnique ==
  /\ pc = "trim" /\ Word.k = "UNIQUE"
  /\ LET unique_keyword == KeywordIndex(Cur, IF Cur.id = local.pk THEN "PRIMARY_KEY" ELSE "UNIQUE")
         cols == [columns EXCEPT ![at[1]] =
                    DropKeyword([@ EXCEPT !.kws[unique_keyword].name = TakenName(@, <<Word.name>>)], at[2])]
     IN \/ Cur.name = NoName /\ TrimTable(columns, local)
        \/ Cur.name # NoName /\ unique_keyword = at[2] /\ Stay(local, "name")
        \/ /\ Cur.name # NoName /\ unique_keyword # at[2] /\ at[2] # 1
           /\ Advance(cols, local, TRUE, FALSE, "name")
        \/ /\ Cur.name # NoName /\ unique_keyword # at[2] /\ at[2] = 1
           /\ columns' = cols
           /\ local' = [local EXCEPT !.asserts = FALSE]
           /\ pc' = "loops"
           /\ UNCHANGED <<declared, at, made>>

TrimOther == pc = "trim" /\ Word.k \notin {"PRIMARY_KEY", "UNIQUE"} /\ Stay(local, "name")

-----------------------------------------------------------------------------
(* Third pass: every constraint gets a name that no other one has.         *)

Earlier(k) == \E j \in 1..(at[2] - 1) : Cur.kws[j].k = k

NameIdentity ==
  /\ pc = "name" /\ Word.k = "IDENTITY"
  /\ \/ (Earlier("IDENTITY") \/ ~Cur.integer) /\ Report
     \/ ~Earlier("IDENTITY") /\ Cur.integer /\ Stay(local, "keywords")

NameNotNull ==
  /\ pc = "name" /\ Word.k = "NOT_NULL"
  /\ \/ ~Earlier("NOT_NULL") /\ Stay(local, "keywords")
     \/ Earlier("NOT_NULL") /\ Advance([columns EXCEPT ![at[1]] = DropKeyword(@, at[2])], local, TRUE, FALSE, "keywords")

\* The names of the primary keys of all tables; an upgrade finds the table's own among them.
PrimaryKeyNames == OtherKeys \cup IF local.upgrade THEN local.ownKey ELSE {}

NameTaken_table(w, name) == name \in local.names

NameTaken(w, name) == name \in local.names \/ (w.k = "PRIMARY_KEY" /\ name \in PrimaryKeyNames)

AutoName(w) ==
  LET num == CHOOSE n \in 0..MaxSuffix :
               /\ ~NameTaken(w, constraint_name_auto_generate(w, Cur.name, n))
               /\ \A k \in 0..(n - 1) : NameTaken(w, constraint_name_auto_generate(w, Cur.name, k))
  IN constraint_name_auto_generate(w, Cur.name, num)

Named(w) == Changed(w, [local EXCEPT !.names = @ \cup {w.name}], "keywords")

NameConstraint ==
  /\ pc = "name" /\ Word.k \in {"PRIMARY_KEY", "UNIQUE", "CHECK"}
  /\ LET clash == \/ Word.name \in local.names
                  \/ Word.k = "PRIMARY_KEY" /\ ~local.upgrade /\ Word.name \in PrimaryKeyNames
     IN \/ Word.name = NoName /\ Named([Word EXCEPT !.name = AutoName(Word)])
        \/ Word.name # NoName /\ clash /\ Report
        \/ Word.name # NoName /\ ~clash /\ Named(Word)

NameOther == pc = "name" /\ Word.k \notin {"IDENTITY", "NOT_NULL", "PRIMARY_KEY", "UNIQUE", "CHECK"} /\ Stay(local, "keywords")

-----------------------------------------------------------------------------
(* The keywords of the table, and its key columns.                         *)

\* GLOBAL without subscripts only gives the name, and forgets an earlier GLOBAL.
TableKeyword(o, w) ==
  IF w.k = "GLOBAL" THEN [o EXCEPT !.source = w.refs]
  ELSE IF w.k \in {"READONLY", "READWRITE"} THEN [o EXCEPT !.said = w.k, !.type = w.k]
  ELSE o

Visible(cols) == {i \in DOMAIN cols : cols[i].name # NoName}

\* Every visible column that is not computed becomes a key column.
AllKeys(cols) ==
  LET keyed == {i \in Visible(cols) : ~Has(cols[i], "EXTRACT")}
  IN [i \in DOMAIN cols |->
        IF i \in keyed THEN AddKeyword(cols[i], KeyNum(Cardinality({j \in keyed : j < i}))) ELSE cols[i]]

HiddenKey == [Column(HIDDEN_KEY_COL_NAME, TRUE, <<KeyNum(0)>>) EXCEPT !.hidden = TRUE, !.id = <<0, 0>>]

KeyColumns ==
  /\ pc = "keywords"
  /\ LET said == FoldLeft(TableKeyword, local, local.tail)
         keys == get_key_columns(columns)
         loc  == IF keys.max = -1 /\ said.source # <<>> /\ said.said = "" THEN [said EXCEPT !.type = "READONLY"] ELSE said
         refused == Visible(columns) = {} \/ keys.error
         To(cols, l) == /\ columns' = cols
                        /\ local' = l
                        /\ pc' = "pieces"
                        /\ UNCHANGED <<declared, at, made>>
     IN \/ refused /\ Report
        \/ ~refused /\ keys.max # -1 /\ To(columns, loc)
        \/ /\ ~refused /\ keys.max = -1 /\ loc.type = "READWRITE"
           /\ To(<<HiddenKey>> \o columns, [loc EXCEPT !.hidden = TRUE])
        \/ /\ ~refused /\ keys.max = -1 /\ loc.type = "READONLY"
           /\ LET all == get_key_columns(AllKeys(columns))
              IN IF all.error \/ all.max = -1 THEN Report ELSE To(AllKeys(columns), loc)

-----------------------------------------------------------------------------
(* Computed columns.  A walk over the arguments of a SQL function marks    *)
(* the arguments that are computed columns with the number of the walk;    *)
(* an argument met again in the same walk is reported as circular.         *)

RECURSIVE qualify_extract_function(_, _, _)
qualify_extract_function(cols, i, st) ==
  LET w == get_keyword(cols[i], "EXTRACT")
      Argument(s, n) ==
        LET d == find_column(w.args[n], cols)
        IN IF s.failed \/ d = 0 THEN [s EXCEPT !.failed = TRUE]
           ELSE IF ~Has(cols[d], "EXTRACT") THEN s
           ELSE IF s.mark[<<i, n>>] = s.cycle THEN [s EXCEPT !.failed = TRUE, !.circular = TRUE]
           ELSE qualify_extract_function(cols, d,
                  [s EXCEPT !.mark[<<i, n>>] = s.cycle, !.asserts = @ /\ s.mark[<<i, n>>] = 0])
  IN IF ~w.sql THEN st
     ELSE IF ~w.ok THEN [st EXCEPT !.failed = TRUE]
     ELSE FoldLeft(Argument, st, [n \in DOMAIN w.args |-> n])

Computed(cols) == SelectSeq([i \in DOMAIN cols |-> i], LAMBDA i : Has(cols[i], "EXTRACT"))

CheckExtracts(cols) ==
  LET args == {<<i, n>> \in (DOMAIN cols) \X (1..3) :
                 Has(cols[i], "EXTRACT") /\ get_keyword(cols[i], "EXTRACT").sql /\ n \in DOMAIN get_keyword(cols[i], "EXTRACT").args}
      OneColumn(s, i) ==
        LET w == get_keyword(cols[i], "EXTRACT")
        IN IF s.failed THEN s
           ELSE IF w.sql THEN qualify_extract_function(cols, i, [s EXCEPT !.cycle = @ + 1])
           ELSE [s EXCEPT !.failed = ~validate_extract(w.refs, cols)]
  IN FoldLeft(OneColumn, [mark |-> [a \in args |-> 0], cycle |-> 0, failed |-> FALSE, circular |-> FALSE, asserts |-> TRUE],
              Computed(cols))

-----------------------------------------------------------------------------
(* The pieces of the node that hold the columns.                           *)

IsData(c) == c.name # NoName /\ ~IS_KEY_COLUMN(c)
FirstEmpty(c) == Has(c, "DELIM") /\ get_keyword(c, "DELIM").empty

\* Columns without a PIECE are counted whether or not they take one.
DefaultPiece(cols, i) == 1 + Cardinality({j \in 1..(i - 1) : IsData(cols[j]) /\ ~Has(cols[j], "PIECE")})

WithPiece(cols, i) ==
  LET c == cols[i]
      whole == FirstEmpty(c) \/ Has(c, "EXTRACT")
  IN IF c.name = NoName THEN c
     ELSE IF ~IsData(c) \/ whole THEN DropKind(c, "PIECE")
     ELSE IF Has(c, "PIECE") THEN c ELSE AddKeyword(c, Piece(DefaultPiece(cols, i)))

Numbered(cols) ==
  [i \in DOMAIN cols |->
     [WithPiece(cols, i) EXCEPT !.number =
        IF cols[i].name = NoName THEN 0 ELSE Cardinality({j \in 1..i : cols[j].name # NoName /\ ~cols[j].hidden})]]

AssignPieces ==
  /\ pc = "pieces"
  /\ LET x == CheckExtracts(columns)
     IN /\ columns' = Numbered(columns)
        /\ local' = [local EXCEPT !.asserts = @ /\ x.asserts, !.circular = x.circular]
        /\ pc' = IF x.failed THEN "failed" ELSE "finish"
        /\ UNCHANGED <<declared, at, made>>

-----------------------------------------------------------------------------
(* Whether the table can be READWRITE or READONLY, and what is stored.     *)

LastOf(c, k) == c.kws[SelectLastInSeq(c.kws, LAMBDA w : w.k = k)]
DataColumns(cols) == SelectSeq(cols, IsData)
Rank(cols, i) == Cardinality({j \in 1..i : IsData(cols[j])})
LastEmpty(c) == Has(c, "DELIM") /\ LastOf(c, "DELIM").empty

KeywordsRefused(cols, max_key) ==
  \/ \E i, j \in Visible(cols) : i # j /\ cols[i].name = cols[j].name
  \/ \E c \in Range(cols) : \E w \in Range(c.kws) :
       \/ w.k = "GLOBAL" /\ ~validate_global_keyword(w.refs, cols, max_key)
       \/ w.k = "START" /\ ~validate_start_end_keyword(w.refs, cols)
       \/ w.k = "EXTRACT" /\ IS_KEY_COLUMN(c)

ReadwriteDisallowed_anypiece(cols) ==
  \/ \E c \in Range(cols) : \E k \in {"GLOBAL", "START", "EXTRACT"} : Has(c, k)
  \/ \E i \in DOMAIN cols : IsData(cols[i]) /\ Has(cols[i], "DELIM") /\ (~LastEmpty(cols[i]) \/ Rank(cols, i) # 1)

\* A DELIM "" is accepted in the first data column, another DELIM nowhere; PIECEs are in order.
ReadwriteDisallowed(cols) ==
  \/ \E c \in Range(cols) : \E k \in {"GLOBAL", "START", "EXTRACT"} : Has(c, k)
  \/ \E i \in DOMAIN cols :
       /\ IsData(cols[i])
       /\ \/ Has(cols[i], "DELIM") /\ (~LastEmpty(cols[i]) \/ Rank(cols, i) # 1)
          \/ Has(cols[i], "PIECE") /\ ~LastEmpty(cols[i]) /\ LastOf(cols[i], "PIECE").n # Rank(cols, i)

ReadonlyDisallowed(cols) == \E c \in Range(cols) : \E k \in {"UNIQUE", "CHECK", "IDENTITY"} : Has(c, k)

\* The last PIECE of a column that ends in DELIM "" goes; a single data column is the whole node.
Settled(cols) ==
  LET only == Len(DataColumns(cols)) = 1
      Cut(c) == IF IsData(c) /\ LastEmpty(c) /\ Has(c, "PIECE")
                THEN DropKeyword(c, SelectLastInSeq(c.kws, LAMBDA w : w.k = "PIECE")) ELSE c
      Whole(c) == IF only /\ IsData(c) /\ ~Has(c, "GLOBAL") /\ (~Has(c, "PIECE") \/ get_keyword(c, "PIECE").n = 1)
                  THEN AddKeyword(DropKind(DropKind(c, "DELIM"), "PIECE"), Delim(TRUE)) ELSE c
  IN [i \in DOMAIN cols |-> Whole(Cut(cols[i]))]

\* The subscripts generate_key_name makes up: the key columns in their order.
KeySubscripts(cols) == LET keys == get_key_columns(cols) IN [n \in 1..(keys.max + 1) |-> Keys(cols[keys.col[n - 1]].name)]

\* What was neither said nor ruled out is decided by the configured default, in an upgrade for READONLY.
Decided(noWrite, noRead) ==
  IF local.said # "" THEN local.said
  ELSE IF noWrite THEN "READONLY"
  ELSE IF noRead THEN "READWRITE"
  ELSE IF local.upgrade THEN "READONLY" ELSE local.type

TypeRefused(noWrite, noRead) ==
  \/ local.said = "READWRITE" /\ noWrite
  \/ local.said = "READONLY" /\ noRead
  \/ noWrite /\ noRead
  \/ local.said = "" /\ ~local.upgrade /\ ((local.hidden /\ noWrite) \/ (noRead /\ local.type = "READONLY"))

Finish ==
  /\ pc = "finish"
  /\ LET keys    == KeySubscripts(columns)
         noWrite == ReadwriteDisallowed(columns) \/ (local.source # <<>> /\ local.source # keys)
         noRead  == ReadonlyDisallowed(columns)
         refused == \/ KeywordsRefused(columns, Len(keys) - 1)
                    \/ ~validate_global_keyword(local.source, columns, Len(keys) - 1)
                    \/ TypeRefused(noWrite, noRead)
         source  == IF local.source = <<>> THEN keys ELSE local.source
     IN \/ refused /\ Report
        \/ /\ ~refused
           /\ columns' = Settled(columns)
           /\ made' = Append(made, [columns |-> Settled(columns), source |-> source, type |-> Decided(noWrite, noRead)])
           /\ pc' = "made"
           /\ UNCHANGED <<declared, local, at>>

-----------------------------------------------------------------------------
(* The text definition, and the table an upgrade makes from it.            *)

\* A computed column of a SQL function is written as the bytes behind a pointer.
EmitKeyword(w) ==
  CASE w.k \in {"PRIMARY_KEY", "UNIQUE"} -> [w EXCEPT !.def = IF Len(@) = 1 THEN <<>> ELSE @]
    [] w.k = "CHECK"                     -> [w EXCEPT !.check_columns = {}]
    [] w.k = "EXTRACT" /\ w.sql          -> ExtractText(<<Other>>)
    [] OTHER                             -> w

emit_column_specification(c) ==
  LET kws == SelectSeq(c.kws, LAMBDA w : w.k \notin {"KEY_NUM", "NO_KEYWORD"})
  IN Column(c.name, c.integer, [j \in DOMAIN kws |-> EmitKeyword(kws[j])])

emit_create_table_untyped(t) ==
  LET shown == SelectSeq(t.columns, LAMBDA c : ~c.hidden)
  IN [elements |-> [i \in DOMAIN shown |-> emit_column_specification(shown[i])], tail |-> <<Global(t.source)>>]

emit_create_table(t) ==
  LET shown == SelectSeq(t.columns, LAMBDA c : ~c.hidden)
  IN [elements |-> [i \in DOMAIN shown |-> emit_column_specification(shown[i])],
      tail     |-> <<Global(t.source), Kw(t.type)>>]

Begin(statement, upgrade, ownKey) ==
  [pk |-> None, pkw |-> None, keyNum |-> FALSE, tablePk |-> FALSE, names |-> {}, source |-> <<>>, said |-> "",
   type |-> statement.default, hidden |-> FALSE, tail |-> statement.tail, asserts |-> TRUE, circular |-> FALSE,
   upgrade |-> upgrade, ownKey |-> ownKey]

Names(t, k) == {w.name : w \in {x \in UNION {Range(c.kws) : c \in Range(t.columns)} : x.k = k}}

Recreate ==
  /\ pc = "made" /\ Len(made) = 1
  /\ \E default \in {"READONLY", "READWRITE"} :
       LET text == emit_create_table(made[1])
       IN /\ columns' = table_element_list(text.elements)
          /\ local' = Begin([tail |-> text.tail, default |-> default], TRUE, Names(made[1], "PRIMARY_KEY"))
  /\ at' = <<1, 1>>
  /\ pc' = "scan"
  /\ UNCHANGED <<declared, made>>

Init ==
  /\ declared \in Statements
  /\ columns = table_element_list(declared.elements)
  /\ local = Begin(declared, FALSE, {})
  /\ at = <<1, 1>>
  /\ pc = "scan"
  /\ made = <<>>

Next == \/ ScanCheck \/ ScanUnique \/ ScanOther \/ CombineKeys
        \/ TrimPrimaryKey \/ TrimUnique \/ TrimOther
        \/ NameIdentity \/ NameNotNull \/ NameConstraint \/ NameOther
        \/ KeyColumns \/ AssignPieces \/ Finish \/ Recreate

Spec == Init /\ [][Next]_vars

-----------------------------------------------------------------------------
(* Properties.                                                             *)

Parsed == table_element_list(declared.elements)
Words(cols) == UNION {{c} \X Range(c.kws) : c \in Range(cols)}
Of(cols, ks) == {x \in Words(cols) : x[2].k \in ks}
ListOf(x) == IF x[2].def = <<>> THEN <<x[1].name>> ELSE x[2].def
Lists(cols, ks) == {ListOf(x) : x \in Of(cols, ks)}
KeyList(cols) == LET keys == get_key_columns(cols) IN [n \in 1..(keys.max + 1) |-> cols[keys.col[n - 1]].name]
Table1 == made[Len(made)]

\* A column said to be the primary key by itself and a later part of it by its KEY NUM.
KeyContradicts(cols) == \E c \in Range(cols) : Has(c, "PRIMARY_KEY") /\ IS_KEY_COLUMN(c) /\ get_keyword(c, "KEY_NUM").n # 0

KeyLists(cols) == Lists(cols, {"PRIMARY_KEY"}) \cup {<<c.name>> : c \in {d \in Range(cols) : IS_KEY_COLUMN(d)}}
UniqueFirst(c) ==
  \E i \in DOMAIN c.kws :
    /\ c.kws[i].k = "UNIQUE"
    /\ \A j \in 1..(i - 1) : c.kws[j].k = "CHECK" /\ c.kws[j].uses # {c.name}

\* Moving, merging and trimming constraints (the first two walks of table_definition) loses and adds
\* none: a CHECK ends up with the one column it uses, or with the table when it uses none or several;
\* every declared UNIQUE list is still enforced, by one constraint only, and every NOT NULL is still on
\* its column; the key columns are those of the one PRIMARY KEY, in its order.  And the walk that trims
\* the UNIQUE constraints ends, except where the one it takes out marks the end of the walk: UNIQUE as the
\* first keyword that stays with the column that is the primary key (assert of table_definition.c:939).
ConstraintsKept ==
  /\ pc = "loops" => \E c \in Range(Parsed) : UniqueFirst(c) /\ <<c.name>> \in KeyLists(Parsed)
  /\ pc = "made" /\ ~KeyContradicts(Parsed) =>
    LET cols == made[1].columns
    IN /\ \A x \in Of(cols, {"CHECK"}) :
            IF Cardinality(x[2].uses) = 1 THEN {x[1].name} = x[2].uses ELSE x[1].name = NoName
       /\ {x[2].id : x \in Of(cols, {"CHECK"})} = {x[2].id : x \in Of(Parsed, {"CHECK"})}
       /\ Lists(Parsed, {"UNIQUE"}) \subseteq Lists(cols, {"UNIQUE", "PRIMARY_KEY"})
       /\ Lists(cols, {"UNIQUE"}) \subseteq Lists(Parsed, {"UNIQUE"})
       /\ Cardinality(Of(cols, {"UNIQUE", "PRIMARY_KEY"})) = Cardinality(Lists(cols, {"UNIQUE", "PRIMARY_KEY"}))
       /\ {x[1].name : x \in Of(cols, {"NOT_NULL"})} = {x[1].name : x \in Of(Parsed, {"NOT_NULL"})}
       /\ Of(Parsed, {"PRIMARY_KEY", "KEY_NUM"}) # {} => Lists(cols, {"PRIMARY_KEY"}) = {KeyList(cols)}

\* What the text of a table does not say: computed columns of SQL functions, and what follows DELIM "".
TextLoses(cols) ==
  \E c \in Range(cols) :
    \/ Has(c, "EXTRACT") /\ get_keyword(c, "EXTRACT").sql
    \/ LET d == SelectInSeq(c.kws, LAMBDA w : w.k = "DELIM" /\ w.empty)
       IN d # 0 /\ \E j \in (d + 1)..Len(c.kws) : c.kws[j].k \notin {"KEY_NUM", "NO_KEYWORD"}

Meaning(t) ==
  [columns |-> [i \in DOMAIN t.columns |->
                  [name |-> t.columns[i].name, hidden |-> t.columns[i].hidden, number |-> t.columns[i].number,
                   kws |-> {[w EXCEPT !.id = None] : w \in {x \in Range(t.columns[i].kws) : x.k # "NO_KEYWORD"}}]],
   source |-> t.source, type |-> t.type]

\* The text definition of a table (emit_create_table) makes the same table when an upgrade runs it,
\* under any default table type: same columns, keys, pieces, constraints and names, and it is never refused.
RoundTrip ==
  made # <<>> /\ ~TextLoses(made[1].columns) /\ ~KeyContradicts(Parsed) =>
    /\ pc \notin {"failed", "loops"}
    /\ Len(made) = 2 => Meaning(made[2]) = Meaning(made[1])

\* Every constraint of a table has a name, no two have the same one, generated names included, none is
\* longer than an identifier may be, and a primary key is not named like that of another table.
NamesDistinct ==
  pc = "made" =>
    LET named == Of(made[1].columns, {"CHECK", "UNIQUE", "PRIMARY_KEY"})
    IN /\ \A x \in named : x[2].name # NoName /\ Len(x[2].name) <= MaxIdent
       /\ \A x, y \in named : x[2].name = y[2].name => x = y
       /\ Names(made[1], "PRIMARY_KEY") \cap OtherKeys = {}

\* A DELIM "" in the first of several data columns.
FirstIsWhole(cols) == LET data == DataColumns(cols) IN Len(data) > 1 /\ LastEmpty(data[1])

\* A READWRITE table is laid out as INSERT writes it: one node per key, its subscripts the key columns in
\* their order, the data columns its pieces in their order, or the whole node for the only one.
ReadWriteLayout ==
  pc = "made" /\ Table1.type = "READWRITE" /\ ~FirstIsWhole(Table1.columns) =>
    LET cols == Table1.columns
    IN /\ Table1.source = KeySubscripts(cols)
       /\ \A i \in DOMAIN cols : IsData(cols[i]) =>
            \/ Len(DataColumns(cols)) = 1 /\ LastEmpty(cols[i]) /\ ~Has(cols[i], "PIECE")
            \/ Has(cols[i], "PIECE") /\ ~Has(cols[i], "DELIM") /\ LastOf(cols[i], "PIECE").n = Rank(cols, i)
       /\ Of(cols, {"GLOBAL", "START", "EXTRACT"}) = {}
=============================================================================
