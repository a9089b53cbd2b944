------------------------- MODULE MCTableDefinition -------------------------
(***************************************************************************)
(* Tables for TableDefinition: columns a, b and c with up to two keywords  *)
(* each, up to two table-level constraints, and keywords of the table.     *)
(***************************************************************************)
EXTENDS TableDefinition

a == <<"a">>
b == <<"b">>
c == <<"c">>
u == <<"u">>
p == <<"p">>

Upto(pool, n) == UNION {[1..k -> pool] : k \in 0..n}
Statement(elements, tail, default) == [elements |-> elements, tail |-> tail, default |-> default]
Table(kws) == Column(NoName, FALSE, <<kws>>)

\* Constraints of columns and tables.
Conditions == {Check(NoName, "1", {}, TRUE), Check(NoName, "a", {a}, TRUE), Check(NoName, "ab", {a, b}, TRUE)}
OnColumn == {Kw("NOT_NULL"), Unique(NoName, <<>>), Unique(u, <<>>), PrimaryKey(NoName, <<>>)} \cup Conditions
OnOther == {Unique(NoName, <<>>), PrimaryKey(p, <<>>), Check(u, "a", {a}, TRUE), Check(NoName, "b", {b}, TRUE),
            Kw("IDENTITY"), Delim(TRUE)}
OnTable == {Unique(NoName, <<a>>), Unique(u, <<a, b>>), Unique(NoName, <<b, a>>), PrimaryKey(NoName, <<a>>),
            PrimaryKey(NoName, <<b, a>>), Check(NoName, "a", {a}, TRUE), Check(NoName, "c", {c}, TRUE)}
TableLists == Upto(OnTable, 1) \cup {<<Unique(NoName, <<a, b>>), Unique(u, <<a, b>>)>>, <<Unique(u, <<b, a>>), PrimaryKey(NoName, <<b, a>>)>>}
Constrained ==
  {Statement(<<Column(a, TRUE, ka), Column(b, FALSE, kb)>> \o [i \in DOMAIN kt |-> Table(kt[i])], <<>>, "READWRITE") :
     ka \in Upto(OnColumn, 2), kb \in Upto(OnOther, 1), kt \in TableLists}

\* Where the columns are kept.
Storage == {Piece(1), Piece(2), Delim(TRUE), Delim(FALSE), Global(<<Keys(a)>>), Start(<<Keys(a)>>), KeyNum(0), KeyNum(1),
            ExtractCall(<<a>>, TRUE), ExtractText(<<Keys(a)>>)}
Tails == {<<>>, <<Kw("READONLY")>>, <<Kw("READWRITE")>>, <<Global(<<>>)>>, <<Global(<<Keys(a)>>)>>,
          <<Global(<<Keys(a), Other>>), Kw("READWRITE"), Kw("READONLY")>>, <<Global(<<Keys(a), Keys(b)>>), Kw("READWRITE")>>}
Stored ==
  {Statement(<<Column(a, TRUE, ka), Column(b, FALSE, kb), Column(c, FALSE, kc)>>, tail, default) :
     ka \in {<<>>, <<KeyNum(0)>>, <<PrimaryKey(NoName, <<>>)>>, <<KeyNum(1), PrimaryKey(p, <<>>)>>},
     kb \in Upto(Storage, 1), kc \in Upto({Piece(1), Piece(2), Delim(TRUE), KeyNum(1), ExtractCall(<<b, b>>, TRUE)}, 1),
     tail \in Tails, default \in {"READONLY", "READWRITE"}}

MCStatements == Constrained \cup Stored
MCOtherKeys == {<<"p">>, TableName \o <<"_", "p">>}
==============================================================================
