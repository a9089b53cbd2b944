--------------------------- MODULE MCDependencies ---------------------------
(* A table with an EXTRACT column that calls a function and a CHECK constraint that *)
(* calls one with the table's own name; views over the table and the first function, *)
(* or over a view with that function in the ON condition of a join.                  *)
EXTENDS Dependencies, TLC

CONSTANTS p1, p2, t1, v1, v2, k1, f1

MCNameOf == 1 :> f1 @@ 2 :> t1
MCViewDefs == {[on |-> {t1, 1}, joins |-> {}], [on |-> {v1}, joins |-> {1}]}
MCTableDefs == {[calls |-> 1 :> {2} @@ 2 :> {1}, pkey |-> k1]}

\* Bound: the nodes that the processes hold in their lvns between them.  A view left
\* behind with one definition and parsed again with the other has three, two processes
\* that create views over the table have four.
LvnMax == 4
Lvns == {l \in Proc \X View \X Object : <<l[2], l[3]>> \in lvnView[l[1]]}
LvnBound == Cardinality(Lvns) <= LvnMax

Symm == Permutations({p1, p2})
=============================================================================
