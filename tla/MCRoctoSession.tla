--------------------------- MODULE MCRoctoSession ----------------------------
(* Three clients of rocto: one that keeps to SELECT, updates, SET and DDL, one *)
(* that suspends results of VALUES, and one that is canceled.                  *)
EXTENDS RoctoSession, TLC

CONSTANTS s1, p1, p2, q1, q2, q3, q4, q5

MCKind == q1 :> "limited" @@ q2 :> "update" @@ q3 :> "set" @@ q4 :> "ddl" @@ q5 :> "rows"
MCClients ==
    {[queries |-> {q1, q2, q3, q4}, limits |-> {0, 1, 2}, cancels |-> FALSE, rows |-> 3],
     [queries |-> {q2, q5}, limits |-> {1}, cancels |-> FALSE, rows |-> 3],
     [queries |-> {q2, q5}, limits |-> {1}, cancels |-> TRUE, rows |-> 2]}
=============================================================================
