----------------------------- MODULE MCPlanCache -----------------------------
(* An octo and a rocto, two tables, a plan over one and a plan over both. *)
EXTENDS PlanCache, TLC

CONSTANTS p1, p2, t1, t2, q1, q2

MCProc == {p1, p2}
MCTable == {t1, t2}
MCPlan == {q1, q2}
MCUses == (q1 :> {t1}) @@ (q2 :> {t1, t2})
=============================================================================
