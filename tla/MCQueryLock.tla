---------------------------- MODULE MCQueryLock -----------------------------
(* QueryLock for TLC: two rocto processes, which do all that an octo process *)
(* does, and Execute messages and cancel requests besides.                   *)
EXTENDS QueryLock, TLC

CONSTANTS r1, r2
=============================================================================
