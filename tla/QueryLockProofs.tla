--------------------------- MODULE QueryLockProofs ---------------------------
(***************************************************************************)
(* Proofs about QueryLock for any set of processes, any choice of rocto    *)
(* processes, any mix of statements and any bound MaxHold.                 *)
(*                                                                         *)
(* DDLExclusion is not inductive: the lock table has to be tied to the     *)
(* program counters.  LockInv says which process holds which lock where,   *)
(* and that the holder of ("ddl") is alone with the schema.                *)
(***************************************************************************)
EXTENDS QueryLock, TLAPS

\* While a process holds ("ddl"), no other one reads the schema.
HolderAlone ==
    \A p \in Proc : excl = p => \A q \in Proc \ {p} : ~Reading(q)

\* A statement is let in only below the bound, and only a plan or a DROP past its
\* discard routine can have lost its locks.
Bookkeeping ==
    \A p \in Proc :
        /\ pc[p] = "shared_wait" => shared[p] < MaxHold
        /\ cut[p] => leaked[p] = 0
        /\ cut[p] => \/ pc[p] = "tail"
                     \/ pc[p] \in {"parse", "plan"} /\ stmt[p] \in {"plan", "parse"}

LockInv ==
    /\ TypeOK
    /\ LockBalance
    /\ ExclusiveNotLeaked
    /\ HolderAlone
    /\ Bookkeeping

\* The lock invariant holds before the first statement.
LEMMA InitLockInv == Init => LockInv
BY ProcAssumption, HoldAssumption
   DEF Init, LockInv, TypeOK, LockBalance, ExclusiveNotLeaked, HolderAlone,
       Bookkeeping, Reading, Changing, PCs

\* No step a process takes by itself breaks the lock invariant.
LEMMA StepLockInv ==
    ASSUME NEW p \in Proc, LockInv, Step(p)
    PROVE  LockInv'
<1> USE ProcAssumption, HoldAssumption
        DEF LockInv, TypeOK, LockBalance, ExclusiveNotLeaked, HolderAlone,
            Bookkeeping, Reading, Changing, PCs
<1>1. CASE LockShared(p)
  BY <1>1 DEF LockShared, SharedFree, Goto
<1>2. CASE TimeoutShared(p)
  BY <1>2 DEF TimeoutShared, Return, lockVars
<1>3. CASE ParseError(p)
  BY <1>3 DEF ParseError, DecrShared, Return
<1>4. CASE StartPlan(p)
  BY <1>4 DEF StartPlan, Goto, lockVars
<1>5. CASE FinishPlan(p)
  BY <1>5 DEF FinishPlan, DecrShared, Return
<1>6. CASE CancelPlan(p)
  BY <1>6 DEF CancelPlan, DropAllLocks, DecrExcl, Return
<1>7. CASE ParseMessage(p)
  BY <1>7 DEF ParseMessage, DecrShared, Return
<1>8. CASE Truncate(p)
  BY <1>8 DEF Truncate, DecrShared, Return
<1>9. CASE SetShow(p)
  BY <1>9 DEF SetShow, DecrShared, Return
<1>10. CASE CancelSet(p)
  BY <1>10 DEF CancelSet, DropAllLocks, DecrExcl, Return
<1>11. CASE SetShowError(p)
  BY <1>11 DEF SetShowError, DecrExcl, Return
<1>12. CASE ToExclusive(p)
  BY <1>12 DEF ToExclusive, DecrShared, Goto, DDL
<1>13. CASE LockExclusive(p)
  BY <1>13 DEF LockExclusive, ExclFree, Goto
<1>14. CASE TimeoutExclusive(p)
  BY <1>14 DEF TimeoutExclusive, Return, lockVars
<1>15. CASE DDLError(p)
  BY <1>15 DEF DDLError, DecrExcl, Return
<1>16. CASE FinishCreate(p)
  BY <1>16 DEF FinishCreate, DecrExcl, Return
<1>17. CASE StartDiscard(p)
  BY <1>17 DEF StartDiscard, Goto, lockVars
<1>18. CASE FinishDiscard(p)
  BY <1>18 DEF FinishDiscard, Goto, lockVars
<1>19. CASE CancelDiscard(p)
  BY <1>19 DEF CancelDiscard, DropAllLocks, DecrExcl
<1>20. CASE FinishDrop(p)
  BY <1>20 DEF FinishDrop, DecrExcl, Return
<1>21. CASE FinishExecute(p)
  BY <1>21 DEF FinishExecute, Return, lockVars
<1>22. CASE CancelExecute(p)
  BY <1>22 DEF CancelExecute, DropAllLocks, DecrExcl, Return
<1>23. CASE CancelMetadata(p)
  BY <1>23, SMTT(30) DEF CancelMetadata, DropAllLocks, DecrExcl
<1>24. QED
  BY <1>23, <1>1, <1>2, <1>3, <1>4, <1>5, <1>6, <1>7, <1>8, <1>9, <1>10, <1>11, <1>12, <1>13, <1>14, <1>15, <1>16, <1>17, <1>18, <1>19, <1>20, <1>21, <1>22, Zenon DEF Step

\* Neither does a new statement, an Execute message, a signal or the end of a
\* process.
LEMMA NextLockInv == LockInv /\ [Next]_vars => LockInv'
<1> USE ProcAssumption, HoldAssumption, StmtAssumption
        DEF LockInv, TypeOK, LockBalance, ExclusiveNotLeaked, HolderAlone,
            Bookkeeping, Reading, Changing, PCs, AllStmts
<1> SUFFICES ASSUME LockInv, [Next]_vars PROVE LockInv'
  OBVIOUS
<1>1. CASE UNCHANGED vars
  BY <1>1 DEF vars
<1>2. ASSUME NEW p \in Proc, NEW s \in Stmts, Submit(p, s) PROVE LockInv'
  BY <1>2 DEF Submit, lockVars
<1>3. ASSUME NEW p \in Proc, Step(p) PROVE LockInv'
  BY <1>3, StepLockInv
<1>4. ASSUME NEW p \in Proc, Execute(p) PROVE LockInv'
  BY <1>4 DEF Execute, Goto, lockVars
<1>5. ASSUME NEW p \in Proc, Signal(p) PROVE LockInv'
  BY <1>5 DEF Signal, lockVars
<1>6. ASSUME NEW p \in Proc, Exit(p) PROVE LockInv'
  BY <1>6 DEF Exit, DropAllLocks, DecrExcl, Return
<1>7. QED
  BY <1>1, <1>2, <1>3, <1>4, <1>5, <1>6 DEF Next

\* The lock table and the program counters stay in step in every execution.
THEOREM LockInvHolds == Spec => []LockInv
BY InitLockInv, NextLockInv, PTL DEF Spec

\* While a DDL statement executes under its lock, no other process parses, runs
\* a plan under run_query or executes DDL (run_query.c:144-158), however many
\* processes there are.
THEOREM Exclusion == Spec => []DDLExclusion
<1>1. LockInv => DDLExclusion
  BY DEF LockInv, ExclusiveNotLeaked, HolderAlone, DDLExclusion
<1>2. QED
  BY <1>1, LockInvHolds, PTL

\* ("ddl") is never left behind, and ("ddl",pid) only by a failed SET or SHOW.
THEOREM Balance == Spec => []LocksBalanced
<1>1. LockInv => LocksBalanced
  BY DEF LockInv, LocksBalanced
<1>2. QED
  BY <1>1, LockInvHolds, PTL

\* Statements never wait for each other in a circle: with no lock leaked, some
\* waiting process can have the lock it waits for.
THEOREM NoCircularWait == Spec => []NoMutualWait
<1>1. LockInv => NoMutualWait
  BY ProcAssumption
     DEF LockInv, TypeOK, LockBalance, ExclusiveNotLeaked, NoMutualWait,
         SharedFree, ExclFree, Reading, Changing, PCs
<1>2. QED
  BY <1>1, LockInvHolds, PTL

-----------------------------------------------------------------------------
(* run_query implements DDLGuard. *)

\* A step of process p that makes another process neither start nor stop reading
\* or changing the schema, and lets p start only when DDLGuard allows it, is a
\* step of DDLGuard or leaves its variables alone.
LEMMA StepIsGuarded ==
    ASSUME NEW p \in Proc,
           \A q \in Proc \ {p} :
               (Reading(q)' <=> Reading(q)) /\ (Changing(q)' <=> Changing(q)),
           ~(Reading(p) /\ Changing(p)), ~(Reading(p)' /\ Changing(p)'),
           Reading(p) => ~Changing(p)', Changing(p) => ~Reading(p)',
           Reading(p)' /\ ~Reading(p) => \A q \in Proc : ~Changing(q),
           Changing(p)' /\ ~Changing(p)
               => \A q \in Proc : ~Changing(q) /\ ~Reading(q)
    PROVE  [Guard!Next]_(Guard!vars)
<1> DEFINE R == {q \in Proc : Reading(q)}
           W == {q \in Proc : Changing(q)}
<1>1. CASE Reading(p)' /\ ~Reading(p)
  <2>1. W = {} /\ R' = R \cup {p} /\ W' = W
    BY <1>1
  <2>2. QED
    BY <2>1 DEF Guard!Next, Guard!Enter
<1>2. CASE Reading(p) /\ ~Reading(p)'
  <2>1. R' = R \ {p} /\ W' = W
    BY <1>2
  <2>2. QED
    BY <2>1 DEF Guard!Next, Guard!Leave
<1>3. CASE Changing(p)' /\ ~Changing(p) /\ ~Reading(p)
  <2>1. W = {} /\ R = {} /\ R' = R /\ W' = {p}
    BY <1>3
  <2>2. QED
    BY <2>1 DEF Guard!Next, Guard!Begin
<1>4. CASE Changing(p) /\ ~Changing(p)' /\ ~Reading(p)'
  <2>1. R' = R /\ W' = W \ {p}
    BY <1>4
  <2>2. QED
    BY <2>1 DEF Guard!Next, Guard!End
<1>5. CASE (Reading(p)' <=> Reading(p)) /\ (Changing(p)' <=> Changing(p))
  <2>1. R' = R /\ W' = W
    BY <1>5
  <2>2. QED
    BY <2>1 DEF Guard!vars
<1>6. QED
  BY <1>1, <1>2, <1>3, <1>4, <1>5

\* A step that moves only process p along, and not into parsing or DDL, meets the
\* conditions of StepIsGuarded.
LEMMA QuietStep ==
    ASSUME LockInv, NEW p \in Proc, NEW label \in PCs, NEW c \in BOOLEAN,
           pc' = [pc EXCEPT ![p] = label], cut' = [cut EXCEPT ![p] = c],
           ~(pc[p] \in {"ddl", "discard", "tail"} /\ label \in {"parse", "plan"}),
           label \in {"parse", "plan"} => Reading(p),
           label \in {"ddl", "discard", "tail"} /\ ~c => Changing(p)
    PROVE  [Guard!Next]_(Guard!vars)
BY StepIsGuarded, SMTT(30) DEF LockInv, TypeOK, Reading, Changing, PCs

\* Each step of a process is a step of DDLGuard, or invisible to it.
LEMMA StepRefines ==
    ASSUME NEW p \in Proc, LockInv, Step(p)
    PROVE  [Guard!Next]_(Guard!vars)
<1> USE DEF LockInv, TypeOK, PCs
<1>1. CASE LockShared(p)
  <2>1. \A q \in Proc : ~Changing(q)
    BY <1>1, ProcAssumption
       DEF LockShared, SharedFree, ExclusiveNotLeaked, Changing
  <2>2. QED
    BY <1>1, <2>1, StepIsGuarded DEF LockShared, Goto, Reading, Changing
<1>2. CASE LockExclusive(p)
  <2>1. \A q \in Proc : ~Changing(q) /\ ~Reading(q)
    BY <1>2, ProcAssumption
       DEF LockExclusive, ExclFree, ExclusiveNotLeaked, LockBalance, Reading, Changing
  <2>2. QED
    BY <1>2, <2>1, StepIsGuarded DEF LockExclusive, Goto, Reading, Changing
<1>3. CASE pc' = [pc EXCEPT ![p] = "idle"] /\ cut' = [cut EXCEPT ![p] = FALSE]
  BY <1>3, QuietStep, Zenon DEF Reading, Changing
<1>4. CASE StartPlan(p)
  BY <1>4, StepIsGuarded, SMTT(30) DEF StartPlan, Goto, Reading, Changing
<1>5. CASE ToExclusive(p)
  BY <1>5, QuietStep, ZenonT(30) DEF ToExclusive, Goto, Reading, Changing, Bookkeeping
<1>6. CASE StartDiscard(p)
  BY <1>6, QuietStep, Zenon DEF StartDiscard, Goto, Reading, Changing, Bookkeeping
<1>7. CASE FinishDiscard(p)
  BY <1>7, QuietStep, Zenon DEF FinishDiscard, Goto, Reading, Changing, Bookkeeping
<1>8. CASE CancelDiscard(p)
  BY <1>8, QuietStep, Zenon DEF CancelDiscard
<1>9. CASE CancelMetadata(p)
  BY <1>9, StepIsGuarded DEF CancelMetadata, Reading, Changing
<1>10. QED
  BY <1>1, <1>2, <1>3, <1>4, <1>5, <1>6, <1>7, <1>8, <1>9, SMTT(30)
     DEF Step, Return, TimeoutShared, ParseError, FinishPlan, CancelPlan, ParseMessage, Truncate, SetShow, CancelSet, SetShowError, TimeoutExclusive, DDLError, FinishCreate, FinishDrop, FinishExecute, CancelExecute

\* run_query keeps the promise of DDLGuard: readers of the schema or one writer.
THEOREM Refinement == Spec => ImplementsGuard
<1>1. Init => Guard!Init
  BY DEF Init, Guard!Init, Reading, Changing
<1>2. LockInv /\ [Next]_vars => [Guard!Next]_(Guard!vars)
  <2> SUFFICES ASSUME LockInv, [Next]_vars PROVE [Guard!Next]_(Guard!vars)
    OBVIOUS
  <2>1. CASE UNCHANGED vars
    BY <2>1, SMTT(30) DEF vars, Guard!vars, Reading, Changing
  <2>2. ASSUME NEW p \in Proc, NEW s \in Stmts, Submit(p, s)
        PROVE  [Guard!Next]_(Guard!vars)
    BY <2>2, QuietStep, Zenon DEF Submit, LockInv, TypeOK, PCs
  <2>3. ASSUME NEW p \in Proc, Step(p) PROVE [Guard!Next]_(Guard!vars)
    BY <2>3, StepRefines
  <2>4. ASSUME NEW p \in Proc, Execute(p) PROVE [Guard!Next]_(Guard!vars)
    BY <2>4, QuietStep, ZenonT(30) DEF Execute, Goto, LockInv, TypeOK, PCs
  <2>5. ASSUME NEW p \in Proc, Signal(p) PROVE [Guard!Next]_(Guard!vars)
    BY <2>5 DEF Signal, Guard!vars, Reading, Changing
  <2>6. ASSUME NEW p \in Proc, Exit(p) PROVE [Guard!Next]_(Guard!vars)
    BY <2>6, QuietStep, Zenon DEF Exit, Return, PCs
  <2>7. QED
    BY <2>1, <2>2, <2>3, <2>4, <2>5, <2>6 DEF Next
<1>3. QED
  BY <1>1, <1>2, LockInvHolds, PTL DEF Spec, ImplementsGuard, Guard!Spec
=============================================================================
