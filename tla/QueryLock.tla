----------------------------- MODULE QueryLock ------------------------------
(***************************************************************************)
(* The DDL lock protocol of run_query() (src/src/run_query.c) and of the   *)
(* extended-query Execute (src/src/rocto/handle_execute.c), for any number *)
(* of octo and rocto processes.                                            *)
(*                                                                         *)
(* Every statement takes the M lock ^%ydboctoocto("ddl",pid) before it is  *)
(* parsed.  A statement that changes the schema gives that lock up and     *)
(* takes ^%ydboctoocto("ddl") instead, which YottaDB grants only when no   *)
(* other process holds it or a lock below it.  Both waits end after        *)
(* TIMEOUT_DDL_EXCLUSIVELOCK (10 seconds).  M locks are incremental: a     *)
(* lock taken twice has to be released twice.                              *)
(*                                                                         *)
(* A CancelRequest reaches a rocto process as SIGUSR2.  It acts when M     *)
(* code runs: run^%ydboctoCleanup leaves the M code, sets %ydboctoCancel   *)
(* and executes an argumentless LOCK, which drops every lock of the        *)
(* process.                                                                *)
(***************************************************************************)
EXTENDS Naturals, FiniteSets

CONSTANTS
    Proc,     \* octo and rocto processes
    Rocto,    \* the rocto ones: only they are sent SIGUSR2
    NoProc,   \* nobody holds ^%ydboctoocto("ddl")
    Stmts,    \* the kinds of statement the clients submit
    MaxHold   \* bound: times a process takes its own ("ddl",pid) lock

\* "plan"     SELECT, INSERT, UPDATE, DELETE (simple query, or octo)
\* "parse"    the same in a Parse message of the extended query protocol
\* "set"      SET or SHOW
\* "truncate" TRUNCATE TABLE, \d
\* "create"   CREATE TABLE, VIEW or FUNCTION
\* "drop"     DROP TABLE, VIEW or FUNCTION, DISCARD: a discard M routine runs
AllStmts == {"plan", "parse", "set", "truncate", "create", "drop"}
DDL == {"create", "drop"}

ASSUME ProcAssumption == NoProc \notin Proc /\ Rocto \subseteq Proc
ASSUME StmtAssumption == Stmts \subseteq AllStmts
ASSUME HoldAssumption == MaxHold \in Nat \ {0}

VARIABLES
    pc,        \* where each process is
    stmt,      \* the kind of statement it runs
    shared,    \* how often it holds ("ddl",pid)
    excl,      \* the holder of ("ddl")
    sig,       \* a SIGUSR2 waits for M code to run
    cut,       \* a cancel has dropped the locks of the current statement
    leaked,    \* history: ("ddl",pid) locks that failed SET and SHOW left behind
    prepared   \* the session has a bound portal that runs a plan

lockVars == <<shared, excl, leaked>>
vars == <<pc, stmt, shared, excl, sig, cut, leaked, prepared>>

PCs == {"idle", "shared_wait", "parse", "plan",
        "excl_wait", "ddl", "discard", "tail", "execute"}

TypeOK ==
    /\ pc \in [Proc -> PCs]
    /\ stmt \in [Proc -> AllStmts \cup {"none"}]
    /\ shared \in [Proc -> 0..MaxHold]
    /\ excl \in Proc \cup {NoProc}
    /\ sig \in [Proc -> BOOLEAN]
    /\ cut \in [Proc -> BOOLEAN]
    /\ leaked \in [Proc -> 0..MaxHold]
    /\ prepared \in [Proc -> BOOLEAN]

Init ==
    /\ pc = [p \in Proc |-> "idle"]
    /\ stmt = [p \in Proc |-> "none"]
    /\ shared = [p \in Proc |-> 0]
    /\ excl = NoProc
    /\ sig = [p \in Proc |-> FALSE]
    /\ cut = [p \in Proc |-> FALSE]
    /\ leaked = [p \in Proc |-> 0]
    /\ prepared = [p \in Proc |-> FALSE]

-----------------------------------------------------------------------------
(* YottaDB's lock manager, as ydb_lock_incr_s, ydb_lock_decr_s and LOCK use it. *)

\* ("ddl",p) conflicts with ("ddl") held by another process.
SharedFree(p) == excl \in {NoProc, p}

\* ("ddl") conflicts with ("ddl") and with every ("ddl",q) of another process.
ExclFree(p) ==
    /\ excl \in {NoProc, p}
    /\ \A q \in Proc \ {p} : shared[q] = 0

\* Releasing a lock that is not held is no error.
DecrShared(p) == shared' = [shared EXCEPT ![p] = IF @ = 0 THEN 0 ELSE @ - 1]
DecrExcl(p) == excl' = IF excl = p THEN NoProc ELSE excl

\* The argumentless LOCK of run^%ydboctoCleanup.
DropAllLocks(p) ==
    /\ shared' = [shared EXCEPT ![p] = 0]
    /\ leaked' = [leaked EXCEPT ![p] = 0]
    /\ DecrExcl(p)

Goto(p, label) ==
    /\ pc' = [pc EXCEPT ![p] = label]
    /\ UNCHANGED <<stmt, cut>>

\* run_query returns, with 0, 1 or -1.
Return(p) ==
    /\ pc' = [pc EXCEPT ![p] = "idle"]
    /\ stmt' = [stmt EXCEPT ![p] = "none"]
    /\ cut' = [cut EXCEPT ![p] = FALSE]

-----------------------------------------------------------------------------
(* run_query, up to the end of the parse. *)

Submit(p, s) ==
    /\ pc[p] = "idle"
    /\ shared[p] < MaxHold
    /\ pc' = [pc EXCEPT ![p] = "shared_wait"]
    /\ stmt' = [stmt EXCEPT ![p] = s]
    /\ UNCHANGED <<cut, lockVars, sig, prepared>>

\* The parse starts without the shared lock.
BugLockShared(p) ==
    /\ pc[p] = "shared_wait"
    /\ Goto(p, "parse")
    /\ UNCHANGED <<lockVars, sig, prepared>>

LockShared(p) ==
    /\ pc[p] = "shared_wait"
    /\ SharedFree(p)
    /\ shared' = [shared EXCEPT ![p] = @ + 1]
    /\ Goto(p, "parse")
    /\ UNCHANGED <<excl, leaked, sig, prepared>>

\* The wait for the shared lock ends after 10 seconds: run_query returns 1.
TimeoutShared(p) ==
    /\ pc[p] = "shared_wait"
    /\ ~SharedFree(p)
    /\ Return(p)
    /\ UNCHANGED <<lockVars, sig, prepared>>

\* parse_line, hashing, plan generation or view_definition fails.
ParseError(p) ==
    /\ pc[p] = "parse"
    /\ DecrShared(p)
    /\ Return(p)
    /\ UNCHANGED <<excl, leaked, sig, prepared>>

-----------------------------------------------------------------------------
(* Statements that stay under the shared lock. *)

\* SIGUSR2 acts in _ydboctoxrefMetadata, which emit_physical_plan calls for a plan
\* that uses a cross reference.  The plan is emitted and run without a lock.
CancelMetadata(p) ==
    /\ pc[p] = "parse"
    /\ stmt[p] \in {"plan", "parse"}
    /\ sig[p] /\ ~cut[p]
    /\ sig' = [sig EXCEPT ![p] = FALSE]
    /\ cut' = [cut EXCEPT ![p] = TRUE]
    /\ DropAllLocks(p)
    /\ UNCHANGED <<pc, stmt, prepared>>

StartPlan(p) ==
    /\ pc[p] = "parse"
    /\ stmt[p] = "plan"
    /\ Goto(p, "plan")
    /\ UNCHANGED <<lockVars, sig, prepared>>

\* The plan ends and its result is sent, with or without an error.
FinishPlan(p) ==
    /\ pc[p] = "plan"
    /\ DecrShared(p)
    /\ Return(p)
    /\ UNCHANGED <<excl, leaked, sig, prepared>>

\* SIGUSR2 acts while the plan runs.
CancelPlan(p) ==
    /\ pc[p] = "plan"
    /\ sig[p]
    /\ sig' = [sig EXCEPT ![p] = FALSE]
    /\ DropAllLocks(p)
    /\ Return(p)
    /\ UNCHANGED prepared

\* A Parse message ends here: the plan runs later, in Execute.
ParseMessage(p) ==
    /\ pc[p] = "parse"
    /\ stmt[p] = "parse"
    /\ DecrShared(p)
    /\ prepared' = [prepared EXCEPT ![p] = TRUE]
    /\ Return(p)
    /\ UNCHANGED <<excl, leaked, sig>>

\* TRUNCATE TABLE, \d: no M routine runs.
Truncate(p) ==
    /\ pc[p] = "parse"
    /\ stmt[p] = "truncate"
    /\ DecrShared(p)
    /\ Return(p)
    /\ UNCHANGED <<excl, leaked, sig, prepared>>

SetShow(p) ==
    /\ pc[p] = "parse"
    /\ stmt[p] = "set"
    /\ DecrShared(p)
    /\ Return(p)
    /\ UNCHANGED <<excl, leaked, sig, prepared>>

\* SIGUSR2 acts in _ydboctoxrefupdate: the locks are gone.
CancelSet(p) ==
    /\ pc[p] = "parse"
    /\ stmt[p] = "set"
    /\ sig[p]
    /\ sig' = [sig EXCEPT ![p] = FALSE]
    /\ DropAllLocks(p)
    /\ Return(p)
    /\ UNCHANGED prepared

\* The callback fails (an unknown parameter).  The error path releases ("ddl"),
\* which is not held, and leaves ("ddl",pid) as it is.
SetShowError(p) ==
    /\ pc[p] = "parse"
    /\ stmt[p] = "set"
    /\ DecrExcl(p)
    /\ leaked' = [leaked EXCEPT ![p] = @ + 1]
    /\ Return(p)
    /\ UNCHANGED <<shared, sig, prepared>>

-----------------------------------------------------------------------------
(* Statements that change the schema. *)

\* The shared lock is kept during the wait for the exclusive one.
BugToExclusive(p) ==
    /\ pc[p] = "parse"
    /\ stmt[p] \in DDL
    /\ Goto(p, "excl_wait")
    /\ UNCHANGED <<lockVars, sig, prepared>>

ToExclusive(p) ==
    /\ pc[p] = "parse"
    /\ stmt[p] \in DDL
    /\ DecrShared(p)
    /\ Goto(p, "excl_wait")
    /\ UNCHANGED <<excl, leaked, sig, prepared>>

\* The lock call's timeout is taken for success.
BugLockExclusive(p) ==
    /\ pc[p] = "excl_wait"
    /\ excl' = p
    /\ Goto(p, "ddl")
    /\ UNCHANGED <<shared, leaked, sig, prepared>>

LockExclusive(p) ==
    /\ pc[p] = "excl_wait"
    /\ ExclFree(p)
    /\ excl' = p
    /\ Goto(p, "ddl")
    /\ UNCHANGED <<shared, leaked, sig, prepared>>

\* The wait for ("ddl") never ends by itself.
BugTimeoutExclusive(p) == FALSE /\ UNCHANGED vars

TimeoutExclusive(p) ==
    /\ pc[p] = "excl_wait"
    /\ ~ExclFree(p)
    /\ Return(p)
    /\ UNCHANGED <<lockVars, sig, prepared>>

\* An error return forgets the exclusive lock.
BugDDLError(p) ==
    /\ pc[p] \in {"ddl", "discard", "tail"}
    /\ Return(p)
    /\ UNCHANGED <<lockVars, sig, prepared>>

\* The object exists already, does not exist, is depended on, or the database
\* reports an error: CLEANUP_AND_RETURN_WITH_ERROR or _WITH_SUCCESS.
DDLError(p) ==
    /\ pc[p] \in {"ddl", "discard", "tail"}
    /\ DecrExcl(p)
    /\ Return(p)
    /\ UNCHANGED <<shared, leaked, sig, prepared>>

\* CREATE stores the definition and releases the lock.
FinishCreate(p) ==
    /\ pc[p] = "ddl"
    /\ stmt[p] = "create"
    /\ DecrExcl(p)
    /\ Return(p)
    /\ UNCHANGED <<shared, leaked, sig, prepared>>

\* DROP removes the catalog rows and calls the discard routine.
StartDiscard(p) ==
    /\ pc[p] = "ddl"
    /\ stmt[p] = "drop"
    /\ Goto(p, "discard")
    /\ UNCHANGED <<lockVars, sig, prepared>>

FinishDiscard(p) ==
    /\ pc[p] = "discard"
    /\ Goto(p, "tail")
    /\ UNCHANGED <<lockVars, sig, prepared>>

\* SIGUSR2 acts in the discard routine.  ydb_ci returns YDB_OK, run_query goes on
\* with the DROP, without a lock.
CancelDiscard(p) ==
    /\ pc[p] = "discard"
    /\ sig[p]
    /\ sig' = [sig EXCEPT ![p] = FALSE]
    /\ cut' = [cut EXCEPT ![p] = TRUE]
    /\ DropAllLocks(p)
    /\ pc' = [pc EXCEPT ![p] = "tail"]
    /\ UNCHANGED <<stmt, prepared>>

\* KILL ^%ydboctoschema(name), drop the local copy, release the lock.
FinishDrop(p) ==
    /\ pc[p] = "tail"
    /\ DecrExcl(p)
    /\ Return(p)
    /\ UNCHANGED <<shared, leaked, sig, prepared>>

-----------------------------------------------------------------------------
(* The Execute message: the plan of the bound portal runs, no lock is taken. *)

Execute(p) ==
    /\ pc[p] = "idle"
    /\ prepared[p]
    /\ Goto(p, "execute")
    /\ UNCHANGED <<lockVars, sig, prepared>>

FinishExecute(p) ==
    /\ pc[p] = "execute"
    /\ Return(p)
    /\ UNCHANGED <<lockVars, sig, prepared>>

CancelExecute(p) ==
    /\ pc[p] = "execute"
    /\ sig[p]
    /\ sig' = [sig EXCEPT ![p] = FALSE]
    /\ DropAllLocks(p)
    /\ Return(p)
    /\ UNCHANGED prepared

-----------------------------------------------------------------------------
(* The environment. *)

\* handle_cancel_request in another rocto process sends SIGUSR2.
Signal(p) ==
    /\ p \in Rocto
    /\ ~sig[p]
    /\ sig' = [sig EXCEPT ![p] = TRUE]
    /\ UNCHANGED <<pc, stmt, cut, lockVars, prepared>>

\* The process ends, or is killed, anywhere; YottaDB releases its locks and a new
\* process takes its place.
Exit(p) ==
    /\ DropAllLocks(p)
    /\ Return(p)
    /\ sig' = [sig EXCEPT ![p] = FALSE]
    /\ prepared' = [prepared EXCEPT ![p] = FALSE]

-----------------------------------------------------------------------------

\* What a process does by itself once a statement is submitted.
Step(p) ==
    \/ LockShared(p) \/ TimeoutShared(p) \/ ParseError(p)
    \/ CancelMetadata(p) \/ StartPlan(p) \/ FinishPlan(p) \/ CancelPlan(p)
    \/ ParseMessage(p) \/ Truncate(p)
    \/ SetShow(p) \/ CancelSet(p) \/ SetShowError(p)
    \/ ToExclusive(p) \/ LockExclusive(p) \/ TimeoutExclusive(p)
    \/ DDLError(p) \/ FinishCreate(p)
    \/ StartDiscard(p) \/ FinishDiscard(p) \/ CancelDiscard(p) \/ FinishDrop(p)
    \/ FinishExecute(p) \/ CancelExecute(p)

Next ==
    \E p \in Proc :
        \/ \E s \in Stmts : Submit(p, s)
        \/ Step(p)
        \/ Execute(p)
        \/ Signal(p)
        \/ Exit(p)

Spec == Init /\ [][Next]_vars

\* Lock waits end by the timeout of ydb_lock_incr_s; plans and M routines
\* are assumed to terminate.
FairSpec == Spec /\ \A p \in Proc : WF_vars(Step(p))

-----------------------------------------------------------------------------
(* Properties. *)

\* Relying on the schema to stand still (run_query.c:144-158), its lock not
\* dropped by a cancel.
Reading(p) == pc[p] \in {"parse", "plan"} /\ ~cut[p]

\* Changing the schema, its locks not dropped by a cancel.
Changing(p) == pc[p] \in {"ddl", "discard", "tail"} /\ ~cut[p]

\* While a CREATE, DROP or DISCARD executes, no other process parses a statement
\* or runs the plan of a simple query, and no other one executes DDL: the purpose
\* of the shared and exclusive locks in run_query (run_query.c:144-158).  A
\* statement whose locks a cancel has dropped is not covered.
DDLExclusion ==
    \A p, q \in Proc : p # q /\ Changing(p) => ~Reading(q) /\ ~Changing(q)

\* ("ddl") is held exactly while a DDL statement executes: no error return, no
\* timeout and no cancel leaves it behind for the statements that follow.
ExclusiveNotLeaked ==
    \A p \in Proc : excl = p <=> Changing(p)

\* Apart from the locks that failed SET and SHOW statements keep, a process holds
\* ("ddl",pid) once while it parses or runs a plan, and not at all otherwise: not
\* while it waits for ("ddl"), executes DDL or Execute messages, or is idle.
LockBalance ==
    \A p \in Proc : shared[p] = leaked[p] + (IF Reading(p) THEN 1 ELSE 0)

\* No lock is left behind or released twice, on any error return, timeout or
\* cancel: ("ddl") is held exactly while a DDL statement executes, and ("ddl",pid)
\* exactly while its process parses or runs a plan, but for a failed SET or SHOW.
LocksBalanced == ExclusiveNotLeaked /\ LockBalance

\* Two DDL statements never wait for each other: each gives up its shared lock
\* before it asks for the exclusive one.  When every process waits for a lock, is
\* idle or runs an Execute, and no failed SET has kept a lock, some wait can end
\* before its timeout.
NoMutualWait ==
    LET waiting == {p \in Proc : pc[p] \in {"shared_wait", "excl_wait"}}
    IN  /\ waiting # {}
        /\ \A p \in Proc \ waiting : pc[p] \in {"idle", "execute"}
        /\ \A p \in Proc : leaked[p] = 0
        => \E p \in waiting :
              \/ pc[p] = "shared_wait" /\ SharedFree(p)
              \/ pc[p] = "excl_wait" /\ ExclFree(p)

\* Every statement returns to its client, also when other processes keep a lock
\* for ever: the timeouts of the two lock calls.
StatementReturns ==
    \A p \in Proc : pc[p] # "idle" ~> pc[p] = "idle"

\* run_query implements the readers and writers of DDLGuard.
Guard == INSTANCE DDLGuard WITH
    readers <- {p \in Proc : Reading(p)},
    writers <- {p \in Proc : Changing(p)}

\* The refinement, as a property of QueryLock.
ImplementsGuard == Guard!Spec

=============================================================================
