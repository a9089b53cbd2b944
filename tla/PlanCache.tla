------------------------------ MODULE PlanCache ------------------------------
(***************************************************************************)
(* Table definitions, the copies of them each process keeps, and the       *)
(* generated M plans that are compiled from them and shared by all         *)
(* processes.                                                              *)
(*                                                                         *)
(* A CREATE TABLE stores the definition under a new OID                    *)
(* (src/src/run_query.c, store_table_or_view_in_pg_class.c).  A query      *)
(* finds the definitions of its tables, in its own cache when the OID is   *)
(* still the one in the database (find_view_or_table.c), and emits a plan  *)
(* file unless a usable one exists (physical/emit_physical_or_xref_plan.c, *)
(* emit_sql_statement.c).  A DROP TABLE erases every plan recorded for the *)
(* table (aux/_ydboctoDiscard.m) and then the definition.  Processes can   *)
(* die between any two steps.                                              *)
(*                                                                         *)
(* The query lock is the one of DDLGuard, which QueryLock implements: any  *)
(* number of queries, or one DDL statement.  A plan that is prepared by a  *)
(* Parse message is run later, by Execute messages (rocto/handle_execute.c)*)
(* that take no lock.  The name of a plan is a hash                        *)
(* over the query and the definitions it uses (for a cross reference plan, *)
(* over the table and column names): a table that is dropped and created   *)
(* again gets the plan names it had before.  OIDs tell the two apart here. *)
(***************************************************************************)
EXTENDS Naturals, FiniteSets

CONSTANTS
    Proc,      \* octo and rocto processes
    Rocto,     \* those that serve a client, which may use the extended protocol
    NoProc,    \* nobody holds the lock on a plan file
    Table,     \* table names
    Plan,      \* plan file names
    NoName,    \* no plan
    Uses,      \* the tables each plan reads
    MaxOid,    \* bound: OIDs handed out
    MaxFault   \* bound: processes that die and cancels that drop locks

ASSUME PlanAssumption ==
    /\ Rocto \subseteq Proc /\ NoProc \notin Proc /\ NoName \notin Plan
    /\ Uses \in [Plan -> SUBSET Table]
    /\ \A q \in Plan : Uses[q] # {}
ASSUME BoundAssumption == MaxOid \in Nat /\ MaxFault \in Nat

VARIABLES
    oid,         \* ^%ydboctoocto("oid")
    rows,        \* OIDs with a row in pg_class
    classOid,    \* ^%ydboctoschema(table,"pg_class"), 0 when undefined
    binary,      \* the OID in the binary definition, 0 when there is none
    cache,       \* the OID in a process's copy of the definition, 0 when none
    file,        \* plan files: the OIDs they were compiled from
    outputKey,   \* ^%ydboctoocto("plan_metadata",plan,"output_key"), the same way
    tableplans,  \* ^%ydboctoocto("tableplans",table,plan)
    fileLock,    \* holder of the lock ^%ydboctoocto("files",plan)
    pc, plan, table, used,  \* per process: place, plan, table, OIDs found or made
    prepared, parsed,  \* the plan of the last Parse of each process, the OIDs it found
    lost,        \* processes whose locks a cancel has dropped
    cancels, crashes  \* how many of each there have been

schemaVars == <<oid, rows, classOid, binary>>
planVars == <<file, outputKey, tableplans>>
envVars == <<prepared, parsed, lost, cancels, crashes>>
vars == <<schemaVars, planVars, cache, fileLock, pc, plan, table, used, envVars>>

\* No table has OID 0: no file, no metadata, nothing found yet.
None == [t \in Table |-> 0]
Oids == [Table -> 0..MaxOid]

QueryPCs == {"find", "check", "wait", "recheck", "emit", "kill", "link", "run"}
DDLPCs == {"unrow", "discard", "unkey", "drop", "row", "class", "binary"}

TypeOK ==
    /\ oid \in 0..MaxOid
    /\ rows \subseteq 1..MaxOid
    /\ classOid \in Oids /\ binary \in Oids
    /\ cache \in [Proc -> Oids]
    /\ file \in [Plan -> Oids] /\ outputKey \in [Plan -> Oids]
    /\ tableplans \in [Table -> SUBSET Plan]
    /\ fileLock \in [Plan -> Proc \cup {NoProc}]
    /\ pc \in [Proc -> QueryPCs \cup DDLPCs \cup {"idle", "execute"}]
    /\ plan \in [Proc -> Plan \cup {NoName}]
    /\ table \in [Proc -> Table \cup {NoName}]
    /\ used \in [Proc -> Oids]
    /\ prepared \in [Proc -> Plan \cup {NoName}] /\ parsed \in [Proc -> Oids]
    /\ lost \subseteq Proc /\ cancels \in 0..MaxFault
    /\ crashes \in 0..MaxFault

Init ==
    /\ oid = 0 /\ rows = {} /\ classOid = None /\ binary = None
    /\ cache = [p \in Proc |-> None]
    /\ file = [q \in Plan |-> None] /\ outputKey = [q \in Plan |-> None]
    /\ tableplans = [t \in Table |-> {}]
    /\ fileLock = [q \in Plan |-> NoProc]
    /\ pc = [p \in Proc |-> "idle"]
    /\ plan = [p \in Proc |-> NoName]
    /\ table = [p \in Proc |-> NoName]
    /\ used = [p \in Proc |-> None]
    /\ prepared = [p \in Proc |-> NoName] /\ parsed = [p \in Proc |-> None]
    /\ lost = {} /\ cancels = 0 /\ crashes = 0

-----------------------------------------------------------------------------

Querying(p) == pc[p] \in QueryPCs /\ p \notin lost
Changing(p) == pc[p] \in DDLPCs /\ p \notin lost

Goto(p, label) == pc' = [pc EXCEPT ![p] = label]

\* run_query returns: p forgets what it worked on.
Return(p) ==
    /\ Goto(p, "idle")
    /\ plan' = [plan EXCEPT ![p] = NoName]
    /\ table' = [table EXCEPT ![p] = NoName]
    /\ used' = [used EXCEPT ![p] = None]
    /\ lost' = lost \ {p}
    /\ UNCHANGED <<cancels, crashes>>

Done(p) == Return(p) /\ UNCHANGED <<prepared, parsed>>

Stay == UNCHANGED <<plan, table, used, envVars>>

\* The copy of the definition is believed whatever the database says.
BugLookup(p, t) == IF cache[p][t] # 0 THEN cache[p][t] ELSE binary[t]

\* find_view_or_table: the copy in memory while its OID is the one in the
\* database, the binary definition otherwise; 0 when there is none.
Lookup(p, t) ==
    IF cache[p][t] # 0 /\ cache[p][t] = classOid[t] THEN cache[p][t] ELSE binary[t]

Remember(p, t, o) == cache' = [cache EXCEPT ![p][t] = o]

-----------------------------------------------------------------------------
(* A query. *)

StartQuery(p, q) ==
    /\ pc[p] = "idle"
    /\ \A r \in Proc : ~Changing(r)
    /\ Goto(p, "find")
    /\ plan' = [plan EXCEPT ![p] = q]
    /\ UNCHANGED <<schemaVars, planVars, cache, fileLock, table, used, envVars>>

FindTable(p, t) ==
    /\ pc[p] = "find"
    /\ t \in Uses[plan[p]] /\ used[p][t] = 0
    /\ Lookup(p, t) # 0
    /\ Remember(p, t, Lookup(p, t))
    /\ used' = [used EXCEPT ![p][t] = Lookup(p, t)]
    /\ UNCHANGED <<schemaVars, planVars, fileLock, pc, plan, table, envVars>>

\* ERR_UNKNOWN_TABLE
UnknownTable(p, t) ==
    /\ pc[p] = "find"
    /\ t \in Uses[plan[p]] /\ used[p][t] = 0
    /\ Lookup(p, t) = 0
    /\ Remember(p, t, 0)
    /\ Done(p)
    /\ UNCHANGED <<schemaVars, planVars, fileLock>>

Parsed(p) ==
    /\ pc[p] = "find"
    /\ \A t \in Uses[plan[p]] : used[p][t] # 0
    /\ Goto(p, "check")
    /\ Stay
    /\ UNCHANGED <<schemaVars, planVars, cache, fileLock>>

\* Only the file is looked for.
BugReusable(q) == file[q] # None

\* access() finds the file and GET_PLAN_METADATA_DB_NODE its output key.
Reusable(q) == file[q] # None /\ outputKey[q] # None

\* The first iteration, before the lock.
CheckPlan(p) ==
    /\ pc[p] = "check"
    /\ Goto(p, IF Reusable(plan[p]) THEN "run" ELSE "wait")
    /\ Stay
    /\ UNCHANGED <<schemaVars, planVars, cache, fileLock>>

LockFile(p) ==
    /\ pc[p] = "wait"
    /\ fileLock[plan[p]] = NoProc
    /\ fileLock' = [fileLock EXCEPT ![plan[p]] = p]
    /\ Goto(p, "recheck")
    /\ Stay
    /\ UNCHANGED <<schemaVars, planVars, cache>>

BugTimeoutFile(p) == FALSE /\ UNCHANGED vars

\* Another process keeps the lock for more than 5 seconds.
TimeoutFile(p) ==
    /\ pc[p] = "wait"
    /\ fileLock[plan[p]] # NoProc
    /\ Done(p)
    /\ UNCHANGED <<schemaVars, planVars, cache, fileLock>>

\* ydb_lock_decr_s; a lock that a cancel has dropped is not p's any more.
Unlock(p) ==
    fileLock' = [q \in Plan |-> IF fileLock[q] = p THEN NoProc ELSE fileLock[q]]

\* The second iteration, under the lock.
RecheckPlan(p) ==
    /\ pc[p] = "recheck"
    /\ IF Reusable(plan[p])
       THEN Goto(p, "run") /\ Unlock(p)
       ELSE Goto(p, "emit") /\ UNCHANGED fileLock
    /\ Stay
    /\ UNCHANGED <<schemaVars, planVars, cache>>

\* No plan can be generated, or its file not written.
EmitError(p) ==
    /\ pc[p] = "emit"
    /\ Unlock(p)
    /\ Done(p)
    /\ UNCHANGED <<schemaVars, planVars, cache>>

\* The plan is written to a temporary file, which is renamed.
EmitFile(p) ==
    /\ pc[p] = "emit"
    /\ file' = [file EXCEPT ![plan[p]] = used[p]]
    /\ Goto(p, "kill")
    /\ Stay
    /\ UNCHANGED <<schemaVars, outputKey, tableplans, cache, fileLock>>

\* KILL ^%ydboctoocto("plan_metadata",plan)
KillMetadata(p) ==
    /\ pc[p] = "kill"
    /\ outputKey' = [outputKey EXCEPT ![plan[p]] = None]
    /\ Goto(p, "link")
    /\ Stay
    /\ UNCHANGED <<schemaVars, file, tableplans, cache, fileLock>>

LinkTable(p, t) ==
    /\ pc[p] = "link"
    /\ t \in Uses[plan[p]] /\ plan[p] \notin tableplans[t]
    /\ tableplans' = [tableplans EXCEPT ![t] = @ \cup {plan[p]}]
    /\ UNCHANGED <<schemaVars, file, outputKey, cache, fileLock, pc>>
    /\ Stay

\* The output key is stored while links to the tables are still missing.
BugStoreOutputKey(p) ==
    /\ pc[p] = "link"
    /\ outputKey' = [outputKey EXCEPT ![plan[p]] = used[p]]
    /\ Unlock(p)
    /\ Goto(p, "run")
    /\ Stay
    /\ UNCHANGED <<schemaVars, file, tableplans, cache>>

\* The output key is stored last; its presence says the rest is in place.
StoreOutputKey(p) ==
    /\ pc[p] = "link"
    /\ \A t \in Uses[plan[p]] : plan[p] \in tableplans[t]
    /\ outputKey' = [outputKey EXCEPT ![plan[p]] = used[p]]
    /\ Unlock(p)
    /\ Goto(p, "run")
    /\ Stay
    /\ UNCHANGED <<schemaVars, file, tableplans, cache>>

\* _ydboctoselect runs the file, the callback reads the output key.
RunPlan(p) ==
    /\ pc[p] = "run"
    /\ Done(p)
    /\ UNCHANGED <<schemaVars, planVars, cache, fileLock>>

\* A Parse keeps the plan before it is there.
BugPrepare(p) ==
    /\ pc[p] = "check" /\ p \in Rocto
    /\ prepared' = [prepared EXCEPT ![p] = plan[p]]
    /\ parsed' = [parsed EXCEPT ![p] = used[p]]
    /\ Return(p)
    /\ UNCHANGED <<schemaVars, planVars, cache, fileLock>>

\* is_extended_query: a Parse keeps the name of the plan and releases the lock.
Prepare(p) ==
    /\ pc[p] = "run" /\ p \in Rocto
    /\ prepared' = [prepared EXCEPT ![p] = plan[p]]
    /\ parsed' = [parsed EXCEPT ![p] = used[p]]
    /\ Return(p)
    /\ UNCHANGED <<schemaVars, planVars, cache, fileLock>>

\* handle_execute calls _ydboctoselect with the plan of the Parse.  It looks neither for
\* the file nor for the definitions.
Execute(p) ==
    /\ pc[p] = "idle" /\ prepared[p] # NoName
    /\ Goto(p, "execute")
    /\ plan' = [plan EXCEPT ![p] = prepared[p]]
    /\ used' = [used EXCEPT ![p] = parsed[p]]
    /\ UNCHANGED <<schemaVars, planVars, cache, fileLock, table, envVars>>

\* The result is complete, or the call has failed.
FinishExecute(p) ==
    /\ pc[p] = "execute"
    /\ Done(p)
    /\ UNCHANGED <<schemaVars, planVars, cache, fileLock>>

\* SIGUSR2 acts in _ydboctoxrefMetadata, called by emit_physical_plan.
CancelEmit(p) ==
    /\ pc[p] = "emit" /\ p \notin lost
    /\ Unlock(p)
    /\ cancels + crashes < MaxFault /\ cancels' = cancels + 1
    /\ lost' = lost \cup {p}
    /\ UNCHANGED <<schemaVars, planVars, cache, pc, plan, table, used, prepared, parsed, crashes>>

-----------------------------------------------------------------------------
(* DROP TABLE. *)

StartDrop(p, t) ==
    /\ pc[p] = "idle"
    /\ \A r \in Proc : ~Querying(r) /\ ~Changing(r)
    /\ Remember(p, t, Lookup(p, t))
    /\ Lookup(p, t) # 0
    /\ Goto(p, "unrow")
    /\ table' = [table EXCEPT ![p] = t]
    /\ UNCHANGED <<schemaVars, planVars, fileLock, plan, used, envVars>>

\* The pg_class row stays.
BugDropRow(p) ==
    /\ pc[p] = "unrow"
    /\ Goto(p, "discard")
    /\ Stay
    /\ UNCHANGED <<schemaVars, planVars, cache, fileLock>>

\* delete_table_or_view_from_pg_class: the node in ^%ydboctoschema stays.
DropRow(p) ==
    /\ pc[p] = "unrow"
    /\ rows' = rows \ {classOid[table[p]]}
    /\ Goto(p, "discard")
    /\ Stay
    /\ UNCHANGED <<oid, classOid, binary, planVars, cache, fileLock>>

\* Plans of table t that the loop in discardTable has not got to.
Undiscarded(t) == {q \in tableplans[t] : file[q] # None \/ outputKey[q] # None}

\* discardPlan: the source and object files go first, ...
DiscardFile(p, q) ==
    /\ pc[p] = "discard"
    /\ q \in Undiscarded(table[p])
    /\ file' = [file EXCEPT ![q] = None]
    /\ plan' = [plan EXCEPT ![p] = q]
    /\ Goto(p, "unkey")
    /\ UNCHANGED <<schemaVars, outputKey, tableplans, cache, fileLock, table, used,
                   envVars>>

\* ... then the metadata.
DiscardKey(p) ==
    /\ pc[p] = "unkey"
    /\ outputKey' = [outputKey EXCEPT ![plan[p]] = None]
    /\ plan' = [plan EXCEPT ![p] = NoName]
    /\ Goto(p, "discard")
    /\ UNCHANGED <<schemaVars, file, tableplans, cache, fileLock, table, used,
                   envVars>>

\* KILL ^%ydboctoocto("tableplans",table)
Unlink(p) ==
    /\ pc[p] = "discard"
    /\ Undiscarded(table[p]) = {}
    /\ tableplans' = [tableplans EXCEPT ![table[p]] = {}]
    /\ Goto(p, "drop")
    /\ Stay
    /\ UNCHANGED <<schemaVars, file, outputKey, cache, fileLock>>

\* SIGUSR2 acts in the discard routine: the rest of it is skipped, the locks are
\* gone, and run_query goes on.
CancelDiscard(p) ==
    /\ pc[p] \in {"discard", "unkey"} /\ p \notin lost
    /\ cancels + crashes < MaxFault /\ cancels' = cancels + 1
    /\ lost' = lost \cup {p}
    /\ plan' = [plan EXCEPT ![p] = NoName]
    /\ Goto(p, "drop")
    /\ UNCHANGED <<schemaVars, planVars, cache, fileLock, table, used, prepared, parsed, crashes>>

\* KILL ^%ydboctoschema(table), drop_schema_from_local_cache
DropTable(p) ==
    /\ pc[p] = "drop"
    /\ classOid' = [classOid EXCEPT ![table[p]] = 0]
    /\ binary' = [binary EXCEPT ![table[p]] = 0]
    /\ Remember(p, table[p], 0)
    /\ Done(p)
    /\ UNCHANGED <<oid, rows, planVars, fileLock>>

-----------------------------------------------------------------------------
(* CREATE TABLE. *)

StartCreate(p, t) ==
    /\ pc[p] = "idle"
    /\ oid < MaxOid
    /\ \A r \in Proc : ~Querying(r) /\ ~Changing(r)
    /\ Remember(p, t, Lookup(p, t))
    /\ Lookup(p, t) = 0
    /\ Goto(p, "row")
    /\ table' = [table EXCEPT ![p] = t]
    /\ UNCHANGED <<schemaVars, planVars, fileLock, plan, used, envVars>>

\* The table exists (CREATE), or does not (DROP).
DDLError(p, t) ==
    /\ pc[p] = "idle"
    /\ \A r \in Proc : ~Querying(r) /\ ~Changing(r)
    /\ Remember(p, t, Lookup(p, t))
    /\ UNCHANGED <<schemaVars, planVars, fileLock, pc, plan, table, used, envVars>>

\* $INCREMENT(^%ydboctoocto("oid")) and the row in pg_class
CreateRow(p) ==
    /\ pc[p] = "row"
    /\ oid' = oid + 1
    /\ rows' = rows \cup {oid + 1}
    /\ used' = [used EXCEPT ![p][table[p]] = oid + 1]
    /\ Goto(p, "class")
    /\ UNCHANGED <<classOid, binary, planVars, cache, fileLock, plan, table, envVars>>

CreateClassOid(p) ==
    /\ pc[p] = "class"
    /\ classOid' = [classOid EXCEPT ![table[p]] = used[p][table[p]]]
    /\ Goto(p, "binary")
    /\ Stay
    /\ UNCHANGED <<oid, rows, binary, planVars, cache, fileLock>>

\* compress_statement, store_table_definition
CreateBinary(p) ==
    /\ pc[p] = "binary"
    /\ binary' = [binary EXCEPT ![table[p]] = used[p][table[p]]]
    /\ Done(p)
    /\ UNCHANGED <<oid, rows, classOid, planVars, cache, fileLock>>

-----------------------------------------------------------------------------

\* The process dies; its locks are released, another one takes its place.
Crash(p) ==
    /\ cancels + crashes < MaxFault
    /\ crashes' = crashes + 1
    /\ Unlock(p)
    /\ cache' = [cache EXCEPT ![p] = None]
    /\ Goto(p, "idle")
    /\ plan' = [plan EXCEPT ![p] = NoName]
    /\ table' = [table EXCEPT ![p] = NoName]
    /\ used' = [used EXCEPT ![p] = None]
    /\ prepared' = [prepared EXCEPT ![p] = NoName]
    /\ parsed' = [parsed EXCEPT ![p] = None]
    /\ lost' = lost \ {p}
    /\ UNCHANGED <<schemaVars, planVars, cancels>>

Step(p) ==
    \/ \E t \in Table : FindTable(p, t) \/ UnknownTable(p, t) \/ LinkTable(p, t)
    \/ Parsed(p) \/ CheckPlan(p) \/ LockFile(p) \/ TimeoutFile(p) \/ RecheckPlan(p)
    \/ EmitError(p) \/ EmitFile(p) \/ KillMetadata(p) \/ StoreOutputKey(p) \/ RunPlan(p)
    \/ Prepare(p) \/ FinishExecute(p) \/ CancelEmit(p)
    \/ DropRow(p) \/ (\E q \in Plan : DiscardFile(p, q)) \/ DiscardKey(p)
    \/ Unlink(p) \/ CancelDiscard(p) \/ DropTable(p)
    \/ CreateRow(p) \/ CreateClassOid(p) \/ CreateBinary(p)

Next ==
    \E p \in Proc :
        \/ Step(p)
        \/ \E q \in Plan : StartQuery(p, q)
        \/ Execute(p)
        \/ \E t \in Table : StartDrop(p, t) \/ StartCreate(p, t) \/ DDLError(p, t)
        \/ Crash(p)

Spec == Init /\ [][Next]_vars

\* Lock waits time out; M routines, file and database operations terminate.
FairSpec == Spec /\ \A p \in Proc : WF_vars(Step(p))

-----------------------------------------------------------------------------
(* Properties. *)

\* A query works with the definitions that are in the database, not with copies
\* made before another process dropped and created the table again
\* (find_view_or_table.c: the OID comparison), until a cancel has dropped the locks
\* of a statement that goes on without them.
DefinitionCurrent ==
    cancels = 0 => \A p \in Proc, t \in Table :
        Querying(p) /\ used[p][t] # 0 => used[p][t] = binary[t]

\* The plan that run_query is about to run, or to prepare, exists and was compiled from
\* the current definition of every table it uses, wherever earlier processes have died: a
\* plan is linked to its tables before its output key makes it reusable
\* (emit_physical_or_xref_plan.c:112-119), and DROP TABLE erases the linked ones.  An
\* Execute has no lock (handle_execute.c:194), so its tables may have been dropped, or
\* dropped and created again, since the Parse or while it runs; then nothing is said of
\* its plan.  While they are the ones the Parse found, the file may be missing (a DROP
\* that died erases it) but is not one compiled from other definitions.  All this until
\* a cancel has dropped the locks of a statement, and of the file: a routine that the
\* process has linked before runs from memory (_ydboctoselect.m:21).
PlanFresh ==
    cancels = 0 => \A p \in Proc :
        /\ Querying(p) /\ pc[p] = "run" =>
              /\ file[plan[p]] # None
              /\ \A t \in Uses[plan[p]] : file[plan[p]][t] = binary[t]
        /\ /\ pc[p] = "execute" /\ file[plan[p]] # None
           /\ \A t \in Uses[plan[p]] : used[p][t] = binary[t]
           => \A t \in Uses[plan[p]] : file[plan[p]][t] = binary[t]

\* Rows of pg_class that no definition refers to.
OrphanRows ==
    {o \in rows : \A t \in Table : classOid[t] # o}
        \ {used[p][table[p]] : p \in {r \in Proc : pc[r] = "class"}}

\* Only crashes leave the nodes and files of the database out of step.  A process
\* that dies in the middle of a CREATE TABLE leaves at most one orphan row.  When
\* none has died, a plan about to run has the output key its result is read by:
\* concurrent queries never reuse a plan that another one is still emitting
\* (emit_physical_or_xref_plan.c:52-54 and the check before the file lock).
OnlyCrashesLeave ==
    cancels = 0 =>
        /\ Cardinality(OrphanRows) <= crashes
        /\ crashes = 0 => \A p \in Proc : Querying(p) /\ pc[p] = "run" => outputKey[plan[p]] # None

\* Every query, every DDL statement and every Execute ends.
StatementEnds ==
    \A p \in Proc : pc[p] # "idle" ~> pc[p] = "idle"
=============================================================================
