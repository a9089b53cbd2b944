--------------------------- MODULE PlanCacheProofs ---------------------------
(***************************************************************************)
(* Proofs about PlanCache for any processes, tables and plans and any      *)
(* number of crashes, until a cancel drops the locks of a statement        *)
(* (cancels; run_query.c and QueryLock show what a cancel does): the       *)
(* inductive invariant, the lemmas that the steps of a query, of DDL       *)
(* statements and of the environment preserve it, and the theorems.        *)
(*                                                                         *)
(* PlanFresh is not inductive.  PlanInv adds why it holds: DDL is alone,   *)
(* the holder of a plan's file lock is the only one to write it, an output *)
(* key is never stored before the links, and a file with an output key is  *)
(* compiled from the definitions in the database.                          *)
(*                                                                         *)
(* PreparedInv carries this over to the plans that a Parse keeps for later *)
(* Execute messages, which take no lock: OIDs do not come back.            *)
(*                                                                         *)
(* What deaths leave behind is bounded next to it: RowsInv counts the rows *)
(* of pg_class without a definition, KeysInv says that there is no output  *)
(* key without a file while nobody has died.                               *)
(***************************************************************************)
EXTENDS PlanCache, FiniteSetTheorems, TLAPS

\* Locks: a DDL statement is alone, an emitting process holds the file lock.
Exclusive ==
    /\ lost = {}
    /\ \A p \in Proc : pc[p] \in DDLPCs =>
          \A r \in Proc \ {p} : pc[r] \in {"idle", "execute"}
    /\ \A p \in Proc : pc[p] \in {"recheck", "emit", "kill", "link"}
                           => fileLock[plan[p]] = p

\* What each process works on.
Working ==
    \A p \in Proc :
        /\ pc[p] \in QueryPCs \cup {"unkey"} => plan[p] \in Plan
        /\ pc[p] \in DDLPCs => table[p] \in Table

\* A copy that the OID comparison accepts is the definition in the database.
CacheOk ==
    \A p \in Proc, t \in Table :
        cache[p][t] # 0 /\ cache[p][t] = classOid[t] => cache[p][t] = binary[t]

\* A query starts with nothing found; what it has found is in the database.
FoundOk ==
    \A p \in Proc :
        /\ pc[p] = "idle" => \A t \in Table : used[p][t] = 0
        /\ pc[p] \in QueryPCs =>
              /\ \A t \in Table : used[p][t] # 0 => used[p][t] = binary[t]
              /\ pc[p] # "find" => \A t \in Uses[plan[p]] : used[p][t] # 0

\* A CREATE TABLE works with a fresh OID on a name that has no definition.
CreateOk ==
    \A p \in Proc :
        /\ pc[p] = "row" => oid < MaxOid
        /\ pc[p] \in {"row", "class", "binary"} => binary[table[p]] = 0
        /\ pc[p] \in {"class", "binary"} =>
              /\ used[p][table[p]] = oid
              /\ \A r \in Proc, t \in Table : cache[r][t] < oid

\* OIDs in use have been handed out.
OidsIssued ==
    /\ \A t \in Table : binary[t] <= oid
    /\ \A p \in Proc, t \in Table : cache[p][t] <= oid

\* The plan store: see the comment at the top.
StoreOk ==
    \A q \in Plan :
        /\ file[q] # None => \A t \in Uses[q] : file[q][t] # 0
        /\ outputKey[q] # None => \A t \in Uses[q] : q \in tableplans[t]
        /\ file[q] # None /\ outputKey[q] # None =>
               \A t \in Uses[q] : file[q][t] = binary[t]

\* A plan between its rename and its output key, and a plan being run.
EmitOk ==
    \A p \in Proc :
        /\ pc[p] \in {"kill", "link"} => file[plan[p]] = used[p]
        /\ pc[p] = "run" =>
              /\ file[plan[p]] # None
              /\ \A t \in Uses[plan[p]] : file[plan[p]][t] = binary[t]
        /\ pc[p] = "drop" => tableplans[table[p]] = {}

PlanInv ==
    /\ TypeOK /\ Exclusive /\ Working /\ CacheOk /\ FoundOk
    /\ CreateOk /\ OidsIssued /\ StoreOk /\ EmitOk

\* The invariant holds in an empty database.
LEMMA InitPlanInv == Init => PlanInv
BY PlanAssumption, BoundAssumption
   DEF Init, PlanInv, TypeOK, Exclusive, Working, CacheOk, FoundOk, CreateOk,
       OidsIssued, StoreOk, EmitOk, None, Oids, QueryPCs, DDLPCs

\* None is a map of OIDs.
LEMMA NoneIsOids == None \in Oids /\ \A t \in Table : None[t] = 0
BY BoundAssumption DEF None, Oids

\* Releasing the file locks of p leaves the locks of others alone.
LEMMA UnlockKeeps ==
    ASSUME TypeOK, NEW p \in Proc, Unlock(p)
    PROVE  /\ fileLock' \in [Plan -> Proc \cup {NoProc}]
           /\ \A q \in Plan : fileLock[q] # p => fileLock'[q] = fileLock[q]
BY Zenon DEF TypeOK, Unlock

\* Looking up a table finds the definition in the database.
LEMMA LookupIsCurrent ==
    ASSUME PlanInv, NEW p \in Proc, NEW t \in Table
    PROVE  Lookup(p, t) = binary[t]
BY Zenon DEF PlanInv, CacheOk, Lookup

\* Past the lookup, a query has the current definition of all its tables.
LEMMA AllFound ==
    ASSUME PlanInv, NEW p \in Proc, pc[p] \in QueryPCs \ {"find"}
    PROVE  /\ plan[p] \in Plan /\ used[p] \in Oids /\ used[p] # None
           /\ \A t \in Uses[plan[p]] : used[p][t] = binary[t] /\ used[p][t] # 0
<1>1. TypeOK /\ Working /\ FoundOk
  BY Zenon DEF PlanInv
<1>2. plan[p] \in Plan /\ used[p] \in Oids
  BY <1>1, Zenon DEF TypeOK, Working
<1>3. \A t \in Uses[plan[p]] : t \in Table
  BY <1>2, PlanAssumption, Zenon
<1>4. \A t \in Uses[plan[p]] : used[p][t] = binary[t] /\ used[p][t] # 0
  BY <1>1, <1>3, Zenon DEF FoundOk
<1>5. PICK t \in Uses[plan[p]] : TRUE
  BY <1>2, PlanAssumption, Zenon
<1>6. QED
  BY <1>2, <1>3, <1>4, <1>5, NoneIsOids, Zenon

\* DDL is alone: nobody else is in the middle of a CREATE TABLE or of a DROP TABLE.
LEMMA DDLAlone ==
    ASSUME PlanInv, NEW p \in Proc, pc[p] \in DDLPCs
    PROVE  \A r \in Proc \ {p} : pc[r] \in {"idle", "execute"}
BY Zenon DEF PlanInv, Exclusive

\* A definition that is found is the current one.
LEMMA FindTablePlanInv ==
    ASSUME PlanInv, NEW p \in Proc, NEW t \in Table, FindTable(p, t)
    PROVE  PlanInv'
<1> USE PlanAssumption, BoundAssumption
        DEF PlanInv, Oids, QueryPCs, DDLPCs, schemaVars, planVars, envVars,
            Goto, Done, Return, Stay, Remember
<1>1. Lookup(p, t) = binary[t]
  BY LookupIsCurrent, Zenon
<1>2. TypeOK'
  BY <1>1 DEF FindTable, TypeOK, Working
<1>3. Exclusive' /\ Working'
  BY <1>1, Zenon DEF FindTable, TypeOK, Exclusive, Working
<1>4. CacheOk' /\ CreateOk' /\ OidsIssued'
  <2>1. \A r \in Proc : pc[r] \notin DDLPCs
    BY ZenonT(30) DEF Exclusive, FindTable
  <2> QED
    BY <1>1, <2>1, SMTT(40) DEF FindTable, TypeOK, Working, CacheOk, CreateOk, OidsIssued
<1>5. FoundOk'
  BY <1>1 DEF FindTable, TypeOK, Exclusive, Working, FoundOk
<1>6. StoreOk'
  BY <1>1, SMTT(30) DEF FindTable, TypeOK, Working, StoreOk
<1>7. EmitOk'
  BY <1>1, SMTT(30) DEF FindTable, TypeOK, Exclusive, Working, EmitOk
<1>8. QED
  BY <1>2, <1>3, <1>4, <1>5, <1>6, <1>7, Zenon DEF PlanInv

\* A query on an unknown table ends.
LEMMA UnknownTablePlanInv ==
    ASSUME PlanInv, NEW p \in Proc, NEW t \in Table, UnknownTable(p, t)
    PROVE  PlanInv'
<1> USE PlanAssumption, BoundAssumption
        DEF PlanInv, Oids, QueryPCs, DDLPCs, schemaVars, planVars, envVars,
            Goto, Done, Return, Stay, Remember
<1>1. Lookup(p, t) = binary[t]
  BY LookupIsCurrent, Zenon
<1>2. TypeOK'
  BY <1>1, NoneIsOids, SMTT(30) DEF UnknownTable, TypeOK, Working
<1>3. Exclusive' /\ Working'
  BY <1>1, NoneIsOids, SMTT(30) DEF UnknownTable, TypeOK, Exclusive, Working
<1>4. CacheOk' /\ CreateOk' /\ OidsIssued'
  BY <1>1, NoneIsOids, SMTT(30)
     DEF UnknownTable, TypeOK, Exclusive, Working, CacheOk, CreateOk, OidsIssued
<1>5. FoundOk'
  BY <1>1, NoneIsOids
     DEF UnknownTable, TypeOK, Exclusive, Working, FoundOk
<1>6. StoreOk'
  BY <1>1, NoneIsOids DEF UnknownTable, TypeOK, Working, StoreOk
<1>7. EmitOk'
  BY <1>1, NoneIsOids DEF UnknownTable, TypeOK, Exclusive, Working, EmitOk
<1>8. QED
  BY <1>2, <1>3, <1>4, <1>5, <1>6, <1>7, Zenon DEF PlanInv

\* Linking a plan to a table.
LEMMA LinkTablePlanInv ==
    ASSUME PlanInv, NEW p \in Proc, NEW t \in Table, LinkTable(p, t)
    PROVE  PlanInv'
<1> USE PlanAssumption, BoundAssumption
        DEF PlanInv, Oids, QueryPCs, DDLPCs, schemaVars, planVars, envVars,
            Goto, Done, Return, Stay, Remember
<1>1. TypeOK'
  BY DEF LinkTable, TypeOK, Working
<1>2. Exclusive' /\ Working'
  BY Zenon DEF LinkTable, TypeOK, Exclusive, Working
<1>3. CacheOk' /\ CreateOk' /\ OidsIssued'
  BY DEF LinkTable, TypeOK, Exclusive, Working, CacheOk, CreateOk, OidsIssued
<1>4. FoundOk'
  BY DEF LinkTable, TypeOK, Exclusive, Working, FoundOk
<1>5. StoreOk'
  BY DEF LinkTable, TypeOK, Working, StoreOk
<1>6. EmitOk'
  BY ZenonT(30) DEF LinkTable, TypeOK, Exclusive, Working, EmitOk
<1>7. QED
  BY <1>1, <1>2, <1>3, <1>4, <1>5, <1>6, SMTT(30) DEF PlanInv

\* All tables of the query are found.
LEMMA ParsedPlanInv ==
    ASSUME PlanInv, NEW p \in Proc, Parsed(p)
    PROVE  PlanInv'
<1> USE PlanAssumption, BoundAssumption
        DEF PlanInv, Oids, QueryPCs, DDLPCs, schemaVars, planVars, envVars,
            Goto, Done, Return, Stay, Remember
<1>1. TypeOK'
  BY DEF Parsed, TypeOK, Working
<1>2. Exclusive' /\ Working'
  BY DEF Parsed, TypeOK, Exclusive, Working
<1>3. CacheOk' /\ CreateOk' /\ OidsIssued'
  BY DEF Parsed, TypeOK, Exclusive, Working, CacheOk, CreateOk, OidsIssued
<1>4. FoundOk'
  BY DEF Parsed, TypeOK, Exclusive, Working, FoundOk
<1>5. StoreOk'
  BY Zenon DEF Parsed, TypeOK, Working, StoreOk
<1>6. EmitOk'
  BY DEF Parsed, TypeOK, Exclusive, Working, EmitOk
<1>7. QED
  BY <1>1, <1>2, <1>3, <1>4, <1>5, <1>6 DEF PlanInv

\* A plan that is reused without the lock is up to date.
LEMMA CheckPlanPlanInv ==
    ASSUME PlanInv, NEW p \in Proc, CheckPlan(p)
    PROVE  PlanInv'
<1> USE PlanAssumption, BoundAssumption
        DEF PlanInv, Oids, QueryPCs, DDLPCs, schemaVars, planVars, envVars,
            Goto, Done, Return, Stay, Remember
<1>1. TypeOK'
  BY Zenon DEF CheckPlan, TypeOK, Working
<1>2. Exclusive' /\ Working'
  BY ZenonT(30) DEF CheckPlan, TypeOK, Exclusive, Working
<1>3. CacheOk' /\ CreateOk' /\ OidsIssued'
  BY DEF CheckPlan, TypeOK, Exclusive, Working, CacheOk, CreateOk, OidsIssued
<1>4. FoundOk'
  BY DEF CheckPlan, TypeOK, Exclusive, Working, FoundOk
<1>5. StoreOk'
  BY ZenonT(30) DEF CheckPlan, TypeOK, Working, StoreOk
<1>6. EmitOk'
  BY DEF CheckPlan, TypeOK, Exclusive, Working, EmitOk, StoreOk, Reusable
<1>7. QED
  BY <1>1, <1>2, <1>3, <1>4, <1>5, <1>6 DEF PlanInv

\* Only one process gets the lock on a plan file.
LEMMA LockFilePlanInv ==
    ASSUME PlanInv, NEW p \in Proc, LockFile(p)
    PROVE  PlanInv'
<1> USE PlanAssumption, BoundAssumption
        DEF PlanInv, Oids, QueryPCs, DDLPCs, schemaVars, planVars, envVars,
            Goto, Done, Return, Stay, Remember
<1>1. TypeOK'
  BY Zenon DEF LockFile, TypeOK, Working
<1>2. Exclusive' /\ Working'
  BY DEF LockFile, TypeOK, Exclusive, Working
<1>3. CacheOk' /\ CreateOk' /\ OidsIssued'
  BY DEF LockFile, TypeOK, Exclusive, Working, CacheOk, CreateOk, OidsIssued
<1>4. FoundOk'
  BY DEF LockFile, TypeOK, Exclusive, Working, FoundOk
<1>5. StoreOk'
  BY ZenonT(30) DEF LockFile, TypeOK, Working, StoreOk
<1>6. EmitOk'
  BY DEF LockFile, TypeOK, Exclusive, Working, EmitOk
<1>7. QED
  BY <1>1, <1>2, <1>3, <1>4, <1>5, <1>6 DEF PlanInv

\* Giving up the wait for the file lock.
LEMMA TimeoutFilePlanInv ==
    ASSUME PlanInv, NEW p \in Proc, TimeoutFile(p)
    PROVE  PlanInv'
<1> USE PlanAssumption, BoundAssumption
        DEF PlanInv, Oids, QueryPCs, DDLPCs, schemaVars, planVars, envVars,
            Goto, Done, Return, Stay, Remember
<1>1. TypeOK'
  BY NoneIsOids, Zenon DEF TimeoutFile, TypeOK, Working
<1>2. Exclusive' /\ Working'
  BY NoneIsOids DEF TimeoutFile, TypeOK, Exclusive, Working
<1>3. CacheOk' /\ CreateOk' /\ OidsIssued'
  BY NoneIsOids
     DEF TimeoutFile, TypeOK, Exclusive, Working, CacheOk, CreateOk, OidsIssued
<1>4. FoundOk'
  BY NoneIsOids DEF TimeoutFile, TypeOK, Exclusive, Working, FoundOk
<1>5. StoreOk'
  BY NoneIsOids DEF TimeoutFile, TypeOK, Working, StoreOk
<1>6. EmitOk'
  BY NoneIsOids DEF TimeoutFile, TypeOK, Exclusive, Working, EmitOk
<1>7. QED
  BY <1>1, <1>2, <1>3, <1>4, <1>5, <1>6 DEF PlanInv

\* A plan that is reused under the lock is up to date; otherwise p keeps the lock.
LEMMA RecheckPlanPlanInv ==
    ASSUME PlanInv, NEW p \in Proc, RecheckPlan(p)
    PROVE  PlanInv'
<1> USE PlanAssumption, BoundAssumption
        DEF PlanInv, Oids, QueryPCs, DDLPCs, schemaVars, planVars, envVars,
            Goto, Done, Return, Stay, Remember
<1>1. /\ pc[p] = "recheck"
      /\ UNCHANGED <<schemaVars, planVars, cache, plan, table, used, envVars>>
  BY Zenon DEF RecheckPlan
<1>2. CASE Reusable(plan[p])
  <2>1. pc' = [pc EXCEPT ![p] = "run"] /\ Unlock(p)
    BY <1>2, Zenon DEF RecheckPlan
  <2>2. TypeOK' /\ Exclusive' /\ Working'
    BY <1>1, <2>1, UnlockKeeps, SMTT(30) DEF TypeOK, Exclusive, Working
  <2>3. CacheOk' /\ CreateOk' /\ OidsIssued' /\ FoundOk' /\ StoreOk'
    BY <1>1, <2>1, SMTT(30) DEF TypeOK, CacheOk, FoundOk, CreateOk, OidsIssued, StoreOk
  <2>4. EmitOk'
    BY <1>1, <1>2, <2>1 DEF TypeOK, Working, StoreOk, EmitOk, Reusable
  <2>5. QED
    BY <2>2, <2>3, <2>4, Zenon
<1>3. CASE ~Reusable(plan[p])
  <2>1. pc' = [pc EXCEPT ![p] = "emit"] /\ UNCHANGED fileLock
    BY <1>3, Zenon DEF RecheckPlan
  <2>2. TypeOK' /\ Exclusive' /\ Working'
    BY <1>1, <2>1, ZenonT(30) DEF TypeOK, Exclusive, Working
  <2>3. CacheOk' /\ CreateOk' /\ OidsIssued' /\ FoundOk'
    BY <1>1, <2>1 DEF TypeOK, CacheOk, FoundOk, CreateOk, OidsIssued
  <2>4. StoreOk' /\ EmitOk'
    BY <1>1, <2>1, SMTT(30) DEF TypeOK, StoreOk, EmitOk
  <2>5. QED
    BY <2>2, <2>3, <2>4, Zenon
<1>4. QED
  BY <1>2, <1>3, Zenon

\* A plan that cannot be emitted leaves the store as it is.
LEMMA EmitErrorPlanInv ==
    ASSUME PlanInv, NEW p \in Proc, EmitError(p)
    PROVE  PlanInv'
<1> USE PlanAssumption, BoundAssumption
        DEF PlanInv, Oids, QueryPCs, DDLPCs, schemaVars, planVars, envVars,
            Goto, Done, Return, Stay, Remember
<1>1. TypeOK'
  BY NoneIsOids, UnlockKeeps, ZenonT(40) DEF EmitError, TypeOK, Working
<1>2. Exclusive' /\ Working'
  BY NoneIsOids, UnlockKeeps, SMTT(30) DEF EmitError, TypeOK, Exclusive, Working
<1>3. CacheOk' /\ CreateOk' /\ OidsIssued'
  BY NoneIsOids, UnlockKeeps, SMTT(30)
     DEF EmitError, TypeOK, Exclusive, Working, CacheOk, CreateOk, OidsIssued
<1>4. FoundOk'
  BY NoneIsOids, UnlockKeeps, SMTT(30)
     DEF EmitError, TypeOK, Exclusive, Working, FoundOk
<1>5. StoreOk'
  BY NoneIsOids, UnlockKeeps, SMTT(30) DEF EmitError, TypeOK, Working, StoreOk
<1>6. EmitOk'
  BY NoneIsOids, UnlockKeeps, SMTT(30)
     DEF EmitError, TypeOK, Exclusive, Working, EmitOk
<1>7. QED
  BY <1>1, <1>2, <1>3, <1>4, <1>5, <1>6 DEF PlanInv

\* The renamed file is compiled from current definitions, and nobody else is
\* between its rename and its output key.
LEMMA EmitFilePlanInv ==
    ASSUME PlanInv, NEW p \in Proc, EmitFile(p)
    PROVE  PlanInv'
<1> USE PlanAssumption, BoundAssumption
        DEF PlanInv, Oids, QueryPCs, DDLPCs, schemaVars, planVars, envVars,
            Goto, Done, Return, Stay, Remember
<1>1. /\ plan[p] \in Plan /\ used[p] \in Oids /\ used[p] # None
      /\ \A t \in Uses[plan[p]] : used[p][t] = binary[t] /\ used[p][t] # 0
  BY AllFound, Zenon DEF EmitFile
<1>2. \A r \in Proc \ {p} : pc[r] \in {"kill", "link"} => plan[r] # plan[p]
  BY Zenon DEF EmitFile, TypeOK, Exclusive
<1>3. /\ file'[plan[p]] = used[p]
      /\ \A q \in Plan \ {plan[p]} : file'[q] = file[q]
  BY <1>1, Zenon DEF EmitFile, TypeOK
<1>4. TypeOK'
  BY <1>1, ZenonT(30) DEF EmitFile, TypeOK, Working
<1>5. Exclusive' /\ Working'
  BY <1>1, SMTT(30) DEF EmitFile, TypeOK, Exclusive, Working
<1>6. CacheOk' /\ CreateOk' /\ OidsIssued'
  BY <1>1, SMTT(30)
     DEF EmitFile, TypeOK, Exclusive, Working, CacheOk, CreateOk, OidsIssued
<1>7. FoundOk'
  BY <1>1, SMTT(30) DEF EmitFile, TypeOK, Exclusive, Working, FoundOk
<1>8. StoreOk'
  BY <1>1, <1>3, SMTT(30) DEF EmitFile, TypeOK, Working, StoreOk
<1>9. EmitOk'
  <2> SUFFICES ASSUME NEW r \in Proc
               PROVE  EmitOk!(r)'
    BY Zenon DEF EmitOk
  <2>1. QED
    BY <1>1, <1>2, <1>3, SMTT(30)
       DEF EmitFile, TypeOK, Exclusive, Working, EmitOk
<1>10. QED
  BY <1>4, <1>5, <1>6, <1>7, <1>8, <1>9 DEF PlanInv

\* Without an output key nothing is promised of a plan.
LEMMA KillMetadataPlanInv ==
    ASSUME PlanInv, NEW p \in Proc, KillMetadata(p)
    PROVE  PlanInv'
<1> USE PlanAssumption, BoundAssumption
        DEF PlanInv, Oids, QueryPCs, DDLPCs, schemaVars, planVars, envVars,
            Goto, Done, Return, Stay, Remember
<1>1. TypeOK'
  BY NoneIsOids, Zenon DEF KillMetadata, TypeOK, Working
<1>2. Exclusive' /\ Working'
  BY NoneIsOids, ZenonT(30) DEF KillMetadata, TypeOK, Exclusive, Working
<1>3. CacheOk' /\ CreateOk' /\ OidsIssued'
  BY NoneIsOids
     DEF KillMetadata, TypeOK, Exclusive, Working, CacheOk, CreateOk, OidsIssued
<1>4. FoundOk'
  BY NoneIsOids DEF KillMetadata, TypeOK, Exclusive, Working, FoundOk
<1>5. StoreOk'
  BY NoneIsOids, Zenon DEF KillMetadata, TypeOK, Working, StoreOk
<1>6. EmitOk'
  BY NoneIsOids, SMTT(30) DEF KillMetadata, TypeOK, Exclusive, Working, EmitOk
<1>7. QED
  BY <1>1, <1>2, <1>3, <1>4, <1>5, <1>6 DEF PlanInv

\* The output key appears when the links are in place.
LEMMA StoreOutputKeyPlanInv ==
    ASSUME PlanInv, NEW p \in Proc, StoreOutputKey(p)
    PROVE  PlanInv'
<1> USE PlanAssumption, BoundAssumption
        DEF PlanInv, Oids, QueryPCs, DDLPCs, schemaVars, planVars, envVars,
            Goto, Done, Return, Stay, Remember
<1>1. /\ plan[p] \in Plan /\ used[p] \in Oids /\ used[p] # None
      /\ \A t \in Uses[plan[p]] : used[p][t] = binary[t] /\ used[p][t] # 0
  BY AllFound, Zenon DEF StoreOutputKey
<1>2. file[plan[p]] = used[p]
  BY Zenon DEF StoreOutputKey, EmitOk
<1>3. TypeOK'
  BY <1>1, UnlockKeeps, ZenonT(30) DEF StoreOutputKey, TypeOK, Working
<1>4. Exclusive' /\ Working'
  BY <1>1, UnlockKeeps, SMTT(30) DEF StoreOutputKey, TypeOK, Exclusive, Working
<1>5. CacheOk' /\ CreateOk' /\ OidsIssued'
  BY <1>1, SMTT(30)
     DEF StoreOutputKey, TypeOK, Exclusive, Working, CacheOk, CreateOk,
         OidsIssued
<1>6. FoundOk'
  BY <1>1, SMTT(30) DEF StoreOutputKey, TypeOK, Exclusive, Working, FoundOk
<1>7. StoreOk'
  BY <1>1, <1>2, SMTT(30) DEF StoreOutputKey, TypeOK, Working, StoreOk
<1>8. EmitOk'
  BY <1>1, <1>2, SMTT(30) DEF StoreOutputKey, TypeOK, Exclusive, Working, EmitOk
<1>9. QED
  BY <1>3, <1>4, <1>5, <1>6, <1>7, <1>8 DEF PlanInv

\* The query ends.
LEMMA RunPlanPlanInv ==
    ASSUME PlanInv, NEW p \in Proc, RunPlan(p)
    PROVE  PlanInv'
<1> USE PlanAssumption, BoundAssumption
        DEF PlanInv, Oids, QueryPCs, DDLPCs, schemaVars, planVars, envVars,
            Goto, Done, Return, Stay, Remember
<1>1. TypeOK'
  BY NoneIsOids, ZenonT(30) DEF RunPlan, TypeOK, Working
<1>2. Exclusive' /\ Working'
  BY NoneIsOids, ZenonT(30) DEF RunPlan, TypeOK, Exclusive, Working
<1>3. CacheOk' /\ CreateOk' /\ OidsIssued'
  BY NoneIsOids
     DEF RunPlan, TypeOK, Exclusive, Working, CacheOk, CreateOk, OidsIssued
<1>4. FoundOk'
  BY NoneIsOids DEF RunPlan, TypeOK, Exclusive, Working, FoundOk
<1>5. StoreOk'
  BY NoneIsOids, ZenonT(30) DEF RunPlan, TypeOK, Working, StoreOk
<1>6. EmitOk'
  BY NoneIsOids DEF RunPlan, TypeOK, Exclusive, Working, EmitOk
<1>7. QED
  BY <1>1, <1>2, <1>3, <1>4, <1>5, <1>6 DEF PlanInv
---------------------------------------------------------------------------
\* The pg_class row goes.
LEMMA DropRowPlanInv ==
    ASSUME PlanInv, NEW p \in Proc, DropRow(p)
    PROVE  PlanInv'
<1> USE PlanAssumption, BoundAssumption
        DEF PlanInv, Oids, QueryPCs, DDLPCs, schemaVars, planVars, envVars,
            Goto, Done, Return, Stay, Remember
<1>1. TypeOK'
  BY Zenon DEF DropRow, TypeOK, Working
<1>2. Exclusive' /\ Working'
  BY SMTT(40) DEF DropRow, TypeOK, Exclusive, Working
<1>3. CacheOk' /\ CreateOk' /\ OidsIssued'
  BY SMTT(30) DEF DropRow, TypeOK, Exclusive, Working, CacheOk, CreateOk, OidsIssued
<1>4. FoundOk'
  BY DEF DropRow, TypeOK, Exclusive, Working, FoundOk
<1>5. StoreOk'
  BY ZenonT(30) DEF DropRow, TypeOK, Working, StoreOk
<1>6. EmitOk'
  BY DEF DropRow, TypeOK, Exclusive, Working, EmitOk
<1>7. QED
  BY <1>1, <1>2, <1>3, <1>4, <1>5, <1>6, Zenon DEF PlanInv

\* discardPlan deletes the file; nobody else runs it.
LEMMA DiscardFilePlanInv ==
    ASSUME PlanInv, NEW p \in Proc, NEW q \in Plan, DiscardFile(p, q)
    PROVE  PlanInv'
<1> USE PlanAssumption, BoundAssumption
        DEF PlanInv, Oids, QueryPCs, DDLPCs, schemaVars, planVars, envVars,
            Goto, Done, Return, Stay, Remember
<1>1. TypeOK'
  BY NoneIsOids, Zenon DEF DiscardFile, TypeOK, Working
<1>2. Exclusive' /\ Working'
  BY NoneIsOids, SMTT(40) DEF DiscardFile, TypeOK, Exclusive, Working
<1>3. CacheOk' /\ CreateOk' /\ OidsIssued'
  BY NoneIsOids, SMTT(30)
     DEF DiscardFile, TypeOK, Exclusive, Working, CacheOk, CreateOk, OidsIssued
<1>4. FoundOk'
  BY NoneIsOids, SMTT(30) DEF DiscardFile, TypeOK, Exclusive, Working, FoundOk
<1>5. StoreOk'
  BY NoneIsOids, SMTT(30) DEF DiscardFile, TypeOK, Working, StoreOk
<1>6. EmitOk'
  <2>1. \A r \in Proc \ {p} : pc[r] \notin {"kill", "link", "run", "drop"}
    BY DDLAlone, Zenon DEF DiscardFile
  <2> QED
    BY NoneIsOids, <2>1, ZenonT(40) DEF DiscardFile, TypeOK, Working, EmitOk
<1>7. QED
  BY <1>1, <1>2, <1>3, <1>4, <1>5, <1>6, Zenon DEF PlanInv

\* discardPlan kills the metadata.
LEMMA DiscardKeyPlanInv ==
    ASSUME PlanInv, NEW p \in Proc, DiscardKey(p)
    PROVE  PlanInv'
<1> USE PlanAssumption, BoundAssumption
        DEF PlanInv, Oids, QueryPCs, DDLPCs, schemaVars, planVars, envVars,
            Goto, Done, Return, Stay, Remember
<1>1. TypeOK'
  BY NoneIsOids, Zenon DEF DiscardKey, TypeOK, Working
<1>2. Exclusive' /\ Working'
  BY NoneIsOids, SMTT(30) DEF DiscardKey, TypeOK, Exclusive, Working
<1>3. CacheOk' /\ CreateOk' /\ OidsIssued'
  BY NoneIsOids, SMTT(30)
     DEF DiscardKey, TypeOK, Exclusive, Working, CacheOk, CreateOk, OidsIssued
<1>4. FoundOk'
  BY NoneIsOids DEF DiscardKey, TypeOK, Exclusive, Working, FoundOk
<1>5. StoreOk'
  BY NoneIsOids, ZenonT(40) DEF DiscardKey, TypeOK, Working, StoreOk
<1>6. EmitOk'
  BY NoneIsOids, SMTT(30) DEF DiscardKey, TypeOK, Exclusive, Working, EmitOk
<1>7. QED
  BY <1>1, <1>2, <1>3, <1>4, <1>5, <1>6 DEF PlanInv

\* The links go when no plan of the table has an output key.
LEMMA UnlinkPlanInv ==
    ASSUME PlanInv, NEW p \in Proc, Unlink(p)
    PROVE  PlanInv'
<1> USE PlanAssumption, BoundAssumption
        DEF PlanInv, Oids, QueryPCs, DDLPCs, schemaVars, planVars, envVars,
            Goto, Done, Return, Stay, Remember
<1>1. TypeOK'
  BY Zenon DEF Unlink, TypeOK, Working
<1>2. Exclusive' /\ Working'
  <2>1. /\ pc'[p] = "drop" /\ pc[p] = "discard" /\ UNCHANGED <<fileLock, plan, table, lost>>
        /\ \A r \in Proc \ {p} : pc'[r] = pc[r]
    BY Zenon DEF Unlink, TypeOK
  <2>2. \A r \in Proc \ {p} : pc[r] \in {"idle", "execute"}
    BY <2>1, DDLAlone, Zenon
  <2> QED
    BY <2>1, <2>2, ZenonT(30) DEF Exclusive, Working
<1>3. CacheOk' /\ CreateOk' /\ OidsIssued'
  BY SMTT(30) DEF Unlink, TypeOK, Exclusive, Working, CacheOk, CreateOk, OidsIssued
<1>4. FoundOk'
  BY DEF Unlink, TypeOK, Exclusive, Working, FoundOk
<1>5. StoreOk'
  BY ZenonT(30) DEF Unlink, TypeOK, Working, StoreOk, Undiscarded, Exclusive
<1>6. EmitOk'
  BY SMTT(30) DEF Unlink, TypeOK, Exclusive, Working, EmitOk
<1>7. QED
  BY <1>1, <1>2, <1>3, <1>4, <1>5, <1>6 DEF PlanInv

\* No plan with an output key uses the table whose definition goes.
LEMMA DropTablePlanInv ==
    ASSUME PlanInv, NEW p \in Proc, DropTable(p)
    PROVE  PlanInv'
<1> USE PlanAssumption, BoundAssumption
        DEF PlanInv, Oids, QueryPCs, DDLPCs, schemaVars, planVars, envVars,
            Goto, Done, Return, Stay, Remember
<1>1. TypeOK'
  <2>1. table[p] \in Table /\ 0 \in 0..MaxOid
    BY DEF DropTable, Working
  <2>2. classOid' \in Oids /\ binary' \in Oids
    BY <2>1, Zenon DEF DropTable, TypeOK
  <2>3. cache' \in [Proc -> Oids]
    BY <2>1, Zenon DEF DropTable, TypeOK
  <2>4. QED
    BY <2>2, <2>3, NoneIsOids, Zenon DEF DropTable, TypeOK
<1>2. Exclusive' /\ Working'
  BY NoneIsOids, SMTT(30) DEF DropTable, TypeOK, Exclusive, Working
<1>3. CacheOk' /\ CreateOk' /\ OidsIssued'
  BY NoneIsOids, SMTT(30)
     DEF DropTable, TypeOK, Exclusive, Working, CacheOk, CreateOk, OidsIssued
<1>4. FoundOk'
  BY NoneIsOids, SMTT(30) DEF DropTable, TypeOK, Exclusive, Working, FoundOk
<1>5. StoreOk'
  BY NoneIsOids, SMTT(30) DEF DropTable, TypeOK, Working, StoreOk, EmitOk
<1>6. EmitOk'
  <2>1. \A r \in Proc \ {p} : pc[r] \notin {"kill", "link", "run", "drop"}
    BY DDLAlone, Zenon DEF DropTable
  <2> QED
    BY NoneIsOids, <2>1, ZenonT(40) DEF DropTable, TypeOK, Working, EmitOk
<1>7. QED
  BY <1>1, <1>2, <1>3, <1>4, <1>5, <1>6 DEF PlanInv

\* The new OID is in nobody's copy of a definition.
LEMMA CreateRowPlanInv ==
    ASSUME PlanInv, NEW p \in Proc, CreateRow(p)
    PROVE  PlanInv'
<1> USE PlanAssumption, BoundAssumption
        DEF PlanInv, Oids, QueryPCs, DDLPCs, schemaVars, planVars, envVars,
            Goto, Done, Return, Stay, Remember
<1>1. TypeOK'
  BY DEF CreateRow, TypeOK, Working, CreateOk
<1>2. Exclusive' /\ Working'
  BY ZenonT(40) DEF CreateRow, TypeOK, Exclusive, Working
<1>3. CacheOk' /\ CreateOk' /\ OidsIssued'
  <2>1. \A r \in Proc \ {p} : pc[r] \notin {"row", "class", "binary"}
    BY DDLAlone, Zenon DEF CreateRow
  <2> QED
    BY <2>1, SMTT(40) DEF CreateRow, TypeOK, Working, CacheOk, CreateOk, OidsIssued
<1>4. FoundOk'
  BY DEF CreateRow, TypeOK, Exclusive, Working, FoundOk
<1>5. StoreOk'
  BY ZenonT(30) DEF CreateRow, TypeOK, Working, StoreOk
<1>6. EmitOk'
  BY SMTT(30) DEF CreateRow, TypeOK, Exclusive, Working, EmitOk
<1>7. QED
  BY <1>1, <1>2, <1>3, <1>4, <1>5, <1>6 DEF PlanInv

\* No copy matches the new OID yet.
LEMMA CreateClassOidPlanInv ==
    ASSUME PlanInv, NEW p \in Proc, CreateClassOid(p)
    PROVE  PlanInv'
<1> USE PlanAssumption, BoundAssumption
        DEF PlanInv, Oids, QueryPCs, DDLPCs, schemaVars, planVars, envVars,
            Goto, Done, Return, Stay, Remember
<1>1. TypeOK'
  BY DEF CreateClassOid, TypeOK, Working
<1>2. Exclusive' /\ Working'
  BY ZenonT(30) DEF CreateClassOid, TypeOK, Exclusive, Working
<1>3. CacheOk' /\ CreateOk' /\ OidsIssued'
  BY SMTT(30) DEF CreateClassOid, TypeOK, Exclusive, Working, CacheOk, CreateOk,
         OidsIssued
<1>4. FoundOk'
  BY DEF CreateClassOid, TypeOK, Exclusive, Working, FoundOk
<1>5. StoreOk'
  BY ZenonT(30) DEF CreateClassOid, TypeOK, Working, StoreOk
<1>6. EmitOk'
  BY SMTT(30) DEF CreateClassOid, TypeOK, Exclusive, Working, EmitOk
<1>7. QED
  BY <1>1, <1>2, <1>3, <1>4, <1>5, <1>6 DEF PlanInv

\* No plan with an output key uses the new table yet.
LEMMA CreateBinaryPlanInv ==
    ASSUME PlanInv, NEW p \in Proc, CreateBinary(p)
    PROVE  PlanInv'
<1> USE PlanAssumption, BoundAssumption
        DEF PlanInv, Oids, QueryPCs, DDLPCs, schemaVars, planVars, envVars,
            Goto, Done, Return, Stay, Remember
<1>1. TypeOK'
  <2>1. binary' \in Oids
    BY DEF CreateBinary, TypeOK, Working
  <2>2. QED
    BY <2>1, NoneIsOids, ZenonT(40) DEF CreateBinary, TypeOK
<1>2. Exclusive' /\ Working'
  BY NoneIsOids, ZenonT(30) DEF CreateBinary, TypeOK, Exclusive, Working
<1>3. CacheOk' /\ CreateOk' /\ OidsIssued'
  BY NoneIsOids, SMTT(30)
     DEF CreateBinary, TypeOK, Exclusive, Working, CacheOk, CreateOk, OidsIssued
<1>4. FoundOk'
  BY NoneIsOids, SMTT(30) DEF CreateBinary, TypeOK, Exclusive, Working, FoundOk
<1>5. StoreOk'
  BY NoneIsOids, SMTT(30) DEF CreateBinary, TypeOK, Working, StoreOk, CreateOk
<1>6. EmitOk'
  <2>1. \A r \in Proc \ {p} : pc[r] \notin {"kill", "link", "run", "drop"}
    BY DDLAlone, Zenon DEF CreateBinary
  <2> QED
    BY NoneIsOids, <2>1, ZenonT(40) DEF CreateBinary, TypeOK, Working, EmitOk
<1>7. QED
  BY <1>1, <1>2, <1>3, <1>4, <1>5, <1>6 DEF PlanInv

\* Nothing happens.
LEMMA StutterPlanInv ==
    ASSUME PlanInv, UNCHANGED vars
    PROVE  PlanInv'
<1> USE PlanAssumption, BoundAssumption
        DEF PlanInv, Oids, QueryPCs, DDLPCs, schemaVars, planVars, envVars,
            Goto, Done, Return, Stay, Remember
<1>1. TypeOK'
  BY Zenon DEF vars, TypeOK, Working
<1>2. Exclusive' /\ Working'
  BY Zenon DEF vars, TypeOK, Exclusive, Working
<1>3. CacheOk' /\ CreateOk' /\ OidsIssued'
  BY ZenonT(30) DEF vars, TypeOK, Exclusive, Working, CacheOk, CreateOk, OidsIssued
<1>4. FoundOk'
  BY DEF vars, TypeOK, Exclusive, Working, FoundOk
<1>5. StoreOk'
  BY Zenon DEF vars, TypeOK, Working, StoreOk
<1>6. EmitOk'
  BY ZenonT(30) DEF vars, TypeOK, Exclusive, Working, EmitOk
<1>7. QED
  BY <1>1, <1>2, <1>3, <1>4, <1>5, <1>6, Zenon DEF PlanInv

\* A query starts when no DDL runs.
LEMMA StartQueryPlanInv ==
    ASSUME PlanInv, NEW p \in Proc, NEW q \in Plan, StartQuery(p, q)
    PROVE  PlanInv'
<1> USE PlanAssumption, BoundAssumption
        DEF PlanInv, Oids, QueryPCs, DDLPCs, schemaVars, planVars, envVars,
            Goto, Done, Return, Stay, Remember
<1>1. TypeOK'
  BY Zenon DEF StartQuery, Changing, TypeOK, Working, Exclusive
<1>2. Exclusive' /\ Working'
  BY ZenonT(30) DEF StartQuery, Changing, TypeOK, Exclusive, Working
<1>3. CacheOk' /\ CreateOk' /\ OidsIssued'
  BY SMTT(30) DEF StartQuery, Changing, TypeOK, Exclusive, Working, CacheOk, CreateOk,
         OidsIssued
<1>4. FoundOk'
  BY SMTT(30) DEF StartQuery, Changing, TypeOK, Exclusive, Working, FoundOk
<1>5. StoreOk'
  BY ZenonT(30) DEF StartQuery, Changing, TypeOK, Working, StoreOk
<1>6. EmitOk'
  BY SMTT(30) DEF StartQuery, Changing, TypeOK, Exclusive, Working, EmitOk
<1>7. QED
  BY <1>1, <1>2, <1>3, <1>4, <1>5, <1>6, Zenon DEF PlanInv

\* A DROP TABLE starts alone.
LEMMA StartDropPlanInv ==
    ASSUME PlanInv, NEW p \in Proc, NEW t \in Table, StartDrop(p, t)
    PROVE  PlanInv'
<1> USE PlanAssumption, BoundAssumption
        DEF PlanInv, Oids, QueryPCs, DDLPCs, schemaVars, planVars, envVars,
            Goto, Done, Return, Stay, Remember
<1>1. Lookup(p, t) = binary[t]
  BY LookupIsCurrent, Zenon
<1>2. TypeOK'
  BY <1>1, SMTT(30) DEF StartDrop, Changing, Querying, TypeOK, Working
<1>3. Exclusive' /\ Working'
  BY <1>1, SMTT(40) DEF StartDrop, Changing, Querying, TypeOK, Exclusive, Working
<1>4. CacheOk' /\ CreateOk' /\ OidsIssued'
  BY <1>1, SMTT(30)
     DEF StartDrop, Changing, Querying, TypeOK, Exclusive, Working, CacheOk,
         CreateOk, OidsIssued
<1>5. FoundOk'
  BY <1>1, SMTT(30)
     DEF StartDrop, Changing, Querying, TypeOK, Exclusive, Working, FoundOk
<1>6. StoreOk'
  BY <1>1, Zenon DEF StartDrop, Changing, Querying, TypeOK, Working, StoreOk
<1>7. EmitOk'
  BY <1>1, ZenonT(30)
     DEF StartDrop, Changing, Querying, TypeOK, Exclusive, Working, EmitOk
<1>8. QED
  BY <1>2, <1>3, <1>4, <1>5, <1>6, <1>7, Zenon DEF PlanInv

\* A CREATE TABLE starts alone, on a name without a definition.
LEMMA StartCreatePlanInv ==
    ASSUME PlanInv, NEW p \in Proc, NEW t \in Table, StartCreate(p, t)
    PROVE  PlanInv'
<1> USE PlanAssumption, BoundAssumption
        DEF PlanInv, Oids, QueryPCs, DDLPCs, schemaVars, planVars, envVars,
            Goto, Done, Return, Stay, Remember
<1>1. Lookup(p, t) = binary[t]
  BY LookupIsCurrent, SMTT(30)
<1>2. TypeOK'
  BY <1>1, SMTT(30) DEF StartCreate, Changing, Querying, TypeOK, Working
<1>3. Exclusive' /\ Working'
  BY <1>1, ZenonT(30) DEF StartCreate, Changing, Querying, TypeOK, Exclusive, Working
<1>4. CacheOk' /\ CreateOk' /\ OidsIssued'
  BY <1>1, SMTT(30)
     DEF StartCreate, Changing, Querying, TypeOK, Exclusive, Working, CacheOk,
         CreateOk, OidsIssued
<1>5. FoundOk'
  BY <1>1, SMTT(30)
     DEF StartCreate, Changing, Querying, TypeOK, Exclusive, Working, FoundOk
<1>6. StoreOk'
  BY <1>1, SMTT(30) DEF StartCreate, Changing, Querying, TypeOK, Working, StoreOk
<1>7. EmitOk'
  BY <1>1, SMTT(30)
     DEF StartCreate, Changing, Querying, TypeOK, Exclusive, Working, EmitOk
<1>8. QED
  BY <1>2, <1>3, <1>4, <1>5, <1>6, <1>7 DEF PlanInv

\* DDL that fails its existence check only refreshes the local copy.
LEMMA DDLErrorPlanInv ==
    ASSUME PlanInv, NEW p \in Proc, NEW t \in Table, DDLError(p, t)
    PROVE  PlanInv'
<1> USE PlanAssumption, BoundAssumption
        DEF PlanInv, Oids, QueryPCs, DDLPCs, schemaVars, planVars, envVars,
            Goto, Done, Return, Stay, Remember
<1>1. Lookup(p, t) = binary[t]
  BY LookupIsCurrent
<1>2. TypeOK'
  BY <1>1, SMTT(30) DEF DDLError, Changing, Querying, TypeOK, Working
<1>3. Exclusive' /\ Working'
  BY <1>1, ZenonT(30) DEF DDLError, Changing, Querying, TypeOK, Exclusive, Working
<1>4. CacheOk' /\ CreateOk' /\ OidsIssued'
  BY <1>1, SMTT(30)
     DEF DDLError, Changing, Querying, TypeOK, Exclusive, Working, CacheOk,
         CreateOk, OidsIssued
<1>5. FoundOk'
  BY <1>1, SMTT(30)
     DEF DDLError, Changing, Querying, TypeOK, Exclusive, Working, FoundOk
<1>6. StoreOk'
  BY <1>1, ZenonT(30) DEF DDLError, Changing, Querying, TypeOK, Working, StoreOk
<1>7. EmitOk'
  BY <1>1, ZenonT(30)
     DEF DDLError, Changing, Querying, TypeOK, Exclusive, Working, EmitOk
<1>8. QED
  BY <1>2, <1>3, <1>4, <1>5, <1>6, <1>7 DEF PlanInv

\* A process dies anywhere.
LEMMA CrashPlanInv ==
    ASSUME PlanInv, NEW p \in Proc, Crash(p)
    PROVE  PlanInv'
<1> USE PlanAssumption, BoundAssumption
        DEF PlanInv, Oids, QueryPCs, DDLPCs, schemaVars, planVars, envVars,
            Goto, Done, Return, Stay, Remember
<1>1. TypeOK'
  BY NoneIsOids, UnlockKeeps, SMTT(30) DEF Crash, TypeOK, Working
<1>2. Exclusive' /\ Working'
  BY NoneIsOids, UnlockKeeps, SMTT(30) DEF Crash, TypeOK, Exclusive, Working
<1>3. CacheOk' /\ CreateOk' /\ OidsIssued'
  BY NoneIsOids, UnlockKeeps, SMTT(30)
     DEF Crash, TypeOK, Exclusive, Working, CacheOk, CreateOk, OidsIssued
<1>4. FoundOk'
  BY NoneIsOids, UnlockKeeps, SMTT(30)
     DEF Crash, TypeOK, Exclusive, Working, FoundOk
<1>5. StoreOk'
  BY NoneIsOids, UnlockKeeps, ZenonT(30) DEF Crash, TypeOK, Working, StoreOk
<1>6. EmitOk'
  BY NoneIsOids, UnlockKeeps, SMTT(30) DEF Crash, TypeOK, Exclusive, Working, EmitOk
<1>7. QED
  BY <1>1, <1>2, <1>3, <1>4, <1>5, <1>6 DEF PlanInv

\* A plan is kept for an Execute.
LEMMA PreparePlanInv ==
    ASSUME PlanInv, NEW p \in Proc, Prepare(p)
    PROVE  PlanInv'
<1> USE PlanAssumption, BoundAssumption
        DEF PlanInv, Oids, QueryPCs, DDLPCs, schemaVars, planVars, envVars,
            Goto, Done, Return, Stay, Remember
<1>1. TypeOK'
  BY NoneIsOids, ZenonT(40) DEF Prepare, TypeOK, Working
<1>2. Exclusive' /\ Working'
  BY NoneIsOids, SMTT(30) DEF Prepare, TypeOK, Exclusive, Working
<1>3. CacheOk' /\ CreateOk' /\ OidsIssued'
  BY NoneIsOids, SMTT(30)
     DEF Prepare, TypeOK, Exclusive, Working, CacheOk, CreateOk, OidsIssued
<1>4. FoundOk'
  BY NoneIsOids, SMTT(30) DEF Prepare, TypeOK, Exclusive, Working, FoundOk
<1>5. StoreOk'
  BY NoneIsOids, ZenonT(30) DEF Prepare, TypeOK, Working, StoreOk
<1>6. EmitOk'
  BY NoneIsOids, SMTT(30) DEF Prepare, TypeOK, Exclusive, Working, EmitOk
<1>7. QED
  BY <1>1, <1>2, <1>3, <1>4, <1>5, <1>6, Zenon DEF PlanInv

\* An Execute touches neither the schema nor the plans.
LEMMA ExecutePlanInv ==
    ASSUME PlanInv, NEW p \in Proc, Execute(p)
    PROVE  PlanInv'
<1> USE PlanAssumption, BoundAssumption
        DEF PlanInv, Oids, QueryPCs, DDLPCs, schemaVars, planVars, envVars,
            Goto, Done, Return, Stay, Remember
<1>1. TypeOK'
  BY NoneIsOids, ZenonT(40) DEF Execute, TypeOK, Working
<1>2. Exclusive' /\ Working'
  BY NoneIsOids, SMTT(30) DEF Execute, TypeOK, Exclusive, Working
<1>3. CacheOk' /\ CreateOk' /\ OidsIssued'
  BY NoneIsOids, SMTT(30)
     DEF Execute, TypeOK, Exclusive, Working, CacheOk, CreateOk, OidsIssued
<1>4. FoundOk'
  BY NoneIsOids, SMTT(30) DEF Execute, TypeOK, Exclusive, Working, FoundOk
<1>5. StoreOk'
  BY NoneIsOids, ZenonT(30) DEF Execute, TypeOK, Working, StoreOk
<1>6. EmitOk'
  BY NoneIsOids, SMTT(30) DEF Execute, TypeOK, Exclusive, Working, EmitOk
<1>7. QED
  BY <1>1, <1>2, <1>3, <1>4, <1>5, <1>6, Zenon DEF PlanInv

\* An Execute ends.
LEMMA FinishExecutePlanInv ==
    ASSUME PlanInv, NEW p \in Proc, FinishExecute(p)
    PROVE  PlanInv'
<1> USE PlanAssumption, BoundAssumption
        DEF PlanInv, Oids, QueryPCs, DDLPCs, schemaVars, planVars, envVars,
            Goto, Done, Return, Stay, Remember
<1>1. TypeOK'
  BY NoneIsOids, ZenonT(40) DEF FinishExecute, TypeOK, Working
<1>2. Exclusive' /\ Working'
  BY NoneIsOids, SMTT(30) DEF FinishExecute, TypeOK, Exclusive, Working
<1>3. CacheOk' /\ CreateOk' /\ OidsIssued'
  BY NoneIsOids, SMTT(30)
     DEF FinishExecute, TypeOK, Exclusive, Working, CacheOk, CreateOk, OidsIssued
<1>4. FoundOk'
  BY NoneIsOids, SMTT(30) DEF FinishExecute, TypeOK, Exclusive, Working, FoundOk
<1>5. StoreOk'
  BY NoneIsOids, ZenonT(30) DEF FinishExecute, TypeOK, Working, StoreOk
<1>6. EmitOk'
  BY NoneIsOids, SMTT(30) DEF FinishExecute, TypeOK, Exclusive, Working, EmitOk
<1>7. QED
  BY <1>1, <1>2, <1>3, <1>4, <1>5, <1>6, Zenon DEF PlanInv

\* Every step but CancelEmit and CancelDiscard, which are counted in cancels, keeps
\* the invariant.
LEMMA NextPlanInv == ASSUME PlanInv, cancels' = 0, [Next]_vars PROVE PlanInv'
<1>1. ASSUME NEW p \in Proc PROVE ~CancelEmit(p) /\ ~CancelDiscard(p)
  BY BoundAssumption, SMTT(30) DEF PlanInv, TypeOK, CancelEmit, CancelDiscard
<1>2. ASSUME NEW p \in Proc, Step(p) PROVE PlanInv'
  BY Zenon, <1>1, <1>2, FindTablePlanInv, UnknownTablePlanInv, LinkTablePlanInv, ParsedPlanInv,
     CheckPlanPlanInv, LockFilePlanInv, TimeoutFilePlanInv,
     RecheckPlanPlanInv, EmitErrorPlanInv, EmitFilePlanInv,
     KillMetadataPlanInv, StoreOutputKeyPlanInv, RunPlanPlanInv, PreparePlanInv, FinishExecutePlanInv,
     DropRowPlanInv, DiscardFilePlanInv, DiscardKeyPlanInv, UnlinkPlanInv,
     DropTablePlanInv, CreateRowPlanInv, CreateClassOidPlanInv,
     CreateBinaryPlanInv
     DEF Step
<1>3. QED
  BY Zenon, <1>2, StutterPlanInv, StartQueryPlanInv, ExecutePlanInv, StartDropPlanInv, StartCreatePlanInv,
     DDLErrorPlanInv, CrashPlanInv
     DEF Next

\* A cancel is never forgotten.
LEMMA CancelsStay ==
    ASSUME cancels \in Nat, [Next]_vars
    PROVE  cancels' \in Nat /\ (cancels' = 0 => cancels = 0)
<1>1. ASSUME NEW p \in Proc, CancelEmit(p) \/ CancelDiscard(p) PROVE cancels' = cancels + 1
  BY <1>1, Zenon DEF CancelEmit, CancelDiscard
<1>2. ASSUME NEW p \in Proc, Step(p), ~CancelEmit(p), ~CancelDiscard(p) PROVE cancels' = cancels
  BY <1>2, Zenon
     DEF Step, envVars, Done, Return, Stay, FindTable, UnknownTable, LinkTable, Parsed,
         CheckPlan, LockFile, TimeoutFile, RecheckPlan, EmitError, EmitFile, KillMetadata,
         StoreOutputKey, RunPlan, Prepare, FinishExecute, DropRow, DiscardFile, DiscardKey, Unlink,
         DropTable, CreateRow, CreateClassOid, CreateBinary
<1>3. ASSUME NEW p \in Proc,
             \/ \E q \in Plan : StartQuery(p, q)
             \/ Execute(p)
             \/ \E t \in Table : StartDrop(p, t) \/ StartCreate(p, t) \/ DDLError(p, t)
             \/ Crash(p)
      PROVE  cancels' = cancels
  BY <1>3, Zenon DEF envVars, StartQuery, Execute, StartDrop, StartCreate, DDLError, Crash
<1>4. ASSUME UNCHANGED vars PROVE cancels' = cancels
  BY <1>4, Zenon DEF vars, envVars
<1>5. cancels' = cancels \/ cancels' = cancels + 1
  <2>1. ASSUME NEW p \in Proc, Step(p) PROVE cancels' = cancels \/ cancels' = cancels + 1
    BY <1>1, <1>2, <2>1, Zenon
  <2>2. CASE Next
    BY <1>3, <2>1, <2>2, Zenon DEF Next
  <2>3. QED
    BY <1>4, <2>2, Zenon
<1>6. QED
  BY <1>5

\* The invariant holds until a cancel drops the locks of a statement.
THEOREM PlanInvHolds == Spec => [](cancels = 0 => PlanInv)
<1> DEFINE Inv == cancels \in Nat /\ (cancels = 0 => PlanInv)
<1>1. Init => Inv
  BY InitPlanInv DEF Init
<1>2. Inv /\ [Next]_vars => Inv'
  BY NextPlanInv, CancelsStay, Zenon
<1>3. QED
  BY <1>1, <1>2, PTL DEF Spec

\* A query never works with an outdated copy of a definition: the OID comparison
\* of find_view_or_table, however often tables are dropped and created again.
THEOREM CurrentDefinitions == Spec => []DefinitionCurrent
<1>1. (cancels = 0 => PlanInv) => DefinitionCurrent
  BY Zenon DEF PlanInv, FoundOk, DefinitionCurrent, Querying
<1>2. QED
  BY <1>1, PlanInvHolds, PTL

-----------------------------------------------------------------------------
\* Prepared plans.  What a Parse found may be gone when an Execute runs, but an OID
\* never comes back: while the tables have the OIDs the Parse found, nothing but the
\* plan compiled from them can be in the file.

\* The file of a plan whose tables are as found is compiled from them.
FileOk(q, found) ==
    file[q] # None /\ (\A t \in Uses[q] : found[t] = binary[t]) =>
        \A t \in Uses[q] : file[q][t] = binary[t]

PreparedInv ==
    \A p \in Proc :
        /\ \A t \in Table : parsed[p][t] <= oid
        /\ \A r \in Proc, t \in Table : pc[r] \in {"class", "binary"} => parsed[p][t] < oid
        /\ prepared[p] # NoName =>
              /\ \A t \in Uses[prepared[p]] : parsed[p][t] # 0
              /\ FileOk(prepared[p], parsed[p])
        /\ pc[p] = "execute" =>
              prepared[p] # NoName /\ plan[p] = prepared[p] /\ used[p] = parsed[p]

\* Only p moves, from and to places that say nothing of the prepared plans.
PreparedStay(p) ==
    /\ UNCHANGED <<oid, binary, file, prepared, parsed>>
    /\ \A r \in Proc \ {p} : pc'[r] = pc[r] /\ plan'[r] = plan[r] /\ used'[r] = used[r]
    /\ pc'[p] \notin {"class", "execute"}
    /\ pc'[p] = "binary" => pc[p] = "class"

LEMMA PreparedStayInv ==
    ASSUME NEW p \in Proc, PreparedStay(p), PreparedInv
    PROVE  PreparedInv'
<1>1. UNCHANGED <<oid, binary, file, prepared, parsed>>
  BY Zenon DEF PreparedStay
<1>2. /\ \A r \in Proc : pc'[r] \in {"class", "binary"} => pc[r] \in {"class", "binary"}
      /\ \A r \in Proc : pc'[r] = "execute" =>
            pc[r] = "execute" /\ plan'[r] = plan[r] /\ used'[r] = used[r]
  BY Zenon DEF PreparedStay
<1> SUFFICES ASSUME NEW r \in Proc
             PROVE  /\ \A t \in Table : parsed'[r][t] <= oid'
                    /\ \A x \in Proc, t \in Table : pc'[x] \in {"class", "binary"} => parsed'[r][t] < oid'
                    /\ prepared'[r] # NoName =>
                          /\ \A t \in Uses[prepared'[r]] : parsed'[r][t] # 0
                          /\ FileOk(prepared[r], parsed[r])'
                    /\ pc'[r] = "execute" =>
                          prepared'[r] # NoName /\ plan'[r] = prepared'[r] /\ used'[r] = parsed'[r]
  BY Zenon DEF PreparedInv
<1>4. FileOk(prepared[r], parsed[r])' <=> FileOk(prepared[r], parsed[r])
  BY <1>1, Zenon DEF FileOk
<1>5. QED
  BY <1>1, <1>2, <1>4, ZenonT(40) DEF PreparedInv

\* Nothing is prepared at first.
LEMMA InitPrepared == Init => PreparedInv
<1> SUFFICES ASSUME Init PROVE PreparedInv
  BY Zenon
<1>1. \A p \in Proc : pc[p] = "idle" /\ prepared[p] = NoName /\ parsed[p] = None
  BY Zenon DEF Init
<1>2. oid = 0 /\ \A t \in Table : None[t] = 0
  BY NoneIsOids, Zenon DEF Init
<1>3. \A p \in Proc, t \in Table : parsed[p][t] <= oid
  BY <1>1, <1>2
<1>4. QED
  BY <1>1, <1>3, Zenon DEF PreparedInv

\* Most steps touch neither a file nor a definition.
LEMMA OtherPrepared ==
    ASSUME PlanInv, NEW p \in Proc,
           \/ \E t \in Table : FindTable(p, t) \/ UnknownTable(p, t) \/ LinkTable(p, t)
           \/ Parsed(p) \/ CheckPlan(p) \/ LockFile(p) \/ TimeoutFile(p) \/ RecheckPlan(p)
           \/ EmitError(p) \/ KillMetadata(p) \/ StoreOutputKey(p) \/ RunPlan(p) \/ FinishExecute(p)
           \/ \E q \in Plan : StartQuery(p, q)
           \/ \E t \in Table : StartDrop(p, t) \/ StartCreate(p, t) \/ DDLError(p, t)
           \/ DropRow(p) \/ DiscardKey(p) \/ Unlink(p) \/ CreateClassOid(p)
    PROVE  PreparedStay(p)
<1> USE DEF PreparedStay, Goto, Done, Return, Stay, schemaVars, planVars, envVars
<1>1. /\ pc \in [Proc -> QueryPCs \cup DDLPCs \cup {"idle", "execute"}]
      /\ plan \in [Proc -> Plan \cup {NoName}] /\ used \in [Proc -> Oids]
  BY Zenon DEF PlanInv, TypeOK
<1>2. CASE \E t \in Table : FindTable(p, t) \/ UnknownTable(p, t) \/ LinkTable(p, t)
  BY <1>1, <1>2, ZenonT(40) DEF FindTable, UnknownTable, LinkTable
<1>3. CASE Parsed(p) \/ CheckPlan(p) \/ LockFile(p) \/ TimeoutFile(p) \/ RecheckPlan(p)
  BY <1>1, <1>3, ZenonT(40) DEF Parsed, CheckPlan, LockFile, TimeoutFile, RecheckPlan
<1>4. CASE EmitError(p) \/ KillMetadata(p) \/ StoreOutputKey(p) \/ RunPlan(p) \/ FinishExecute(p)
  BY <1>1, <1>4, ZenonT(40) DEF EmitError, KillMetadata, StoreOutputKey, RunPlan, FinishExecute
<1>5. CASE \E q \in Plan : StartQuery(p, q)
  BY <1>1, <1>5, ZenonT(30) DEF StartQuery
<1>6. CASE \E t \in Table : StartDrop(p, t) \/ StartCreate(p, t)
  BY <1>1, <1>6, ZenonT(40) DEF StartDrop, StartCreate
<1>7. CASE \E t \in Table : DDLError(p, t)
  BY <1>1, <1>7, ZenonT(40) DEF DDLError
<1>8. CASE DropRow(p) \/ DiscardKey(p) \/ Unlink(p) \/ CreateClassOid(p)
  BY <1>1, <1>8, ZenonT(40) DEF DropRow, DiscardKey, Unlink, CreateClassOid
<1>9. QED
  BY <1>2, <1>3, <1>4, <1>5, <1>6, <1>7, <1>8, ZenonT(30)

\* A step that leaves the definitions and the prepared plans alone, and the files but
\* one, which is erased or compiled from the current definitions.
LEMMA FilePrepared ==
    ASSUME PlanInv, PreparedInv, NEW p \in Proc,
           EmitFile(p) \/ \E q \in Plan : DiscardFile(p, q)
    PROVE  PreparedInv'
<1>1. TypeOK
  BY Zenon DEF PlanInv
<1>2. /\ UNCHANGED <<oid, binary, prepared, parsed, used>>
      /\ \A r \in Proc \ {p} : pc'[r] = pc[r] /\ plan'[r] = plan[r]
      /\ pc'[p] \in {"kill", "unkey"}
  BY <1>1, ZenonT(30) DEF EmitFile, DiscardFile, Goto, Stay, envVars, schemaVars, TypeOK
<1>3. ASSUME NEW q \in Plan
      PROVE  file'[q] = file[q] \/ file'[q] = None \/ \A t \in Uses[q] : file'[q][t] = binary[t]
  <2>1. CASE EmitFile(p)
    <3>1. \A t \in Uses[plan[p]] : used[p][t] = binary[t]
      BY <2>1, AllFound, Zenon DEF EmitFile, QueryPCs
    <3>2. file' = [file EXCEPT ![plan[p]] = used[p]]
      BY <2>1, Zenon DEF EmitFile
    <3> QED
      BY <1>1, <3>1, <3>2, Zenon DEF TypeOK
  <2>2. CASE \E x \in Plan : DiscardFile(p, x)
    <3>1. PICK x \in Plan : file' = [file EXCEPT ![x] = None]
      BY <2>2, Zenon DEF DiscardFile
    <3> QED
      BY <1>1, <3>1, Zenon DEF TypeOK
  <2> QED
    BY <2>1, <2>2, Zenon
<1>4. \A r \in Proc : prepared[r] # NoName => prepared[r] \in Plan
  BY <1>1, Zenon DEF TypeOK
<1>5. ASSUME NEW r \in Proc, prepared'[r] # NoName PROVE FileOk(prepared[r], parsed[r])'
  <2>1. prepared[r] \in Plan /\ FileOk(prepared[r], parsed[r])
    BY <1>2, <1>4, <1>5, Zenon DEF PreparedInv
  <2>2. prepared'[r] = prepared[r] /\ parsed'[r] = parsed[r] /\ binary' = binary
    BY <1>2, Zenon
  <2> QED
    BY <1>3, <2>1, <2>2, Zenon DEF FileOk
<1>6. /\ \A r \in Proc : pc'[r] \in {"class", "binary"} => pc[r] \in {"class", "binary"}
      /\ \A r \in Proc : pc'[r] = "execute" => pc[r] = "execute" /\ plan'[r] = plan[r]
  BY <1>2, Zenon
<1>7. QED
  BY <1>2, <1>5, <1>6, ZenonT(40) DEF PreparedInv

\* What a definition that goes, or that gets a new OID, says of a prepared plan.
LEMMA ChangedTable ==
    ASSUME TypeOK, PreparedInv, NEW r \in Proc, NEW x \in Table,
           UNCHANGED <<file, prepared, parsed>>,
           \A t \in Table \ {x} : binary'[t] = binary[t],
           binary'[x] = 0 \/ binary'[x] # parsed[r][x],
           prepared[r] # NoName
    PROVE  FileOk(prepared[r], parsed[r])'
<1>1. prepared[r] \in Plan
  BY Zenon DEF TypeOK
<1>2. /\ Uses[prepared[r]] \subseteq Table
      /\ \A t \in Uses[prepared[r]] : parsed[r][t] # 0
      /\ FileOk(prepared[r], parsed[r])
  BY <1>1, PlanAssumption, Zenon DEF PreparedInv
<1>3. CASE x \in Uses[prepared[r]]
  BY <1>2, <1>3, Zenon DEF FileOk
<1>4. CASE x \notin Uses[prepared[r]]
  <2>1. \A t \in Uses[prepared[r]] : binary'[t] = binary[t]
    BY <1>2, <1>4, Zenon
  <2> QED
    BY <1>2, <2>1, Zenon DEF FileOk
<1>5. QED
  BY <1>3, <1>4, Zenon

\* A table that is dropped has no definition; one that is created gets an OID that no
\* Parse has found.
LEMMA TablePrepared ==
    ASSUME PlanInv, PreparedInv, NEW p \in Proc, DropTable(p) \/ CreateBinary(p)
    PROVE  PreparedInv'
<1>1. TypeOK /\ table[p] \in Table /\ pc[p] \in {"drop", "binary"}
  BY Zenon DEF PlanInv, Working, DDLPCs, DropTable, CreateBinary
<1>2. /\ UNCHANGED <<oid, file, prepared, parsed>>
      /\ \A r \in Proc \ {p} : pc'[r] = pc[r] /\ plan'[r] = plan[r] /\ used'[r] = used[r]
      /\ pc'[p] = "idle"
      /\ \A t \in Table \ {table[p]} : binary'[t] = binary[t]
  BY <1>1, ZenonT(40) DEF DropTable, CreateBinary, Goto, Done, Return, planVars, TypeOK, Oids
<1>3. ASSUME NEW r \in Proc
      PROVE  binary'[table[p]] = 0 \/ binary'[table[p]] # parsed[r][table[p]]
  <2>1. CASE DropTable(p)
    BY <1>1, <2>1, Zenon DEF DropTable, TypeOK, Oids
  <2>2. CASE CreateBinary(p)
    <3>1. pc[p] = "binary" /\ binary'[table[p]] = oid
      BY <1>1, <2>2, ZenonT(30) DEF CreateBinary, TypeOK, Oids, PlanInv, CreateOk
    <3>2. parsed[r][table[p]] < oid
      BY <1>1, <3>1, Zenon DEF PreparedInv
    <3>3. oid \in Nat
      BY <1>1, BoundAssumption, SMTT(30) DEF TypeOK
    <3> QED
      BY <3>1, <3>2, <3>3, SMTT(30)
  <2> QED
    BY <2>1, <2>2, Zenon
<1>4. ASSUME NEW r \in Proc, prepared'[r] # NoName PROVE FileOk(prepared[r], parsed[r])'
  BY <1>1, <1>2, <1>3, <1>4, ChangedTable, Zenon
<1>5. /\ \A r \in Proc : pc'[r] \in {"class", "binary"} => pc[r] \in {"class", "binary"}
      /\ \A r \in Proc : pc'[r] = "execute" =>
            pc[r] = "execute" /\ plan'[r] = plan[r] /\ used'[r] = used[r]
  BY <1>2, Zenon
<1>6. QED
  BY <1>2, <1>4, <1>5, ZenonT(40) DEF PreparedInv

\* An OID that is handed out is greater than all that have been found.
LEMMA RowPrepared ==
    ASSUME PlanInv, PreparedInv, NEW p \in Proc, CreateRow(p)
    PROVE  PreparedInv'
<1>1. TypeOK
  BY Zenon DEF PlanInv
<1>2. /\ UNCHANGED <<binary, file, prepared, parsed, plan>> /\ oid' = oid + 1
      /\ \A r \in Proc \ {p} : pc'[r] = pc[r] /\ used'[r] = used[r]
      /\ pc'[p] = "class"
  BY <1>1, ZenonT(40) DEF CreateRow, Goto, planVars, envVars, TypeOK
<1>3. \A r \in Proc, t \in Table : parsed'[r][t] <= oid' /\ parsed'[r][t] < oid'
  <2> SUFFICES ASSUME NEW r \in Proc, NEW t \in Table PROVE parsed[r][t] <= oid + 1 /\ parsed[r][t] < oid + 1
    BY <1>2, Zenon
  <2>1. parsed[r][t] \in 0 .. MaxOid /\ oid \in 0 .. MaxOid
    BY <1>1, Zenon DEF TypeOK, Oids
  <2>2. parsed[r][t] <= oid
    BY Zenon DEF PreparedInv
  <2> QED
    BY <2>1, <2>2, BoundAssumption, SMTT(30)
<1>4. ASSUME NEW r \in Proc, prepared'[r] # NoName PROVE FileOk(prepared[r], parsed[r])'
  <2>1. FileOk(prepared[r], parsed[r])
    BY <1>2, <1>4, Zenon DEF PreparedInv
  <2> QED
    BY <1>2, <2>1, Zenon DEF FileOk
<1>5. \A r \in Proc : pc'[r] = "execute" => pc[r] = "execute" /\ used'[r] = used[r]
  BY <1>2, Zenon
<1>6. QED
  BY <1>2, <1>3, <1>4, <1>5, ZenonT(40) DEF PreparedInv

\* A Parse prepares an up to date plan.
LEMMA PreparePrepared ==
    ASSUME PlanInv, PreparedInv, NEW p \in Proc, Prepare(p)
    PROVE  PreparedInv'
<1>1. TypeOK /\ pc[p] = "run"
  BY Zenon DEF PlanInv, Prepare
<1>2. /\ UNCHANGED <<oid, binary, file>>
      /\ \A r \in Proc \ {p} : /\ pc'[r] = pc[r] /\ plan'[r] = plan[r] /\ used'[r] = used[r]
                               /\ prepared'[r] = prepared[r] /\ parsed'[r] = parsed[r]
      /\ pc'[p] = "idle" /\ prepared'[p] = plan[p] /\ parsed'[p] = used[p]
  BY <1>1, ZenonT(40) DEF Prepare, Goto, Return, schemaVars, planVars, TypeOK
<1>3. \A r \in Proc : pc[r] \notin {"class", "binary"}
  BY <1>1, Zenon DEF PlanInv, Exclusive, DDLPCs
<1>4. /\ \A t \in Uses[plan[p]] : used[p][t] # 0 /\ file[plan[p]][t] = binary[t]
      /\ plan[p] \in Plan
  <2>1. plan[p] \in Plan /\ \A t \in Uses[plan[p]] : used[p][t] # 0
    BY <1>1, AllFound, ZenonT(30) DEF QueryPCs
  <2>2. \A t \in Uses[plan[p]] : file[plan[p]][t] = binary[t]
    BY <1>1, Zenon DEF PlanInv, EmitOk
  <2> QED
    BY <2>1, <2>2, Zenon
<1>5. \A t \in Table : used[p][t] <= oid
  <2> SUFFICES ASSUME NEW t \in Table PROVE used[p][t] <= oid
    BY Zenon
  <2>1. used[p][t] = 0 \/ used[p][t] = binary[t]
    BY <1>1, Zenon DEF PlanInv, FoundOk, QueryPCs
  <2>2. oid \in 0 .. MaxOid /\ binary[t] <= oid
    BY <1>1, Zenon DEF TypeOK, PlanInv, OidsIssued
  <2> QED
    BY <2>1, <2>2, BoundAssumption, SMTT(30)
<1>6. ASSUME NEW r \in Proc, prepared'[r] # NoName PROVE FileOk(prepared[r], parsed[r])'
  <2>1. CASE r = p
    BY <1>2, <1>4, <2>1, Zenon DEF FileOk
  <2>2. CASE r # p
    <3>1. FileOk(prepared[r], parsed[r])
      BY <1>2, <1>6, <2>2, Zenon DEF PreparedInv
    <3> QED
      BY <1>2, <2>2, <3>1, Zenon DEF FileOk
  <2> QED
    BY <2>1, <2>2, Zenon
<1>7. ASSUME NEW r \in Proc
      PROVE  /\ \A t \in Table : parsed'[r][t] <= oid'
             /\ \A x \in Proc : pc'[x] \notin {"class", "binary"}
             /\ prepared'[r] # NoName => \A t \in Uses[prepared'[r]] : parsed'[r][t] # 0
             /\ pc'[r] = "execute" =>
                   prepared'[r] # NoName /\ plan'[r] = prepared'[r] /\ used'[r] = parsed'[r]
  <2>1. CASE r = p
    BY <1>2, <1>3, <1>4, <1>5, <2>1, ZenonT(30)
  <2>2. CASE r # p
    BY <1>2, <1>3, <2>2, ZenonT(30) DEF PreparedInv
  <2> QED
    BY <2>1, <2>2, Zenon
<1>8. QED
  BY <1>6, <1>7, Zenon DEF PreparedInv

\* An Execute takes what the Parse has kept.
LEMMA ExecutePrepared ==
    ASSUME PlanInv, PreparedInv, NEW p \in Proc, Execute(p)
    PROVE  PreparedInv'
<1>1. TypeOK
  BY Zenon DEF PlanInv
<1>2. /\ UNCHANGED <<oid, binary, file, prepared, parsed>>
      /\ \A r \in Proc \ {p} : pc'[r] = pc[r] /\ plan'[r] = plan[r] /\ used'[r] = used[r]
      /\ pc'[p] = "execute" /\ plan'[p] = prepared[p] /\ used'[p] = parsed[p] /\ prepared[p] # NoName
  BY <1>1, ZenonT(40) DEF Execute, Goto, schemaVars, planVars, envVars, TypeOK
<1>3. ASSUME NEW r \in Proc, prepared'[r] # NoName PROVE FileOk(prepared[r], parsed[r])'
  <2>1. FileOk(prepared[r], parsed[r])
    BY <1>2, <1>3, Zenon DEF PreparedInv
  <2> QED
    BY <1>2, <2>1, Zenon DEF FileOk
<1>4. /\ \A r \in Proc : pc'[r] \in {"class", "binary"} => pc[r] \in {"class", "binary"}
      /\ \A r \in Proc : pc'[r] = "execute" =>
            prepared[r] # NoName /\ plan'[r] = prepared[r] /\ used'[r] = parsed[r]
  BY <1>2, ZenonT(30) DEF PreparedInv
<1>5. QED
  BY <1>2, <1>3, <1>4, ZenonT(40) DEF PreparedInv

\* With a process its prepared plan is gone.
LEMMA CrashPrepared ==
    ASSUME PlanInv, PreparedInv, NEW p \in Proc, Crash(p)
    PROVE  PreparedInv'
<1>1. TypeOK
  BY Zenon DEF PlanInv
<1>2. /\ UNCHANGED <<oid, binary, file>>
      /\ \A r \in Proc \ {p} : /\ pc'[r] = pc[r] /\ plan'[r] = plan[r] /\ used'[r] = used[r]
                               /\ prepared'[r] = prepared[r] /\ parsed'[r] = parsed[r]
      /\ pc'[p] = "idle" /\ prepared'[p] = NoName /\ parsed'[p] = None
  BY <1>1, ZenonT(40) DEF Crash, Goto, schemaVars, planVars, TypeOK
<1>3. ASSUME NEW r \in Proc, prepared'[r] # NoName PROVE FileOk(prepared[r], parsed[r])'
  <2>1. r # p /\ FileOk(prepared[r], parsed[r])
    BY <1>2, <1>3, Zenon DEF PreparedInv
  <2> QED
    BY <1>2, <2>1, Zenon DEF FileOk
<1>4. ASSUME NEW t \in Table
      PROVE  /\ None[t] <= oid
             /\ \A x \in Proc : pc'[x] \in {"class", "binary"} => None[t] < oid
  <2>1. None[t] = 0 /\ oid \in 0 .. MaxOid /\ parsed[p][t] \in 0 .. MaxOid
    BY <1>1, NoneIsOids, Zenon DEF TypeOK, Oids
  <2>2. \A x \in Proc : pc'[x] \in {"class", "binary"} => parsed[p][t] < oid
    BY <1>2, Zenon DEF PreparedInv
  <2> QED
    BY <2>1, <2>2, BoundAssumption, SMTT(30)
<1>5. ASSUME NEW r \in Proc
      PROVE  /\ \A t \in Table : parsed'[r][t] <= oid'
             /\ \A x \in Proc, t \in Table : pc'[x] \in {"class", "binary"} => parsed'[r][t] < oid'
             /\ prepared'[r] # NoName => \A t \in Uses[prepared'[r]] : parsed'[r][t] # 0
             /\ pc'[r] = "execute" =>
                   prepared'[r] # NoName /\ plan'[r] = prepared'[r] /\ used'[r] = parsed'[r]
  <2>1. CASE r = p
    BY <1>2, <1>4, <2>1, ZenonT(30)
  <2>2. CASE r # p
    BY <1>2, <2>2, ZenonT(40) DEF PreparedInv
  <2> QED
    BY <2>1, <2>2, Zenon
<1>6. QED
  BY <1>3, <1>5, Zenon DEF PreparedInv

LEMMA NextPrepared ==
    ASSUME PlanInv, PreparedInv, cancels' = 0, [Next]_vars
    PROVE  PreparedInv'
<1>1. ASSUME NEW p \in Proc PROVE ~CancelEmit(p) /\ ~CancelDiscard(p)
  BY BoundAssumption, SMTT(30) DEF PlanInv, TypeOK, CancelEmit, CancelDiscard
<1>2. ASSUME NEW p \in Proc, Step(p) PROVE PreparedInv'
  <2>1. PreparedStay(p) \/ PreparedInv'
    BY <1>1, <1>2, OtherPrepared, FilePrepared, TablePrepared, RowPrepared, PreparePrepared,
       ZenonT(40) DEF Step
  <2> QED
    BY <2>1, PreparedStayInv, Zenon
<1>3. ASSUME NEW p \in Proc,
             \/ \E q \in Plan : StartQuery(p, q)
             \/ \E t \in Table : StartDrop(p, t) \/ StartCreate(p, t) \/ DDLError(p, t)
      PROVE  PreparedInv'
  <2>1. PreparedStay(p)
    BY <1>3, OtherPrepared, ZenonT(30)
  <2> QED
    BY <2>1, PreparedStayInv, Zenon
<1>4. ASSUME UNCHANGED vars PROVE PreparedInv'
  <2>1. UNCHANGED <<oid, binary, file, pc, plan, used, prepared, parsed>>
    BY <1>4, Zenon DEF vars, schemaVars, planVars, envVars
  <2> QED
    BY <2>1, ZenonT(30) DEF PreparedInv, FileOk
<1>5. QED
  BY <1>2, <1>3, <1>4, ExecutePrepared, CrashPrepared, ZenonT(30) DEF Next

\* A query never runs, nor prepares, a plan compiled from a definition that is gone,
\* wherever processes died before it (the order of the steps in emit_sql_statement and
\* emit_physical_or_xref_plan, and of those in discardPlan); and while no table has been
\* dropped since the Parse, an Execute does not either.
THEOREM FreshPlans == Spec => []PlanFresh
<1> DEFINE Inv == cancels \in Nat /\ (cancels = 0 => PlanInv /\ PreparedInv)
<1>1. Init => Inv
  <2>1. Init => PlanInv /\ PreparedInv
    BY InitPlanInv, InitPrepared, Zenon
  <2>2. Init => cancels \in Nat
    BY DEF Init
  <2> QED
    BY <2>1, <2>2, Zenon
<1>2. Inv /\ [Next]_vars => Inv'
  BY NextPlanInv, NextPrepared, CancelsStay, ZenonT(30)
<1>3. Inv => PlanFresh
  <2> SUFFICES ASSUME PlanInv, PreparedInv, NEW p \in Proc
               PROVE  /\ Querying(p) /\ pc[p] = "run" =>
                            /\ file[plan[p]] # None
                            /\ \A t \in Uses[plan[p]] : file[plan[p]][t] = binary[t]
                      /\ /\ pc[p] = "execute" /\ file[plan[p]] # None
                         /\ \A t \in Uses[plan[p]] : used[p][t] = binary[t]
                         => \A t \in Uses[plan[p]] : file[plan[p]][t] = binary[t]
    BY Zenon DEF PlanFresh
  <2>1. Querying(p) /\ pc[p] = "run" =>
            /\ file[plan[p]] # None
            /\ \A t \in Uses[plan[p]] : file[plan[p]][t] = binary[t]
    BY Zenon DEF PlanInv, EmitOk, Querying
  <2>2. pc[p] = "execute" => plan[p] = prepared[p] /\ used[p] = parsed[p] /\ FileOk(prepared[p], parsed[p])
    BY Zenon DEF PreparedInv
  <2> QED
    BY <2>1, <2>2, Zenon DEF FileOk
<1>4. QED
  BY <1>1, <1>2, <1>3, PTL DEF Spec

-----------------------------------------------------------------------------
\* What processes that die leave behind in the plan cache and in pg_class: each
\* leaves at most one row without a definition, and without crashes every plan
\* that is about to run has its output key.

\* Rows of pg_class that no complete definition, and no CREATE TABLE that runs,
\* refers to: the orphans, and those that are one CREATE TABLE from it.
StrayRows ==
    {o \in rows :
        /\ \A t \in Table : classOid[t] = o =>
              binary[t] = 0 /\ \A p \in Proc : ~(pc[p] = "binary" /\ table[p] = t)
        /\ \A p \in Proc : ~(pc[p] = "class" /\ used[p][table[p]] = o)}

\* A DROP TABLE has erased the row before it erases the definition.
RowsInv ==
    /\ Cardinality(StrayRows) <= crashes
    /\ \A p \in Proc : pc[p] \in {"discard", "unkey", "drop"} => classOid[table[p]] \notin rows

\* While nobody has died: an output key has its file, but between the two steps of
\* discardPlan; who emits a plan has found no output key; who runs one has.
KeysInv ==
    crashes = 0 =>
        /\ \A q \in Plan : outputKey[q] # None =>
              file[q] # None \/ \E p \in Proc : pc[p] = "unkey" /\ plan[p] = q
        /\ \A p \in Proc :
              /\ pc[p] \in {"emit", "kill", "link"} => outputKey[plan[p]] = None
              /\ pc[p] = "run" => outputKey[plan[p]] # None

\* Only p moves, and neither from nor to the last two steps of a CREATE TABLE; the
\* rows and the definitions stay.
RowsStay(p) ==
    /\ UNCHANGED <<rows, classOid, binary, crashes>>
    /\ \A r \in Proc \ {p} : pc'[r] = pc[r] /\ table'[r] = table[r] /\ used'[r] = used[r]
    /\ pc[p] \notin {"class", "binary"} /\ pc'[p] \notin {"class", "binary"}
    /\ pc'[p] \in {"discard", "unkey", "drop"} =>
          pc[p] \in {"discard", "unkey", "drop"} /\ table'[p] = table[p]

\* Only p moves, and not to a place that says something of the output key.
KeysStay(p) ==
    /\ UNCHANGED <<file, outputKey, crashes>>
    /\ \A r \in Proc \ {p} : pc'[r] = pc[r] /\ plan'[r] = plan[r]
    /\ pc[p] # "unkey"
    /\ pc'[p] \in {"emit", "kill", "link", "run"} => pc'[p] = pc[p] /\ plan'[p] = plan[p]

LEMMA RowsStayInv ==
    ASSUME NEW p \in Proc, RowsStay(p), RowsInv
    PROVE  RowsInv'
<1>1. UNCHANGED <<rows, classOid, binary, crashes>>
  BY Zenon DEF RowsStay
<1>2. /\ \A r \in Proc : (pc'[r] = "class" <=> pc[r] = "class") /\ (pc'[r] = "binary" <=> pc[r] = "binary")
      /\ \A r \in Proc : pc[r] \in {"class", "binary"} => table'[r] = table[r] /\ used'[r] = used[r]
  BY Zenon DEF RowsStay
<1>3. StrayRows' \subseteq StrayRows
  <2> SUFFICES ASSUME NEW o \in StrayRows' PROVE o \in StrayRows
    BY Zenon
  <2>1. /\ o \in rows'
        /\ \A t \in Table : classOid'[t] = o => binary'[t] = 0
        /\ \A t \in Table, q \in Proc : classOid'[t] = o => ~(pc'[q] = "binary" /\ table'[q] = t)
        /\ \A q \in Proc : ~(pc'[q] = "class" /\ used'[q][table'[q]] = o)
    BY Zenon DEF StrayRows
  <2>2. o \in rows /\ \A t \in Table : classOid[t] = o => binary[t] = 0
    BY <1>1, <2>1, Zenon
  <2>3. ASSUME NEW t \in Table, NEW q \in Proc, classOid[t] = o
        PROVE  ~(pc[q] = "binary" /\ table[q] = t)
    BY <1>1, <1>2, <2>1, <2>3, Zenon
  <2>4. ASSUME NEW q \in Proc
        PROVE  ~(pc[q] = "class" /\ used[q][table[q]] = o)
    BY <1>1, <1>2, <2>1, Zenon
  <2> QED
    BY <2>2, <2>3, <2>4, Zenon DEF StrayRows
<1>4. StrayRows \subseteq StrayRows'
  <2> SUFFICES ASSUME NEW o \in StrayRows PROVE o \in StrayRows'
    BY Zenon
  <2>1. /\ o \in rows
        /\ \A t \in Table : classOid[t] = o => binary[t] = 0
        /\ \A t \in Table, q \in Proc : classOid[t] = o => ~(pc[q] = "binary" /\ table[q] = t)
        /\ \A q \in Proc : ~(pc[q] = "class" /\ used[q][table[q]] = o)
    BY Zenon DEF StrayRows
  <2>2. o \in rows' /\ \A t \in Table : classOid'[t] = o => binary'[t] = 0
    BY <1>1, <2>1, Zenon
  <2>3. ASSUME NEW t \in Table, NEW q \in Proc, classOid'[t] = o
        PROVE  ~(pc'[q] = "binary" /\ table'[q] = t)
    BY <1>1, <1>2, <2>1, <2>3, Zenon
  <2>4. ASSUME NEW q \in Proc
        PROVE  ~(pc'[q] = "class" /\ used'[q][table'[q]] = o)
    BY <1>1, <1>2, <2>1, Zenon
  <2> QED
    BY <2>2, <2>3, <2>4, Zenon DEF StrayRows
<1>5. StrayRows' = StrayRows
  BY <1>3, <1>4, Zenon
<1>6. \A r \in Proc : pc'[r] \in {"discard", "unkey", "drop"} =>
        pc[r] \in {"discard", "unkey", "drop"} /\ table'[r] = table[r]
  BY Zenon DEF RowsStay
<1>7. QED
  BY <1>1, <1>5, <1>6, Zenon DEF RowsInv

LEMMA KeysStayInv ==
    ASSUME NEW p \in Proc, KeysStay(p), KeysInv
    PROVE  KeysInv'
<1>1. UNCHANGED <<file, outputKey, crashes>>
  BY Zenon DEF KeysStay
<1>2. \A r \in Proc : pc[r] = "unkey" => pc'[r] = "unkey" /\ plan'[r] = plan[r]
  BY Zenon DEF KeysStay
<1>3. \A r \in Proc : pc'[r] \in {"emit", "kill", "link", "run"} => pc'[r] = pc[r] /\ plan'[r] = plan[r]
  BY Zenon DEF KeysStay
<1>4. ASSUME crashes' = 0, NEW q \in Plan, outputKey'[q] # None
      PROVE  file'[q] # None \/ \E r \in Proc : pc'[r] = "unkey" /\ plan'[r] = q
  <2>1. file[q] # None \/ \E r \in Proc : pc[r] = "unkey" /\ plan[r] = q
    BY <1>1, <1>4, Zenon DEF KeysInv
  <2> QED
    BY <1>1, <1>2, <2>1, Zenon
<1>5. ASSUME crashes' = 0, NEW r \in Proc
      PROVE  /\ pc'[r] \in {"emit", "kill", "link"} => outputKey'[plan'[r]] = None
             /\ pc'[r] = "run" => outputKey'[plan'[r]] # None
  <2>1. /\ pc[r] \in {"emit", "kill", "link"} => outputKey[plan[r]] = None
        /\ pc[r] = "run" => outputKey[plan[r]] # None
    BY <1>1, <1>5, Zenon DEF KeysInv
  <2> QED
    BY <1>1, <1>3, <2>1, Zenon
<1>6. QED
  BY <1>4, <1>5, Zenon DEF KeysInv

\* Strays are rows that were handed out.
LEMMA StraysFinite ==
    ASSUME TypeOK
    PROVE  IsFiniteSet(StrayRows) /\ Cardinality(StrayRows) \in Nat
<1>1. IsFiniteSet(1 .. MaxOid)
  BY BoundAssumption, FS_Interval
<1>2. StrayRows \subseteq 1 .. MaxOid
  BY ZenonT(30) DEF StrayRows, TypeOK
<1>3. QED
  BY <1>1, <1>2, FS_Subset, FS_CardinalityType, Zenon

\* A step by which no row goes astray.
LEMMA NoneAstray ==
    ASSUME TypeOK, RowsInv, StrayRows' \subseteq StrayRows, crashes' = crashes
    PROVE  (Cardinality(StrayRows) <= crashes)'
<1>1. IsFiniteSet(StrayRows) /\ Cardinality(StrayRows) \in Nat
  BY StraysFinite, Zenon
<1>2. Cardinality(StrayRows') <= Cardinality(StrayRows) /\ Cardinality(StrayRows') \in Nat
  BY <1>1, FS_Subset, FS_CardinalityType, Zenon
<1>3. QED
  BY <1>1, <1>2 DEF RowsInv, TypeOK

\* The steps of a query, and the start of a statement, leave the rows alone.
LEMMA QueryRows ==
    ASSUME PlanInv, NEW p \in Proc,
           \/ \E t \in Table : FindTable(p, t) \/ UnknownTable(p, t) \/ LinkTable(p, t)
           \/ Parsed(p) \/ CheckPlan(p) \/ LockFile(p) \/ TimeoutFile(p) \/ RecheckPlan(p)
           \/ EmitError(p) \/ EmitFile(p) \/ KillMetadata(p) \/ StoreOutputKey(p) \/ RunPlan(p)
           \/ Prepare(p) \/ Execute(p) \/ FinishExecute(p)
           \/ \E q \in Plan : StartQuery(p, q)
           \/ \E t \in Table : StartDrop(p, t) \/ StartCreate(p, t) \/ DDLError(p, t)
           \/ (\E q \in Plan : DiscardFile(p, q)) \/ DiscardKey(p) \/ Unlink(p)
    PROVE  RowsStay(p)
<1> USE DEF RowsStay, Goto, Done, Return, Stay, schemaVars, envVars
<1>1. /\ pc \in [Proc -> QueryPCs \cup DDLPCs \cup {"idle", "execute"}]
      /\ table \in [Proc -> Table \cup {NoName}] /\ used \in [Proc -> Oids]
  BY Zenon DEF PlanInv, TypeOK
<1>2. CASE \E t \in Table : FindTable(p, t) \/ UnknownTable(p, t) \/ LinkTable(p, t)
  BY <1>1, <1>2, ZenonT(30) DEF FindTable, UnknownTable, LinkTable
<1>3. CASE Parsed(p) \/ CheckPlan(p) \/ LockFile(p) \/ TimeoutFile(p) \/ RecheckPlan(p)
  BY <1>1, <1>3, ZenonT(30) DEF Parsed, CheckPlan, LockFile, TimeoutFile, RecheckPlan
<1>4. CASE EmitError(p) \/ EmitFile(p) \/ KillMetadata(p) \/ StoreOutputKey(p) \/ RunPlan(p)
  BY <1>1, <1>4, ZenonT(30) DEF EmitError, EmitFile, KillMetadata, StoreOutputKey, RunPlan
<1>5. CASE \E q \in Plan : StartQuery(p, q)
  BY <1>1, <1>5, Zenon DEF StartQuery
<1>6. CASE \E t \in Table : StartDrop(p, t) \/ StartCreate(p, t) \/ DDLError(p, t)
  BY <1>1, <1>6, ZenonT(30) DEF StartDrop, StartCreate, DDLError
<1>7. CASE (\E q \in Plan : DiscardFile(p, q)) \/ DiscardKey(p) \/ Unlink(p)
  BY <1>1, <1>7, Zenon DEF DiscardFile, DiscardKey, Unlink
<1>8. CASE Prepare(p) \/ Execute(p) \/ FinishExecute(p)
  BY <1>1, <1>8, ZenonT(30) DEF Prepare, Execute, FinishExecute
<1>9. QED
  BY <1>2, <1>3, <1>4, <1>5, <1>6, <1>7, <1>8, ZenonT(30)

\* The steps of CREATE TABLE and DROP TABLE that change rows and definitions lead
\* no row astray.
LEMMA DDLRows ==
    ASSUME PlanInv, RowsInv, NEW p \in Proc,
           DropRow(p) \/ DropTable(p) \/ CreateRow(p) \/ CreateClassOid(p) \/ CreateBinary(p)
    PROVE  RowsInv'
<1> USE DEF Goto, Done, Return, Stay, envVars
<1>1. TypeOK
  BY Zenon DEF PlanInv
<1>2. /\ pc[p] \in DDLPCs /\ table[p] \in Table /\ pc'[p] \notin {"unkey", "drop"} /\ crashes' = crashes
      /\ pc'[p] = "discard" => DropRow(p)
  BY <1>1, ZenonT(30) DEF PlanInv, TypeOK, Working, DDLPCs, DropRow, DropTable, CreateRow, CreateClassOid, CreateBinary
<1>3. \A r \in Proc \ {p} : pc[r] \in {"idle", "execute"} /\ pc'[r] = pc[r]
  BY <1>1, <1>2, DDLAlone, ZenonT(30) DEF TypeOK, DropRow, DropTable, CreateRow, CreateClassOid, CreateBinary
<1>4. StrayRows' \subseteq StrayRows
  <2> SUFFICES ASSUME NEW o \in StrayRows', o \notin StrayRows PROVE FALSE
    BY Zenon
  <2>1. CASE DropRow(p)
    BY <1>1, <1>2, <1>3, <2>1, ZenonT(30) DEF DropRow, StrayRows, TypeOK
  <2>2. CASE DropTable(p)
    <3>1. classOid[table[p]] \notin rows
      BY <2>2 DEF DropTable, RowsInv
    <3>2. /\ pc[p] = "drop" /\ pc'[p] = "idle" /\ rows' = rows
          /\ \A t \in Table \ {table[p]} : classOid'[t] = classOid[t] /\ binary'[t] = binary[t]
      BY <1>1, <1>2, <2>2, ZenonT(30) DEF DropTable, TypeOK, Oids
    <3>3. o \in rows /\ \A r \in Proc : pc[r] # "class" /\ pc[r] # "binary"
      BY <1>3, <3>2, Zenon DEF StrayRows
    <3>4. PICK t \in Table : classOid[t] = o /\ binary[t] # 0
      BY <3>3, Zenon DEF StrayRows
    <3>5. t # table[p] /\ classOid'[t] = o /\ binary'[t] # 0
      BY <3>1, <3>2, <3>3, <3>4, ZenonT(30)
    <3> QED
      BY <3>5, Zenon DEF StrayRows
  <2>3. CASE CreateRow(p)
    <3>1. used'[p][table[p]] = oid + 1 /\ table' = table /\ pc'[p] = "class" /\ pc[p] = "row"
      BY <1>1, <1>2, <2>3, ZenonT(30) DEF CreateRow, TypeOK, Oids
    <3> QED
      BY <1>1, <1>2, <1>3, <2>3, <3>1, SMTT(30) DEF CreateRow, StrayRows
  <2>4. CASE CreateClassOid(p)
    <3>1. /\ binary[table[p]] = 0 /\ pc[p] = "class" /\ pc'[p] = "binary" /\ table' = table
          /\ classOid'[table[p]] = used[p][table[p]] /\ UNCHANGED <<rows, binary, used>>
          /\ \A t \in Table \ {table[p]} : classOid'[t] = classOid[t]
      BY <1>1, <1>2, <2>4, ZenonT(30) DEF CreateClassOid, TypeOK, Oids, PlanInv, CreateOk
    <3>2. o \in rows /\ \A r \in Proc : pc[r] # "binary" /\ (pc[r] = "class" => r = p)
      BY <1>3, <3>1, Zenon DEF StrayRows
    <3>3. used[p][table[p]] # o
      <4>1. table'[p] = table[p]
        BY <3>1, Zenon
      <4>2. classOid'[table[p]] # o
        BY <1>2, <3>1, <4>1, Zenon DEF StrayRows
      <4> QED
        BY <3>1, <4>2, Zenon
    <3>4. PICK t \in Table : classOid[t] = o /\ binary[t] # 0
      BY <3>2, <3>3, Zenon DEF StrayRows
    <3>5. t # table[p] /\ classOid'[t] = o /\ binary'[t] # 0
      BY <3>1, <3>4, Zenon
    <3> QED
      BY <3>5, Zenon DEF StrayRows
  <2>5. CASE CreateBinary(p)
    <3>1. /\ pc[p] = "binary" /\ pc'[p] = "idle" /\ UNCHANGED <<rows, classOid>>
          /\ binary'[table[p]] = oid
          /\ \A t \in Table \ {table[p]} : binary'[t] = binary[t]
      BY <1>1, <1>2, <2>5, ZenonT(30) DEF CreateBinary, TypeOK, Oids, PlanInv, CreateOk
    <3>2. oid # 0
      <4>1. cache[p][table[p]] < oid
        BY <1>2, <3>1, Zenon DEF PlanInv, CreateOk
      <4>2. cache[p] \in Oids /\ oid \in 0 .. MaxOid
        BY <1>1, Zenon DEF TypeOK
      <4>3. cache[p][table[p]] \in 0 .. MaxOid
        BY <1>2, <4>2, Zenon DEF Oids
      <4> QED
        BY <4>1, <4>2, <4>3, BoundAssumption, SMTT(30)
    <3>3. o \in rows /\ \A r \in Proc : pc[r] # "class" /\ (pc[r] = "binary" => r = p)
      BY <1>3, <3>1, Zenon DEF StrayRows
    <3>4. PICK t \in Table : classOid[t] = o /\ (binary[t] # 0 \/ t = table[p])
      BY <3>3, Zenon DEF StrayRows
    <3>5. classOid'[t] = o /\ binary'[t] # 0
      BY <1>2, <3>1, <3>2, <3>4, Zenon
    <3> QED
      BY <3>5, Zenon DEF StrayRows
  <2> QED
    BY <2>1, <2>2, <2>3, <2>4, <2>5, ZenonT(30)
<1>5. (Cardinality(StrayRows) <= crashes)'
  BY <1>1, <1>2, <1>4, NoneAstray, Zenon
<1>6. pc'[p] = "discard" => classOid'[table'[p]] \notin rows'
  BY <1>2, Zenon DEF DropRow
<1>7. QED
  BY <1>2, <1>3, <1>5, <1>6, ZenonT(30) DEF RowsInv

\* A crash leads at most one row astray: the one a CREATE TABLE was about to refer to.
LEMMA CrashRows ==
    ASSUME PlanInv, RowsInv, NEW p \in Proc, Crash(p)
    PROVE  RowsInv'
<1> DEFINE o == IF pc[p] = "class" THEN used[p][table[p]] ELSE classOid[table[p]]
<1>1. TypeOK
  BY Zenon DEF PlanInv
<1>2. /\ crashes' = crashes + 1 /\ pc'[p] = "idle" /\ UNCHANGED <<rows, classOid, binary>>
      /\ \A r \in Proc \ {p} : pc'[r] = pc[r] /\ table'[r] = table[r] /\ used'[r] = used[r]
  BY <1>1, Zenon DEF Crash, TypeOK, Goto, schemaVars
<1>3. StrayRows' \subseteq StrayRows \cup {o}
  <2> SUFFICES ASSUME NEW x \in StrayRows', x # o PROVE x \in StrayRows
    BY Zenon
  <2>1. /\ x \in rows
        /\ \A t \in Table : classOid[t] = x =>
              binary[t] = 0 /\ \A r \in Proc \ {p} : ~(pc[r] = "binary" /\ table[r] = t)
        /\ \A r \in Proc \ {p} : ~(pc[r] = "class" /\ used[r][table[r]] = x)
    <3>1. /\ x \in rows'
          /\ \A t \in Table : classOid'[t] = x => binary'[t] = 0
          /\ \A t \in Table, r \in Proc : classOid'[t] = x => ~(pc'[r] = "binary" /\ table'[r] = t)
          /\ \A r \in Proc : ~(pc'[r] = "class" /\ used'[r][table'[r]] = x)
      BY Zenon DEF StrayRows
    <3>2. x \in rows /\ \A t \in Table : classOid[t] = x => binary[t] = 0
      BY <1>2, <3>1, Zenon
    <3>3. ASSUME NEW t \in Table, classOid[t] = x, NEW r \in Proc \ {p}
          PROVE  ~(pc[r] = "binary" /\ table[r] = t)
      <4>1. pc'[r] = pc[r] /\ table'[r] = table[r] /\ classOid'[t] = x
        BY <1>2, <3>3, Zenon
      <4> QED
        BY <3>1, <4>1, Zenon
    <3>4. ASSUME NEW r \in Proc \ {p} PROVE ~(pc[r] = "class" /\ used[r][table[r]] = x)
      <4>1. pc'[r] = pc[r] /\ table'[r] = table[r] /\ used'[r] = used[r]
        BY <1>2, Zenon
      <4> QED
        BY <3>1, <4>1, Zenon
    <3> QED
      BY <3>2, <3>3, <3>4, Zenon
  <2>2. pc[p] = "class" => used[p][table[p]] # x
    BY Zenon
  <2>3. pc[p] = "binary" => classOid[table[p]] # x
    BY Zenon
  <2> QED
    <3>1. \A t \in Table : classOid[t] = x => binary[t] = 0
      BY <2>1, Zenon
    <3>2. ASSUME NEW t \in Table, NEW r \in Proc, classOid[t] = x
          PROVE  ~(pc[r] = "binary" /\ table[r] = t)
      BY <2>1, <2>3, <3>2, Zenon
    <3>3. ASSUME NEW r \in Proc PROVE ~(pc[r] = "class" /\ used[r][table[r]] = x)
      BY <2>1, <2>2, Zenon
    <3> QED
      BY <2>1, <3>1, <3>2, <3>3, Zenon DEF StrayRows
<1> HIDE DEF o
<1>4. IsFiniteSet(StrayRows) /\ Cardinality(StrayRows) \in Nat
  BY <1>1, StraysFinite, Zenon
<1>5. /\ IsFiniteSet(StrayRows \cup {o})
      /\ Cardinality(StrayRows \cup {o}) \in {Cardinality(StrayRows), Cardinality(StrayRows) + 1}
  BY <1>4, FS_AddElement, Zenon
<1>6. Cardinality(StrayRows') <= Cardinality(StrayRows \cup {o}) /\ Cardinality(StrayRows') \in Nat
  BY <1>3, <1>5, FS_Subset, FS_CardinalityType, ZenonT(30)
<1>7. (Cardinality(StrayRows) <= crashes)'
  BY <1>1, <1>2, <1>4, <1>5, <1>6, SMTT(30) DEF RowsInv, TypeOK
<1>8. QED
  BY <1>2, <1>7, Zenon DEF RowsInv

\* Most steps neither touch a plan nor learn of one.
LEMMA OtherKeys ==
    ASSUME PlanInv, NEW p \in Proc,
           \/ \E t \in Table : FindTable(p, t) \/ UnknownTable(p, t) \/ LinkTable(p, t)
           \/ Parsed(p) \/ LockFile(p) \/ TimeoutFile(p) \/ EmitError(p) \/ RunPlan(p)
           \/ Prepare(p) \/ Execute(p) \/ FinishExecute(p)
           \/ \E q \in Plan : StartQuery(p, q)
           \/ \E t \in Table : StartDrop(p, t) \/ StartCreate(p, t) \/ DDLError(p, t)
           \/ DropRow(p) \/ Unlink(p) \/ DropTable(p)
           \/ CreateRow(p) \/ CreateClassOid(p) \/ CreateBinary(p)
    PROVE  KeysStay(p)
<1> USE DEF KeysStay, Goto, Done, Return, Stay, planVars, envVars
<1>1. /\ pc \in [Proc -> QueryPCs \cup DDLPCs \cup {"idle", "execute"}]
      /\ plan \in [Proc -> Plan \cup {NoName}]
  BY Zenon DEF PlanInv, TypeOK
<1>2. CASE \E t \in Table : FindTable(p, t) \/ UnknownTable(p, t) \/ LinkTable(p, t)
  BY <1>1, <1>2, ZenonT(30) DEF FindTable, UnknownTable, LinkTable
<1>3. CASE Parsed(p) \/ LockFile(p) \/ TimeoutFile(p) \/ EmitError(p) \/ RunPlan(p)
  BY <1>1, <1>3, ZenonT(30) DEF Parsed, LockFile, TimeoutFile, EmitError, RunPlan
<1>4. CASE \E q \in Plan : StartQuery(p, q)
  BY <1>1, <1>4, ZenonT(30) DEF StartQuery
<1>5. CASE \E t \in Table : StartDrop(p, t) \/ StartCreate(p, t) \/ DDLError(p, t)
  BY <1>1, <1>5, ZenonT(30) DEF StartDrop, StartCreate, DDLError
<1>6. CASE DropRow(p) \/ Unlink(p) \/ DropTable(p)
  BY <1>1, <1>6, Zenon DEF DropRow, Unlink, DropTable
<1>7. CASE CreateRow(p) \/ CreateClassOid(p) \/ CreateBinary(p)
  BY <1>1, <1>7, Zenon DEF CreateRow, CreateClassOid, CreateBinary
<1>8. CASE Prepare(p) \/ Execute(p) \/ FinishExecute(p)
  BY <1>1, <1>8, ZenonT(30) DEF Prepare, Execute, FinishExecute
<1>9. QED
  BY <1>2, <1>3, <1>4, <1>5, <1>6, <1>7, <1>8, ZenonT(30)

\* While a query runs nobody is between the two steps of discardPlan.
LEMMA NobodyDiscards ==
    ASSUME PlanInv, NEW p \in Proc, pc[p] \in QueryPCs
    PROVE  \A r \in Proc : pc[r] # "unkey"
BY Zenon DEF PlanInv, Exclusive, QueryPCs, DDLPCs

\* A query that finds the file and the output key runs the plan; one that finds no
\* file finds no output key either, and emits the plan.
LEMMA CheckKeys ==
    ASSUME PlanInv, KeysInv, NEW p \in Proc, CheckPlan(p) \/ RecheckPlan(p)
    PROVE  KeysInv'
<1> USE DEF Goto, Stay, planVars, envVars
<1>1. /\ pc \in [Proc -> QueryPCs \cup DDLPCs \cup {"idle", "execute"}] /\ pc[p] \in {"check", "recheck"}
      /\ plan[p] \in Plan
  BY Zenon DEF PlanInv, TypeOK, Working, CheckPlan, RecheckPlan, QueryPCs
<1>2. \A r \in Proc : pc[r] # "unkey"
  BY <1>1, NobodyDiscards, Zenon DEF QueryPCs
<1>3. /\ UNCHANGED <<file, outputKey, crashes, plan>>
      /\ \A r \in Proc \ {p} : pc'[r] = pc[r]
      /\ pc'[p] \in {"run", "wait", "emit"}
      /\ pc'[p] = "run" => outputKey[plan[p]] # None
      /\ pc'[p] = "emit" => file[plan[p]] = None \/ outputKey[plan[p]] = None
  BY <1>1, Zenon DEF CheckPlan, RecheckPlan, Reusable
<1>4. QED
  BY <1>1, <1>2, <1>3, ZenonT(30) DEF KeysInv

\* The steps of emit_physical_plan, under the file lock: the file comes before the
\* output key, and nobody runs the plan meanwhile.
LEMMA EmitKeys ==
    ASSUME PlanInv, KeysInv, NEW p \in Proc,
           EmitFile(p) \/ KillMetadata(p) \/ StoreOutputKey(p)
    PROVE  KeysInv'
<1> USE DEF Goto, Stay, envVars
<1>1. /\ pc \in [Proc -> QueryPCs \cup DDLPCs \cup {"idle", "execute"}] /\ pc[p] \in {"emit", "kill", "link"}
      /\ plan[p] \in Plan /\ file \in [Plan -> Oids] /\ outputKey \in [Plan -> Oids]
  BY ZenonT(30) DEF PlanInv, TypeOK, Working, EmitFile, KillMetadata, StoreOutputKey, QueryPCs
<1>2. \A r \in Proc : pc[r] # "unkey"
  BY <1>1, NobodyDiscards, Zenon DEF QueryPCs
<1>3. used[p] # None
  BY <1>1, AllFound, ZenonT(30) DEF QueryPCs
<1>4. /\ \A r \in Proc \ {p} : pc[r] \in {"emit", "kill", "link"} => plan[r] # plan[p]
      /\ \A r \in Proc : pc[r] \in {"emit", "kill", "link", "run"} => plan[r] \in Plan
  BY <1>1, ZenonT(30) DEF PlanInv, Exclusive, Working, QueryPCs
<1>5. /\ UNCHANGED <<crashes, plan>>
      /\ \A r \in Proc \ {p} : pc'[r] = pc[r]
      /\ \A q \in Plan \ {plan[p]} : file'[q] = file[q] /\ outputKey'[q] = outputKey[q]
  BY <1>1, ZenonT(30) DEF EmitFile, KillMetadata, StoreOutputKey
<1>6. CASE EmitFile(p)
  <2>1. pc'[p] = "kill" /\ file'[plan[p]] = used[p] /\ outputKey' = outputKey /\ pc[p] = "emit"
    BY <1>1, <1>6, ZenonT(30) DEF EmitFile
  <2> QED
    BY <1>1, <1>2, <1>3, <1>5, <2>1, ZenonT(30) DEF KeysInv
<1>7. CASE KillMetadata(p)
  <2>1. pc'[p] = "link" /\ outputKey'[plan[p]] = None /\ file' = file /\ pc[p] = "kill"
    BY <1>1, <1>7, ZenonT(30) DEF KillMetadata
  <2>2. ASSUME crashes' = 0, NEW q \in Plan, outputKey'[q] # None PROVE file'[q] # None
    <3>1. q # plan[p] /\ outputKey[q] # None
      BY <1>5, <2>1, <2>2, Zenon
    <3> QED
      BY <1>2, <1>5, <2>1, <2>2, <3>1, Zenon DEF KeysInv
  <2>3. ASSUME crashes' = 0, NEW r \in Proc \ {p}
        PROVE  /\ pc'[r] \in {"emit", "kill", "link"} => outputKey'[plan'[r]] = None
               /\ pc'[r] = "run" => outputKey'[plan'[r]] # None
    <3>1. /\ outputKey[plan[p]] = None
          /\ pc[r] \in {"emit", "kill", "link"} => outputKey[plan[r]] = None
          /\ pc[r] = "run" => outputKey[plan[r]] # None
      BY <1>5, <2>1, <2>3, Zenon DEF KeysInv
    <3>2. pc[r] \in {"emit", "kill", "link", "run"} => plan[r] \in Plan \ {plan[p]}
      BY <1>4, <3>1, Zenon
    <3> QED
      BY <1>5, <3>1, <3>2, Zenon
  <2> QED
    BY <1>5, <2>1, <2>2, <2>3, ZenonT(30) DEF KeysInv
<1>8. CASE StoreOutputKey(p)
  <2>1. pc'[p] = "run" /\ outputKey'[plan[p]] = used[p] /\ file' = file /\ pc[p] = "link"
    BY <1>1, <1>8, Zenon DEF StoreOutputKey
  <2>2. file[plan[p]] = used[p]
    BY <2>1, Zenon DEF PlanInv, EmitOk
  <2>3. ASSUME crashes' = 0, NEW q \in Plan, outputKey'[q] # None PROVE file'[q] # None
    <3>1. CASE q = plan[p]
      BY <1>3, <2>1, <2>2, <3>1, Zenon
    <3>2. CASE q # plan[p]
      <4>1. outputKey[q] # None
        BY <1>5, <2>3, <3>2, Zenon
      <4> QED
        BY <1>2, <1>5, <2>1, <2>3, <4>1, Zenon DEF KeysInv
    <3> QED
      BY <3>1, <3>2, Zenon
  <2>4. ASSUME crashes' = 0, NEW r \in Proc \ {p}
        PROVE  /\ pc'[r] \in {"emit", "kill", "link"} => outputKey'[plan'[r]] = None
               /\ pc'[r] = "run" => outputKey'[plan'[r]] # None
    <3>1. /\ outputKey[plan[p]] = None
          /\ pc[r] \in {"emit", "kill", "link"} => outputKey[plan[r]] = None
          /\ pc[r] = "run" => outputKey[plan[r]] # None
      BY <1>5, <2>1, <2>4, Zenon DEF KeysInv
    <3>2. pc[r] \in {"emit", "kill", "link", "run"} => plan[r] \in Plan \ {plan[p]}
      BY <1>4, <3>1, Zenon
    <3> QED
      BY <1>5, <3>1, <3>2, Zenon
  <2> QED
    BY <1>3, <1>5, <2>1, <2>3, <2>4, ZenonT(30) DEF KeysInv
<1>9. QED
  BY <1>6, <1>7, <1>8, ZenonT(30)

\* discardPlan runs alone.
LEMMA DiscardKeys ==
    ASSUME PlanInv, KeysInv, NEW p \in Proc, (\E q \in Plan : DiscardFile(p, q)) \/ DiscardKey(p)
    PROVE  KeysInv'
<1> USE DEF Goto, envVars
<1>1. /\ pc \in [Proc -> QueryPCs \cup DDLPCs \cup {"idle", "execute"}] /\ pc[p] \in DDLPCs
      /\ plan \in [Proc -> Plan \cup {NoName}]
      /\ file \in [Plan -> Oids] /\ outputKey \in [Plan -> Oids]
  BY Zenon DEF PlanInv, TypeOK, DiscardFile, DiscardKey, DDLPCs
<1>2. \A r \in Proc \ {p} : pc[r] \in {"idle", "execute"} /\ pc'[r] = pc[r]
  BY <1>1, DDLAlone, Zenon DEF DiscardFile, DiscardKey
<1>3. ASSUME NEW q \in Plan, DiscardFile(p, q) PROVE KeysInv'
  <2>1. /\ pc[p] = "discard" /\ pc'[p] = "unkey" /\ plan'[p] = q /\ UNCHANGED <<outputKey, crashes>>
        /\ \A r \in Plan \ {q} : file'[r] = file[r]
    BY <1>1, <1>3, ZenonT(30) DEF DiscardFile
  <2> QED
    BY <1>2, <2>1, ZenonT(30) DEF KeysInv
<1>4. CASE DiscardKey(p)
  <2>1. /\ pc[p] = "unkey" /\ pc'[p] = "discard" /\ UNCHANGED <<file, crashes>> /\ plan[p] \in Plan
        /\ \A r \in Plan \ {plan[p]} : outputKey'[r] = outputKey[r]
        /\ outputKey'[plan[p]] = None
    BY <1>1, <1>4, Zenon DEF DiscardKey, PlanInv, Working
  <2>2. ASSUME crashes' = 0, NEW q \in Plan, outputKey'[q] # None PROVE file'[q] # None
    <3>1. q # plan[p] /\ outputKey[q] # None
      BY <2>1, <2>2, Zenon
    <3> QED
      BY <1>2, <2>1, <2>2, <3>1, ZenonT(40) DEF KeysInv
  <2>3. \A r \in Proc : pc'[r] \notin {"emit", "kill", "link", "run"}
    BY <1>2, <2>1, Zenon
  <2> QED
    BY <2>2, <2>3, ZenonT(30) DEF KeysInv
<1>5. QED
  BY <1>3, <1>4, SMTT(30)

\* A crash is counted.
LEMMA CrashKeys ==
    ASSUME PlanInv, NEW p \in Proc, Crash(p)
    PROVE  KeysInv'
<1>1. crashes \in Nat /\ crashes' = crashes + 1
  BY DEF PlanInv, TypeOK, Crash
<1>2. crashes' # 0
  BY <1>1
<1>3. QED
  BY <1>2, Zenon DEF KeysInv

LEMMA NextLeft ==
    ASSUME PlanInv, RowsInv, KeysInv, cancels' = 0, [Next]_vars
    PROVE  RowsInv' /\ KeysInv'
<1>1. ASSUME NEW p \in Proc PROVE ~CancelEmit(p) /\ ~CancelDiscard(p)
  BY BoundAssumption DEF PlanInv, TypeOK, CancelEmit, CancelDiscard
<1>2. ASSUME NEW p \in Proc, Step(p) PROVE RowsInv'
  <2>1. RowsStay(p) \/ RowsInv'
    BY <1>1, <1>2, QueryRows, DDLRows, ZenonT(30) DEF Step
  <2> QED
    BY <2>1, RowsStayInv, Zenon
<1>3. ASSUME NEW p \in Proc, Step(p) PROVE KeysInv'
  <2>1. KeysStay(p) \/ KeysInv'
    BY <1>1, <1>3, OtherKeys, CheckKeys, EmitKeys, DiscardKeys, ZenonT(30) DEF Step
  <2> QED
    BY <2>1, KeysStayInv, Zenon
<1>4. ASSUME NEW p \in Proc,
             \/ \E q \in Plan : StartQuery(p, q)
             \/ Execute(p)
             \/ \E t \in Table : StartDrop(p, t) \/ StartCreate(p, t) \/ DDLError(p, t)
      PROVE  RowsInv' /\ KeysInv'
  <2>1. RowsStay(p) /\ KeysStay(p)
    BY <1>4, QueryRows, OtherKeys, ZenonT(30)
  <2> QED
    BY <2>1, RowsStayInv, KeysStayInv, Zenon
<1>5. ASSUME UNCHANGED vars PROVE RowsInv' /\ KeysInv'
  <2>1. StrayRows' = StrayRows
    BY <1>5, ZenonT(30) DEF vars, schemaVars, StrayRows
  <2> QED
    BY <1>5, <2>1, Zenon DEF vars, schemaVars, planVars, envVars, RowsInv, KeysInv
<1>6. QED
  BY <1>2, <1>3, <1>4, <1>5, CrashRows, CrashKeys, ZenonT(30) DEF Next

\* Every orphan row is a stray one.
LEMMA OrphansStray ==
    ASSUME TypeOK, RowsInv
    PROVE  Cardinality(OrphanRows) <= crashes
<1>1. OrphanRows \subseteq StrayRows
  BY Zenon DEF OrphanRows, StrayRows
<1>2. IsFiniteSet(StrayRows) /\ Cardinality(StrayRows) \in Nat
  BY StraysFinite, Zenon
<1>3. Cardinality(OrphanRows) <= Cardinality(StrayRows) /\ Cardinality(OrphanRows) \in Nat
  BY <1>1, <1>2, FS_Subset, FS_CardinalityType, ZenonT(30)
<1>4. QED
  BY <1>2, <1>3, SMTT(30) DEF RowsInv, TypeOK

\* Only crashes leave the nodes and files of the database out of step: each leaves at
\* most one row of pg_class that no definition refers to (the order of the steps in
\* CREATE TABLE and DROP TABLE of run_query), and without one every plan that is about
\* to run has its output key (emit_physical_or_xref_plan, discardPlan).
THEOREM OnlyCrashesLeaveTraces == Spec => []OnlyCrashesLeave
<1> DEFINE Inv == cancels \in Nat /\ (cancels = 0 => PlanInv /\ RowsInv /\ KeysInv)
<1>1. Init => Inv
  <2> SUFFICES ASSUME Init PROVE Inv
    BY Zenon
  <2>1. PlanInv
    BY InitPlanInv, Zenon
  <2>2. StrayRows = {}
    BY Zenon DEF Init, StrayRows
  <2>3. RowsInv
    BY <2>2, FS_EmptySet, SMTT(30) DEF Init, RowsInv
  <2>4. KeysInv
    BY Zenon DEF Init, KeysInv
  <2> QED
    BY <2>1, <2>3, <2>4, Zenon DEF Init
<1>2. Inv /\ [Next]_vars => Inv'
  BY NextPlanInv, NextLeft, CancelsStay, ZenonT(30)
<1>3. Inv => OnlyCrashesLeave
  <2> SUFFICES ASSUME cancels = 0, PlanInv, RowsInv, KeysInv
               PROVE  /\ Cardinality(OrphanRows) <= crashes
                      /\ crashes = 0 =>
                            \A p \in Proc : Querying(p) /\ pc[p] = "run" => outputKey[plan[p]] # None
    BY Zenon DEF OnlyCrashesLeave
  <2>1. Cardinality(OrphanRows) <= crashes
    BY OrphansStray, Zenon DEF PlanInv
  <2> QED
    BY <2>1, Zenon DEF KeysInv
<1>4. QED
  BY <1>1, <1>2, <1>3, PTL DEF Spec
=============================================================================
