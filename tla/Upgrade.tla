------------------------------ MODULE Upgrade ------------------------------
(***************************************************************************)
(* What octo and rocto do to the database when they start: octo_init.c     *)
(* (its last part), is_auto_upgrade_valid.c, auto_upgrade_*.c,             *)
(* auto_load_octo_seed*.c and the upgrade macros of octo.h.                *)
(*                                                                         *)
(* Three nodes of ^%ydboctoocto say in which format the database is: of    *)
(* the binary definitions, of the plans and of the seed (the catalog that  *)
(* octo-seed.sql creates).  A process that starts brings the plans, the    *)
(* seed and the definitions up to date, in this order, each under the      *)
(* exclusive DDL lock, and sets the node when it is done.  Any number of   *)
(* processes start at the same time, and any of them may die at any step.  *)
(***************************************************************************)
EXTENDS Integers, Sequences, FiniteSets

CONSTANTS
    Proc,                                \* the processes
    Rocto,                               \* those that are rocto
    BinFmt, PlanFmt, SeedFmt, Seed929,   \* FMT_*_DEFINITION of this release
    Databases,                           \* the databases there may be at first
    Functions, Names, Views,             \* functions and schema names in collating order; the views
    Refs,                                \* the definitions that a definition uses
    MaxFaults                            \* how many faults happen

Elems(s) == {s[i] : i \in DOMAIN s}
Defs == Elems(Functions) \cup Elems(Names)
ASSUME FormatAssumption ==
    /\ {BinFmt, PlanFmt, SeedFmt, Seed929} \subseteq Nat \ {0} /\ Seed929 <= SeedFmt
    /\ Rocto \subseteq Proc /\ Views \subseteq Elems(Names)
    /\ Refs \in [Defs -> SUBSET Defs] /\ MaxFaults \in Nat

(* A function uses no other definition, a table only functions (in its     *)
(* constraints), and nothing uses itself.                                  *)
ASSUME DefinitionAssumption ==
    /\ Elems(Functions) \cap Elems(Names) = {}
    /\ \A d \in Defs \ Views : Refs[d] \subseteq Elems(Functions) \ {d}
    /\ \A f \in Elems(Functions) : Refs[f] = {}
    /\ \A v \in Views : v \notin Refs[v]

(* What the process that used the database last has left: its format nodes *)
(* tell the truth, and without any there is nothing to be upgraded (the    *)
(* comment in auto_load_octo_seed_if_needed.c says so).                    *)
ASSUME DatabaseAssumption ==
    \A d \in Databases :
        /\ d.fmt \in [bin : Nat, plan : Nat, seed : Nat] /\ d.bin \in [Defs -> Nat]
        /\ d.dangling \subseteq Defs /\ \A f \in d.dangling : d.bin[f] = 0
        /\ d.viewdep \subseteq Views
        /\ d.fmt.bin \in {0, BinFmt} => \A x \in Defs : d.bin[x] \in {0, BinFmt}
        /\ d.fmt.plan = PlanFmt => d.plans \subseteq {PlanFmt}
        /\ d.fmt.seed = SeedFmt => d.seed = "cur"

VARIABLES
    fmt,        \* the format nodes; 0 where the node is not defined
    bin,        \* the format of each definition's binary; 0 where there is none
    dangling,   \* the functions of which only some nodes are there
    viewdep,    \* the views that have a viewdependency node
    plans,      \* the formats of the generated plans
    seed,       \* the catalog
    proc,       \* the processes
    held,       \* how often each process holds the exclusive DDL lock
    had,        \* ghost: the definitions there were at first
    gaps,       \* ghost: which of the four known holes this behaviour met
    faults      \* how many faults there were

db == <<fmt, bin, dangling, viewdep, plans, seed>>
vars == <<db, proc, held, had, gaps, faults>>

Off == [pc |-> "off", stage |-> "plan", locked |-> FALSE, full |-> FALSE, partial |-> FALSE,
        octo929 |-> FALSE, todo |-> {}, file |-> <<>>, created |-> {},
        allow |-> FALSE, saved |-> FALSE, permissions |-> "ReadOnly"]

Idle == {"off", "ready", "query"}
Work == {"discard", "planmark", "seedsql", "seedzwr", "functions", "tables", "run929",
         "mkstemp", "views", "binmark", "rerun929", "seedmark"}

Init ==
    /\ \E d \in Databases :
        /\ fmt = d.fmt /\ bin = d.bin /\ dangling = d.dangling
        /\ viewdep = d.viewdep /\ plans = d.plans /\ seed = d.seed
        /\ had = {x \in Defs : d.bin[x] # 0}
    /\ proc = [p \in Proc |-> Off]
    /\ held = [p \in Proc |-> 0]
    /\ gaps = {}
    /\ faults = 0
---------------------------------------------------------------------------
(* The steps of the functions, in the order of their calls.                *)
Present(s) == {x \in Elems(s) : bin[x] # 0 \/ x \in dangling}
First(s, todo) == {s[i] : i \in {j \in DOMAIN s : s[j] \in todo /\ \A k \in 1 .. j - 1 : s[k] \notin todo}}

AfterStep(r) ==
    CASE r.pc = "discard" -> "planmark"
      [] r.pc = "seedsql" -> "seedzwr"
      [] r.pc = "seedzwr" -> IF r.full THEN "functions" ELSE "binmark"
      [] r.pc = "functions" -> "tables"
      [] r.pc = "tables" -> IF r.octo929 THEN "run929" ELSE "views"
      [] r.pc = "run929" -> "mkstemp"
      [] r.pc = "mkstemp" -> "views"
      [] r.pc = "views" -> "binmark"
      [] r.pc = "binmark" -> IF r.stage = "bin" THEN "done"
                             ELSE IF r.full /\ r.octo929 THEN "rerun929" ELSE "seedmark"
      [] r.pc = "rerun929" -> "seedmark"
      [] r.pc \in {"planmark", "seedmark"} -> "done"

(* Mutant: allow_schema_changes stays TRUE after the work.                 *)
Go_keeps_rights(r, step) ==
    [r EXCEPT !.pc = step,
              !.todo = IF step = "functions" THEN Present(Functions)
                       ELSE IF step = "tables" THEN Present(Names) ELSE {},
              !.allow = r.allow \/ step \in {"seedsql", "functions"},
              !.octo929 = r.octo929 /\ r.pc # "rerun929"]

(* allow_schema_changes is TRUE while the seed or the definitions are      *)
(* written, and gets its earlier value back after each of the two.         *)
Go(r, step) ==
    [r EXCEPT !.pc = step,
              !.todo = IF step = "functions" THEN Present(Functions)
                       ELSE IF step = "tables" THEN Present(Names) ELSE {},
              !.saved = IF step \in {"seedsql", "functions"} THEN r.allow ELSE r.saved,
              !.allow = IF step \in {"seedsql", "functions"} THEN TRUE
                        ELSE IF step = "binmark" /\ (r.full \/ r.stage = "bin") THEN r.saved ELSE r.allow,
              !.octo929 = r.octo929 /\ r.pc # "rerun929"]

(* mupip load is the last step of auto_load_octo_seed.                     *)
Advance(r) == IF r.pc = "seedzwr" THEN Go([r EXCEPT !.allow = r.saved], AfterStep(r))
              ELSE Go(r, AfterStep(r))

(* The stage returned YDB_OK: octo_init goes on to the next one.           *)
Return(r) ==
    LET next == [r EXCEPT !.locked = FALSE, !.full = FALSE, !.partial = FALSE,
                          !.todo = {}, !.file = <<>>]
    IN  IF r.stage = "bin" THEN [next EXCEPT !.pc = "ready", !.permissions = "ReadOnly"]
        ELSE [next EXCEPT !.pc = "check", !.stage = IF r.stage = "plan" THEN "seed" ELSE "bin"]

Set(p, r) == proc' = [proc EXCEPT ![p] = r]
(* Mutant: the exclusive lock does not wait for the shared ones.           *)
Free_ignores_queries(p) == \A q \in Proc \ {p} : held[q] = 0

(* Locks are counted; a process may take one that it has already.          *)
Free(p) == \A q \in Proc \ {p} : held[q] = 0 /\ proc[q].pc # "query"
Decr(p) == held' = [held EXCEPT ![p] = @ - 1]
---------------------------------------------------------------------------
(* A process that ends, for whatever reason, gives its locks back.  What   *)
(* it leaves behind half done is what the next one finds.                  *)
Exit(p, hole) ==
    /\ Set(p, Off)
    /\ held' = [held EXCEPT ![p] = 0]
    /\ gaps' = gaps \cup hole
    /\ UNCHANGED <<db, had>>

(* Two of the holes: a catalog that is loaded again although its node says *)
(* that it is there, and definitions that are dropped to be created anew.  *)
Hole(p) ==
    (IF proc[p].pc = "seedzwr" /\ fmt.seed = SeedFmt THEN {"reload"} ELSE {})
        \cup (IF proc[p].pc \in {"run929", "rerun929"} /\ \E d \in had : bin[d] = 0
              THEN {"dropped"} ELSE {})

(* main, octo_init, parse_startup_flags: rocto may not change the schema.  *)
Start(p) ==
    /\ proc[p].pc = "off"
    /\ Set(p, [Off EXCEPT !.pc = "valid", !.allow = p \notin Rocto])
    /\ UNCHANGED <<db, held, had, gaps, faults>>

is_auto_upgrade_valid(p) ==
    /\ proc[p].pc = "valid"
    /\ fmt.bin <= BinFmt
    /\ Set(p, [proc[p] EXCEPT !.pc = "check",
                 !.permissions = IF p \in Rocto THEN "RWAllowSchemaChanges" ELSE @])
    /\ UNCHANGED <<db, held, had, gaps, faults>>

(* ERR_AUTO_UPGRADE_DB_HIGHER_FMT.                                         *)
DatabaseTooNew(p) ==
    /\ proc[p].pc = "valid"
    /\ fmt.bin > BinFmt
    /\ Exit(p, {})
    /\ UNCHANGED faults

(* The end of an iteration of the loop: nothing to do, or get the lock, or *)
(* it was the second iteration and there is work to do.                    *)
Decide(p, r, needed, work) ==
    \/ /\ ~needed
       /\ Set(p, Return(r))
    \/ /\ needed /\ ~r.locked
       /\ Set(p, [r EXCEPT !.pc = "lock"])
    \/ /\ needed /\ r.locked
       /\ Set(p, Go(r, work))

CheckPlan(p) ==
    /\ proc[p].pc = "check" /\ proc[p].stage = "plan"
    /\ Decide(p, proc[p], fmt.plan # PlanFmt, "discard")
    /\ UNCHANGED <<db, held, had, gaps, faults>>

CheckBinary(p) ==
    /\ proc[p].pc = "check" /\ proc[p].stage = "bin"
    /\ Decide(p, proc[p], fmt.bin # BinFmt, "functions")
    /\ UNCHANGED <<db, held, had, gaps, faults>>

(* partial_auto_load_needed is set before the loop and never cleared in it *)
(* and neither is is_auto_upgrade_octo929.                                 *)
CheckSeed(p) ==
    LET r == [proc[p] EXCEPT !.full = fmt.seed # SeedFmt,
                             !.octo929 = @ \/ fmt.seed < Seed929]
    IN  /\ proc[p].pc = "check" /\ proc[p].stage = "seed"
        /\ fmt.seed # 0
        /\ Decide(p, r, r.full \/ r.partial, "seedsql")
        /\ UNCHANGED <<db, held, had, gaps, faults>>

SeedUndefined(p) ==
    /\ proc[p].pc = "check" /\ proc[p].stage = "seed"
    /\ fmt.seed = 0
    /\ Set(p, [proc[p] EXCEPT !.pc = "check2"])
    /\ UNCHANGED <<db, held, had, gaps, faults>>

(* The node of the binary format is read after that of the seed.           *)
CheckSeedUndefined(p) ==
    LET r == IF fmt.bin = 0 THEN [proc[p] EXCEPT !.partial = TRUE]
             ELSE [proc[p] EXCEPT !.full = TRUE, !.octo929 = TRUE]
    IN  /\ proc[p].pc = "check2"
        /\ Decide(p, r, TRUE, "seedsql")
        /\ UNCHANGED <<db, held, had, gaps, faults>>

LockExclusive(p) ==
    /\ proc[p].pc = "lock"
    /\ Free(p)
    /\ held' = [held EXCEPT ![p] = @ + 1]
    /\ Set(p, [proc[p] EXCEPT !.pc = "check", !.locked = TRUE])
    /\ UNCHANGED <<db, had, gaps, faults>>

(* Mutant: a process waits for the lock without a timeout.                 *)
LockTimeout_retries(p) ==
    /\ proc[p].pc = "lock"
    /\ ~Free(p)
    /\ UNCHANGED vars

(* TIMEOUT_DDL_EXCLUSIVELOCK has passed: octo_init fails.                  *)
LockTimeout(p) ==
    /\ proc[p].pc = "lock"
    /\ ~Free(p)
    /\ Exit(p, {})
    /\ UNCHANGED faults
---------------------------------------------------------------------------
(* The work, one database update at a time.                                *)
DiscardAll(p) ==
    /\ proc[p].pc = "discard"
    /\ plans' = {}
    /\ Set(p, Advance(proc[p]))
    /\ UNCHANGED <<fmt, bin, dangling, viewdep, seed, held, had, gaps, faults>>

(* run_query_file(octo-seed.sql): each CREATE drops what is there first.   *)
LoadSeedSql(p) ==
    /\ proc[p].pc = "seedsql"
    /\ seed' = "part"
    /\ Set(p, Advance(proc[p]))
    /\ UNCHANGED <<fmt, bin, dangling, viewdep, plans, held, had, gaps, faults>>

(* mupip load of octo-seed.zwr.                                            *)
LoadSeedZwr(p) ==
    /\ proc[p].pc = "seedzwr"
    /\ seed' = "cur"
    /\ Set(p, Advance(proc[p]))
    /\ UNCHANGED <<fmt, bin, dangling, viewdep, plans, held, had, gaps, faults>>

(* One iteration over the functions or the names of the schema: the text   *)
(* is parsed again and stored in binary.                                   *)
Dangling(f) == f \in dangling
Stored(d) == [bin EXCEPT ![d] = BinFmt]
Visited(r, d) == [r EXCEPT !.todo = @ \ {d}]
Emit(r, d) == [r EXCEPT !.file = IF r.octo929 THEN Append(@, d) ELSE @]

UpgradeFunction(p) ==
    LET r == proc[p]
    IN  /\ r.pc = "functions"
        /\ \E f \in First(Functions, r.todo) :
            /\ ~Dangling(f)
            /\ bin' = Stored(f)
            /\ Set(p, Visited(Emit(r, f), f))
        /\ UNCHANGED <<fmt, dangling, viewdep, plans, seed, held, had, gaps, faults>>

(* The nodes of the function are deleted and the whole pass returns.       *)
CleanupDanglingFunction(p) ==
    LET r == proc[p]
    IN  /\ r.pc = "functions"
        /\ \E f \in First(Functions, r.todo) :
            /\ Dangling(f)
            /\ dangling' = dangling \ {f}
            /\ gaps' = gaps \cup IF r.todo = {f} THEN {} ELSE {"dangling"}
        /\ Set(p, Advance(r))
        /\ UNCHANGED <<fmt, bin, viewdep, plans, seed, held, had, faults>>

UpgradeTable(p) ==
    LET r == proc[p]
    IN  /\ r.pc = "tables"
        /\ \E t \in First(Names, r.todo) \ Views :
            /\ bin' = Stored(t)
            /\ Set(p, Visited(Emit(r, t), t))
        /\ UNCHANGED <<fmt, dangling, viewdep, plans, seed, held, had, gaps, faults>>

(* Mutant: a view without a viewdependency node gets none.                 *)
SkipView_no_node(p) ==
    /\ proc[p].pc = "tables"
    /\ \E v \in First(Names, proc[p].todo) \cap Views : Set(p, Visited(proc[p], v))
    /\ UNCHANGED <<db, held, had, gaps, faults>>

(* A view without a viewdependency node gets one: it is all VALUES.        *)
SkipView(p) ==
    LET r == proc[p]
    IN  /\ r.pc = "tables"
        /\ \E v \in First(Names, r.todo) \cap Views :
            /\ viewdep' = viewdep \cup {v}
            /\ Set(p, Visited(r, v))
        /\ UNCHANGED <<fmt, bin, dangling, plans, seed, held, had, gaps, faults>>

(* The end of a pass over functions or tables.                             *)
PassDone(p) ==
    /\ proc[p].pc \in {"functions", "tables"} /\ proc[p].todo = {}
    /\ Set(p, Advance(proc[p]))
    /\ UNCHANGED <<db, held, had, gaps, faults>>

(* The views in an order in which a view comes after those that it uses.   *)
(* find_view_or_table finds another view only after it was upgraded.       *)
Waiting(r) == viewdep \ r.created
(* Mutant: the views in any order.                                         *)
Usable_any(r, v) == r.pc = "views" /\ v \in viewdep
Usable(r, v) == Refs[v] \cap Views \subseteq r.created
UpgradeView(p) ==
    LET r == proc[p]
    IN  /\ r.pc = "views"
        /\ \E v \in Waiting(r) :
            /\ Usable(r, v)
            /\ bin' = Stored(v)
            /\ Set(p, [Emit(r, v) EXCEPT !.created = @ \cup {v}])
        /\ UNCHANGED <<fmt, dangling, viewdep, plans, seed, held, had, gaps, faults>>

ViewsDone(p) ==
    /\ proc[p].pc = "views" /\ Waiting(proc[p]) = {}
    /\ Set(p, Advance(proc[p]))
    /\ UNCHANGED <<db, held, had, gaps, faults>>

(* Mutant: a statement that drops takes that which creates with it.        *)
RunStatement_drops(p) ==
    LET r == proc[p]
        d == Head(r.file)
    IN  /\ r.pc \in {"run929", "rerun929"} /\ r.file # <<>>
        /\ bin' = [bin EXCEPT ![d] = IF @ = 0 THEN BinFmt ELSE 0]
        /\ Set(p, [r EXCEPT !.file = Tail(@)])
        /\ UNCHANGED <<fmt, dangling, viewdep, plans, seed, held, had, gaps, faults>>

(* YDBOcto#929: run_query_file of the file that the passes have written,   *)
(* a DROP and a CREATE for each definition.                                *)
RunStatement(p) ==
    LET r == proc[p]
        d == Head(r.file)
    IN  /\ r.pc \in {"run929", "rerun929"} /\ r.file # <<>>
        /\ bin' = [bin EXCEPT ![d] = IF @ = 0 THEN BinFmt ELSE 0]
        /\ Set(p, IF bin[d] = 0 THEN [r EXCEPT !.file = Tail(@)] ELSE r)
        /\ UNCHANGED <<fmt, dangling, viewdep, plans, seed, held, had, gaps, faults>>

FileDone(p) ==
    /\ proc[p].pc \in {"run929", "rerun929"} /\ proc[p].file = <<>>
    /\ Set(p, Advance(proc[p]))
    /\ UNCHANGED <<db, held, had, gaps, faults>>

(* The file for the views.                                                 *)
OpenViewFile(p) ==
    /\ proc[p].pc = "mkstemp"
    /\ Set(p, Advance(proc[p]))
    /\ UNCHANGED <<db, held, had, gaps, faults>>

(* When it cannot be opened STATUS is still 0 from the unlink() before it: *)
(* the function returns YDB_OK and allow_schema_changes stays TRUE.        *)
OpenViewFileFails(p) ==
    /\ proc[p].pc = "mkstemp"
    /\ faults < MaxFaults
    /\ Decr(p)
    /\ Set(p, Return(proc[p]))
    /\ gaps' = gaps \cup {"mkstemp"}
    /\ faults' = faults + 1
    /\ UNCHANGED <<db, had>>

(* The node is set; after the last one of the stage the lock is released.  *)
SetBinFmt(p) ==
    /\ proc[p].pc = "binmark"
    /\ fmt' = [fmt EXCEPT !.bin = BinFmt]
    /\ IF proc[p].stage = "bin"
       THEN Decr(p) /\ Set(p, Return(proc[p]))
       ELSE Set(p, Advance(proc[p])) /\ UNCHANGED held
    /\ UNCHANGED <<bin, dangling, viewdep, plans, seed, had, gaps, faults>>

SetPlanFmt(p) ==
    /\ proc[p].pc = "planmark"
    /\ fmt' = [fmt EXCEPT !.plan = PlanFmt]
    /\ Decr(p)
    /\ Set(p, Return(proc[p]))
    /\ UNCHANGED <<bin, dangling, viewdep, plans, seed, had, gaps, faults>>

SetSeedFmt(p) ==
    /\ proc[p].pc = "seedmark"
    /\ fmt' = [fmt EXCEPT !.seed = SeedFmt]
    /\ Decr(p)
    /\ Set(p, Return(proc[p]))
    /\ UNCHANGED <<bin, dangling, viewdep, plans, seed, had, gaps, faults>>

(* A step fails: the lock is released and octo_init fails.                 *)
StepFails(p) ==
    /\ proc[p].pc \in Work
    /\ faults < MaxFaults
    /\ faults' = faults + 1
    /\ Exit(p, Hole(p))
---------------------------------------------------------------------------
(* A process that has started runs statements under the shared lock, a     *)
(* rocto in a child that it forks, which does not own its parent's locks.  *)
(* A plan is generated in the format of this release.                      *)
Query(p) ==
    /\ proc[p].pc = "ready"
    /\ \A q \in Proc : held[q] = 0 \/ (q = p /\ p \notin Rocto)
    /\ plans' = plans \cup {PlanFmt}
    /\ Set(p, [proc[p] EXCEPT !.pc = "query"])
    /\ UNCHANGED <<fmt, bin, dangling, viewdep, seed, held, had, gaps, faults>>

QueryDone(p) ==
    /\ proc[p].pc = "query"
    /\ Set(p, [proc[p] EXCEPT !.pc = "ready"])
    /\ UNCHANGED <<db, held, had, gaps, faults>>

Stop(p) ==
    /\ proc[p].pc = "ready"
    /\ Exit(p, {})
    /\ UNCHANGED faults

Crash(p) ==
    /\ proc[p].pc # "off"
    /\ faults < MaxFaults
    /\ faults' = faults + 1
    /\ Exit(p, Hole(p))

(* The steps a process takes by itself between its start and its end.      *)
Step(p) ==
    \/ is_auto_upgrade_valid(p) \/ DatabaseTooNew(p)
    \/ CheckPlan(p) \/ CheckBinary(p) \/ CheckSeed(p) \/ SeedUndefined(p) \/ CheckSeedUndefined(p)
    \/ LockExclusive(p) \/ LockTimeout(p)
    \/ DiscardAll(p) \/ LoadSeedSql(p) \/ LoadSeedZwr(p)
    \/ UpgradeFunction(p) \/ CleanupDanglingFunction(p) \/ UpgradeTable(p) \/ SkipView(p) \/ PassDone(p)
    \/ UpgradeView(p) \/ ViewsDone(p) \/ RunStatement(p) \/ FileDone(p) \/ OpenViewFile(p)
    \/ SetBinFmt(p) \/ SetPlanFmt(p) \/ SetSeedFmt(p) \/ QueryDone(p)

Next ==
    \E p \in Proc :
        Start(p) \/ Step(p) \/ OpenViewFileFails(p) \/ StepFails(p) \/ Query(p) \/ Stop(p) \/ Crash(p)

Spec == Init /\ [][Next]_vars
(* The scheduler runs every process, and a lock is waited for 10 seconds.  *)
FairSpec == Spec /\ \A p \in Proc : WF_vars(Step(p))
---------------------------------------------------------------------------
(* A format node that has the number of this release tells the truth, at   *)
(* every step of every process and after every crash: no definition has an *)
(* older binary, no plan an older format, and the catalog is complete but  *)
(* while a process holds the lock and is loading it once more.             *)
FormatNodesTruthful ==
    gaps = {} =>
        /\ fmt.bin = BinFmt => \A d \in Defs : bin[d] \in {0, BinFmt}
        /\ fmt.plan = PlanFmt => plans \subseteq {PlanFmt}
        /\ fmt.seed = SeedFmt =>
            seed = "cur" \/ \E p \in Proc : proc[p].pc = "seedzwr" /\ held[p] > 0

(* An upgrade reads the binaries of the definitions it refers to, so they  *)
(* were upgraded before: functions, then tables, then views by dependency. *)
ReadsUpgraded ==
    [][\A d \in Defs : (gaps = {} /\ bin[d] # BinFmt /\ bin'[d] = BinFmt) =>
            \A e \in Refs[d] \cap had : bin[e] = BinFmt]_vars

(* Nothing that was defined is lost on the way: only a process that runs   *)
(* the statements of YDBOcto#929 may have dropped a definition for a       *)
(* while.  And no statement runs, in any process that has started, while a *)
(* definition is missing or has another format, the catalog is not         *)
(* complete, or there is a plan of another release to be found.            *)
DefinitionsKept ==
    gaps = {} =>
        /\ (\A p \in Proc : proc[p].pc \notin {"run929", "rerun929"}) => \A d \in had : bin[d] # 0
        /\ (\E p \in Proc : proc[p].pc = "query") =>
              /\ \A d \in had : bin[d] = BinFmt
              /\ seed = "cur" /\ plans \subseteq {PlanFmt}

(* A rocto that has started has the rights it had before octo_init raised  *)
(* them twice, for the session and for the schema.                         *)
RightsRestored ==
    \A p \in Rocto : (proc[p].pc \in {"ready", "query"} /\ "mkstemp" \notin gaps) =>
        ~proc[p].allow /\ proc[p].permissions = "ReadOnly"

(* A start comes to an end: the process is ready or it has exited.         *)
StartEnds == \A p \in Proc : proc[p].pc \notin Idle ~> proc[p].pc \in Idle

(* The comment at each early return of the three checks: "Return after     *)
(* releasing ddl exclusive lock (if applicable)".                          *)
LockReleased == \A p \in Proc : proc[p].pc = "ready" => held[p] = 0
=============================================================================
