# Octo and rocto in TLA+

Octo is an SQL engine on YottaDB; rocto serves it over the PostgreSQL wire
protocol, one process per connection. All octo and rocto processes share a YottaDB
database (catalog, locks, plan metadata) and a directory of generated M files (the
plans). This directory models the parts where several processes, or several
messages of one client, meet; the path of a SELECT from its WHERE clause to its rows;
and three translations whose mistakes are hard to test for: types, table definitions
and dates.

## The system

| Part | State | Operations | Modelled in |
|---|---|---|---|
| Start-up (`octo_init.c`, `parse_startup_flags.c`) | settings, `$zroutines`, plan directories | read flags, merge configuration files, check | `Config` |
| Upgrade and seed load (`auto_upgrade_*.c`, `auto_load_octo_seed*.c`) | format nodes, release of the seed, stored definitions | the three checks of every start | `Upgrade` |
| Listener (`rocto.c`, `rocto_helper_waitpid.c`) | key list, processes, helper thread | accept, fork, register, reap, SIGINT | `Listener` |
| First messages (`handle_cancel_request.c`, `read_startup_message.c`, `handle_password_message.c`) | TLS, a server's copy of the key list | TLS request, start-up, password, cancel request | `Listener` |
| Session (`rocto/rocto_main_loop.c`, `handle_*.c`, `send_result_rows.c`) | prepared statements, portals, cursors, error and ready flags | one handler per message | `RoctoSession` |
| Statement dispatcher (`run_query.c`) | locks `^%ydboctoocto("ddl")`, `("ddl",pid)` | parse, run a plan, SET/SHOW, CREATE, DROP, DISCARD, TRUNCATE | `QueryLock`, `DDLGuard` |
| Catalog (`store_table_or_view_in_pg_class.c`, `find_view_or_table.c`) | OID counter, `pg_class`, binary definition, copy in each process | CREATE/DROP TABLE, look up | `PlanCache` |
| Plans (`physical/emit_*`, `emit_sql_statement.c`, `aux/_ydboctoDiscard.m`) | plan files, output keys, links from tables to plans, file locks | generate, reuse, discard | `PlanCache` |
| Cancel (`handle_cancel_request.c`, `_ydboctoZinterrupt.m`, `_ydboctoCleanup.m`) | pending SIGUSR2, `%ydboctoCancel` | signal, abandon M code, drop all locks | `QueryLock`, `PlanCache`, `RoctoSession` |
| Views, functions, constraints (`view_definition.c`, `store_*_dependencies.c`) | stored definitions, dependency nodes | CREATE/DROP checks and nodes | `Dependencies` |
| Table definition (`parser/table_definition.c`, `constraint_name_auto_generate.c`, `emit_create_table.c`) | columns with their keywords, constraints, the text of the table | CREATE TABLE, write as text, make again from the text | `TableDefinition` |
| Type inference (`populate_data_type.c`, `qualify_check_constraint.c`, `octo_type_check.h`) | the parse tree, types of parameters | visit each node, decide ambiguous literals, add casts | `TypeRules`, `DataTypes` |
| Query rewriting (`parse_tree_optimize.c`, `optimization_transforms/`) | one plan per disjunct: tables in loop order, conditions, fixed keys | move WHERE to ON, normal form, cross joins, keys, ORDER BY | `Condition`, `SelectPlan` |
| Generated code of a SELECT (`m_templates/tmpl_tablejoin*`, `tmpl_physical_plan`) | output rows, duplicate marks, join marks | nested loops, ON and WHERE, NULL rows, LIMIT, sort | `SelectPlan` |
| Dates (`aux/ydboctodateformat.c`, `aux/ydboctodateoperations.c`) | one value at a time, DATESTYLE | DATE_FORMAT, casts, + and -, text in and out | `DateFormat`, `DateTime` |

What makes it hard: DDL runs while others parse and run plans; processes die between
two database updates that belong together; a plan file and its database nodes are
two stores without a common transaction; a cancel request acts wherever M code runs,
also outside query plans, and names its session by a pid that may be reused; two
processes upgrade one database; a client may send messages in any order and ahead of
the answers, and one cursor serves all portals of a connection; a query is rewritten
in five passes, each of which relies on what the others left; the type of a literal
is decided by a second visit after the rest of the statement is typed. `PROJECT.json`
lists these hazards by source line.

## Modules and code

**`DDLGuard`** is what the dispatcher promises: many readers of the schema or one
writer. **`QueryLock`** is `run_query` for any number of processes. `pc` is the place
in `run_query`, `shared` and `excl` the two M locks with their counts, `sig` a signal
not yet delivered. One action per path: `LockShared`, `ParseError`, `StartPlan`,
`SetShow`, `SetShowError`, `ToExclusive` (release shared, then wait), `DDLError`,
`FinishDrop` and so on, with the timeout of each lock wait as an action.
`Execute`/`FinishExecute` is the plan an Execute message runs without any lock.
`ImplementsGuard` maps the processes whose statement relies on the schema
(`Reading`, `Changing`) to readers and writer.

**`PlanCache`** starts from that promise: its `StartQuery`, `StartDrop` and
`StartCreate` are guarded as in `DDLGuard`. A definition is its OID, a plan file the
OIDs it was compiled from; a table dropped and created again has the same plan names,
so an old file is one with an old OID. The actions follow the order of the database
and file operations in the code, one each, so that a death or a cancel request
(`MaxFault` of them) can fall between any two. A rocto may also keep the plan of a query
(`Prepare`, the Parse message, which releases the lock) and run it later (`Execute`,
`FinishExecute`), without a lock and without a look at the catalog or the file.

**`RoctoSession`** is one connection. `SelectInput` is the top of the loop with its
look at the socket, `Handler(m)` one handler per message type. A result is its number
of rows; `SendResultRows` is the arithmetic on `rows_remaining`. `signal` and
`canceled` are the two stages of a cancel request. `Clients` are the kinds of client
a connection may have: which queries and limits it uses, whether it resumes results,
whether it is canceled.

**`Dependencies`** has the statements of `CREATE`/`DROP` `TABLE`, `VIEW` and
`FUNCTION` as two steps: the parse, under the shared lock, which fills the local
variables of the process, and the exclusive section. Both sides of each index are
kept, with the nodes the discard routines leave behind. A function is its hash, with a
name (`NameOf`) that may be that of a table: `RunsInto` is the loop of `discardTable`
that then goes on into the nodes of the function.

**`Config`** is `octo_init`: `ParseStartupFlags`, one `MergeConfigFile` per file that
is found, `FinishConfig` with the checks and the search of `$zroutines`. A file is a
set of settings; a setting has the values the code tells apart. The flags leave the port
in the settings, -1 when there is none (`FlagPort`), and a read changes it only when a
file has it. **`Listener`** extends
it: when rocto is ready, `Accept`, `RegisterKey` and `RegisterTime` are the three
places where the listener can be overtaken by the server it forked, by the helper
thread that reaps that server, and by a failing call. `procs` has every process by
pid: servers, zombies and other programs that got a pid. A server's `list` is the key
list it inherited. `CancelRequest` is the whole of `handle_cancel_request` up to
`kill`, and `Kill` the signal.

**`Upgrade`** is a start of octo or rocto from the first check to the first statement.
The database is its format nodes, its seed release and, for every table, view and
function, the format of its definition. Every `ydb_set`, `ydb_delete` and lock is a
step, so that crashes fall between them; `Query` is a statement that another process,
already started, runs meanwhile. `gaps` records the ways in which the code is known to
leave something behind (see below).

**`TableDefinition`** takes the elements of a CREATE TABLE through the passes of
`table_definition.c` in their order, a keyword at a time: `ScanCheck`, `ScanUnique`
(column constraints moved to the table and back), `CombineKeys`, `TrimPrimaryKey`,
`TrimUnique`, `NameConstraint`, `KeyColumns`, `AssignPieces`, `Finish` (READONLY or
READWRITE). `Recreate` writes the table as text and makes it again from that text, as
an upgrade does. **`TypeRules`** has the rules that look at
two types, **`DataTypes`** the visit of every kind of node; `c.check` selects the
variant for CHECK constraints. **`Condition`** has the conditions of WHERE and ON,
their three-valued evaluation by the generated code, `lp_apply_not` and
`lp_make_normal_disjunctive_form`. **`SelectPlan`** takes a query through
`ParseTreeOptimize`, `ExpandDNF`, `OptimizePlan` (once per sibling plan), `RunPlan`
(likewise) and `Sort`. A table has a key `k` and a column `v`; a condition on `v` uses
a cross reference. A plan holds the joins in loop order, what is left of WHERE, and
for each table the condition its key is fixed by (`fix`). `JoinedRows` and `Meaning`
are the reference: the joins and WHERE as the SQL standard defines them.

**`DateFormat`** is DATE_FORMAT with its own calendar arithmetic, against a calendar
that is walked day by day. **`DateTime`** has the values as the code holds them (one
integer, microseconds since the epoch, that wraps at `WordRange`), casts, addition and
subtraction of days and of times with and without a zone, and the readers and writers of text and numbers; the C library's
`gmtime`, `localtime` and `mktime` and the zone of the machine are external. The ghost
`shown` is what the value should show.

The modules compose through promises: `QueryLock` implements `DDLGuard`, which
`PlanCache` and the exclusive section of `Dependencies` assume; `PlanCache` shows that
the plan a query runs is compiled from the current definitions, `SelectPlan` that such
a plan computes the query, `DataTypes` that its operands have the types the plan
assumes; `RoctoSession` takes its result to the client. `Listener` extends `Config`,
so that what a server does about TLS follows from flags and files.

## Runs

| Run | Instance | Shows |
|---|---|---|
| `query_lock` | 2 rocto processes, all statements, `MaxHold` 2 | exclusion, no lock left behind except by a failed SET or SHOW, no circular wait, every statement returns, `DDLGuard` implemented |
| `plan_cache` | an octo and a rocto, 2 tables, 2 plans, 2 OIDs, 1 death or cancel | no outdated definition or plan is used under the lock, nor by an Execute whose tables are those of its Parse; only a death leaves half of a pair of records; every statement ends |
| `session` | 3 kinds of client, 1 statement, 2 portals, limits 0–2 | CommandComplete means all rows of the portal's own result; no result is left over; no row is skipped when a result is resumed; Sync is answered |
| `dependencies` | 2 processes, 1 table, 2 views, 2 functions, one with the table's name, 2 constraints | the indexes agree; no DROP takes away what is in use |
| `listener` | over 2500 ways to start; 2 pids, 3 processes, 1 failing call | settings and plan directories as documented in the code; TLS when it is required; a cancel request signals the session it names and no other process; the listener stops after SIGINT |
| `upgrade` | an octo and a rocto start together, 8 databases, 2 crashes or failures | a format node never claims more than was done; no definition is lost; permissions are restored; no statement reads a database half upgraded; every start ends |
| `upgrade_lock` (violated) | the same | a process that waited for another's upgrade keeps the DDL lock |
| `types` | about 32000 statements | accepted operands have values of one kind when they run; no assertion of the type inference fails; a query and a CHECK constraint are typed alike |
| `tables` | about 7700 tables | every declared constraint is kept; a table made from its own text is the same table; constraint names are distinct; READWRITE only for a layout that can be written |
| `select_plan` | over a thousand queries, 1–3 tables | meaning kept, rows exactly once, ORDER BY and LIMIT, nothing read too early |
| `select_not` (violated) | NOT over AND with LIKE | NOT is lost |
| `dates` | walks of a year from every kind of year; expressions of 3 operations; literals of 5 formats | week and day numbers follow the calendar; buffers hold what is written; values show what they mean, and their text reads back |

**Why the bounds are enough.** Exclusion and circular waits involve two processes at a
time; a hold count of 2 has the nested lock. Two OIDs are a table created, dropped and
created again; a second plan over both tables has a link that outlives one of them;
the proofs hold for any number of deaths. Four nodes of local dependencies (`LvnMax`)
are a failed CREATE VIEW and the next one of the same name, or two processes creating
views at once; the proofs have no such bound. Three rows with limits 0, 1, 2 have a first,
a middle and a last batch, exact and partial; two portals are what can disturb each
other over one cursor. Two pids and three processes are a server, the canceling server
and one that takes over a pid; with one failing call every step of a registration can
be the one that fails. Two faults in `upgrade` are one in a start and one in the start
that should repair it; the databases are one for every state that the checks tell
apart. Statements of `types` have every operator over every pair of leaf types and,
one level deeper, over every expression whose type is ambiguous; `tables` has all
orders of the constraints on two columns, names that collide after they are cut to
`MaxIdent`, and all the layouts of one and two data columns. Conditions of depth three
have every nesting of AND, OR and NOT that the normal form treats differently; three
tables are the fewest for which a reordering moves a table past one it is joined to;
contents include empty tables, one row, equal values and NULL. LIMIT is 0, in the
middle of a result and beyond its end. The years that a walk can start in have each
weekday for January 1, leap and not, and the turns of centuries. Times have
microseconds of two digits and a range of three weeks on each side of the epoch: the
code's arithmetic does not depend on either, and all its edges (the epoch, midnight,
the ends of the range, the width of the word) are close together.

Deadlock is checked in `query_lock`, `plan_cache`, `dependencies`, `upgrade` and
`dates`. A session ends with Terminate, a query with its result, a statement or table
with its verdict, and rocto with SIGINT, so those runs may stop.

**Fairness.** `QueryLock`, `PlanCache` and `Upgrade` have weak fairness of a process's
own steps: lock waits have a timeout in the code, and plans, M routines and file
operations are assumed to end. `RoctoSession` has weak fairness of the server process;
the client need never send anything. `Listener` has weak fairness of the listener's
steps between two calls of `accept` and of the helper thread; there may be no
connection, and a server may wait for its client for ever. Nothing is assumed of
clients, signals, deaths or failing calls.

**Mutants.** Each property is violated when one definition is replaced by a plausible
mistake (the operators beside it whose name says the mistake): a dropped recheck, a
lock released in the wrong order, a row arithmetic off by one, a condition removed
under outer joins, a start time not compared, a cast on one side only, a name checked
only within its table.

## Proofs

For every set of processes, tables, plans, views, functions and clients, and every
bound:

- `QueryLockProofs`: `LockInv` is inductive. The exclusion alone is not: it needs how
  many times each process holds its lock at each `pc`, what failed SETs have leaked,
  and that a holder of the exclusive lock finds no shared lock of another process.
  From it follow `Exclusion`, `Balance`, `NoCircularWait` and `Refinement` (initial
  states and steps map to those of `DDLGuard`).
- `PlanCacheProofs`: `PlanInv` is inductive until a cancel request drops the locks of a
  statement. `PlanFresh` is about the moment a plan runs or is prepared; what makes it so is that an
  output key is stored only after file and links, that DROP removes the file first, and
  that a copy accepted by the OID comparison is the stored one. `PreparedInv`
  carries this over to the plans that a Parse keeps for an Execute without a lock: as
  OIDs do not come back, definitions that are those of the Parse were there all the time,
  and no file was compiled from others. `CurrentDefinitions` and `FreshPlans` follow. After a cancel both may be false: a DROP whose lock was
  taken away goes on to erase the definition under a query that started meanwhile
  (hazard at `run_query.c:641`), and the properties say so.
  `OnlyCrashesLeaveTraces` has two invariants next to `PlanInv`. `RowsInv` counts more
  rows than the orphans: also those that a CREATE TABLE which died before the binary
  definition has left referenced by name only (`StrayRows`), since the next CREATE of
  that name makes them orphans. No step adds to them but a crash, and a crash at most
  one; a DROP has erased the row before the definition. `KeysInv` holds while nobody has
  died: an output key without a file exists only between the two steps of `discardPlan`,
  which run alone, so that a query which finds no file also finds no key, and what it
  emits under the file lock is not being run by anyone.
- `DependenciesProofs`: `DepInv` adds to `IndexesAgree` what a waiting CREATE VIEW has
  gathered (`Gathered`) and that stored definitions are recorded (`ViewsRecorded`,
  `CallsRecorded`). `DependentsKept` is proved as an action property.
- `RoctoSessionProofs`: `SessionInv` ties the cursor of a connection to what was sent.
  `RemainingReachesBack` is what the row arithmetic needs: `rows_remaining` of a
  suspended portal counts back at least to the row after the last one sent.
  `Released`, `Completion` and `NoSkip` (an action property) follow.
- `ListenerProofs`: `StartsConfigured`, for any files, flags and lists of directories,
  from `StartInv`: between two files, what is merged is what the files read so far say,
  the first one to name a setting wins, and the settings are those of the last read. The
  flags are taken by induction over the command line (after each prefix, the last flag
  of a kind and the number of `-v` so far), `$zroutines` by induction over the list:
  before a directory is found, the object directory is that of the last parenthesis, the
  only one that can be open. For the listener `ListenerInv` has two parts. `ConfigInv`
  says that a process which
  is ready has passed the check on `ssl_required` and `ssl_on`, through any merges of
  files; with it `TlsHolds` says that no password, session or cancel request goes over
  an open connection when TLS is required. `ListsTrue` says that an entry of any key
  list, the listener's or a server's copy, whose start time is that of the process
  that has the pid now, has that process's key; `ServersListed` that a registered
  server is in all lists made after it. They need `ChildKnown`: between `fork` and the
  registration the pid is the child's or free. `CancelOwner` follows.
- `UpgradeProofs`: `UpgradeInv` is inductive for any definitions, references between
  them, databases, processes and numbers of faults. What the format nodes say is not
  inductive: a node is set at the end of work that other processes may have begun and
  died in. The invariant says of every place what was done before it (`Progress`, which
  needs no lock as formats are never set back, and `Passed`, under the lock): functions
  before tables, all views but those with a `viewdependency` node with the tables, those
  views last; `Done` of a set of definitions is stable. `Dropped` names the one
  definition that a process running the statements for YDBOcto#929 may have dropped.
  `FormatNodesAreTruthful`, `DefinitionsAreKept`, `RightsAreRestored` and, as an action
  property, `UpgradesReadUpgraded` follow. As in the runs, all but the rights are
  claimed of behaviours in which no `gaps` have opened.
- `DateFormatProofs`: `DateFormatFollowsTheCalendar`, for walks from January 1 of any
  year, of 365 days for each year that is left up to 9999, the last one the code reads.
  `CalendarInv` says of each day that it is a day of the calendar, day `yday` of its
  year (`DayAt`), with the number that `get_day_num` gives January 1 of the first year
  plus the days walked; `TomorrowNum` moves that over the ends of months and years, from
  how MySQL's count of leap days grows (`LeapStep`). `get_week` then depends only on the
  weekday of January 1, the day of the year and the lengths of this year and the one
  before (`WeekOfDay`), and for those it is compared with the week of the deciding day
  (`SundayWeek`, `MondayWeek` and the two for weeks that start at 0). The numbers of such
  days are positive, so the unsigned arithmetic of the code wraps only where `get_week`
  itself goes below week 1. `DateFormatTakesDates`, for any literals and formats, rests
  on `LiteralInv`: the last call is that of a literal. `RealDate` compares the checks,
  spread over two functions, with the calendar; for the buffers, each character of the
  format takes no more than `get_max_date_length` counts for it (`ResultFits`), although
  that counts the letters of conversions too, and a sum grows with its terms
  (`TotalMono`).
- `DateTimeProofs`, for any number of digits of microseconds up to six, any range of
  dates that fits the 64 bits with a week to spare, any zone offset and any literals:
  `ValuesShown` from `ValueInv`, which says that the value of an expression is the
  number that its day, seconds and microseconds encode (`Enc`, `Decode`: the digits of
  the microseconds are put behind seconds of either sign) and that every operation
  moves it at most a day away from the range, so nothing wraps (`NoWrap`).
  `TextsReadBack` adds the types of the values and that DATESTYLE is an order of year,
  month and day (`TextInv`); `CivilParts` and `DatesDiffer` prove that the calendar of
  the text gives each day one date and no two days the same. `AcceptedAreValid` rests on
  `LitInv`, the shape of the literal that was validated last; `HorologYears` computes
  the bounds of HOROLOG from that calendar, `PointInTime` finds the only place where an
  accepted text can have a fraction.

The assumptions are the named ASSUMEs of the modules: the null values are not members,
every plan reads a table, names are distinct, bounds are naturals, pids are positive,
and (`StatAssumption`) what `stat` may answer. A list of directories is one that YottaDB
takes for `$zroutines`: a parenthesis is closed before the next one opens
(`StartAssumption`; the code sets the value in YottaDB, which refuses others). For `Upgrade`: tables and functions refer
to functions only and no view to itself (`DefinitionAssumption`); the database that a
start finds has truthful format nodes, and one without any has nothing to upgrade
(`DatabaseAssumption`, the comment in `auto_load_octo_seed_if_needed.c`). TLC evaluates
them on the databases of `upgrade`. For `DateFormat` (`WalkAssumption`): the table of
the weekdays of January 1 is that of the Gregorian calendar, and walks stay within the
years of four digits that the code reads; a literal has something after each number. For
`DateTime` (`RangeAssumption`, `LiteralAssumption`, `StyleAssumption`,
`InputAssumption`): the range and the word as above, texts within the range, and what is
validated has the shape that the lexer gives it. `OtherProgram` assumes that the kernel
does not give the pid of a child that was just reaped to another program before the
listener has registered it.

Only model-checked: liveness (`StatementReturns`, `StatementEnds`, `SyncAnswered`,
`StartEnds`, `ListenerStops`), as the prover has no fairness; `Condition`, `SelectPlan`, `DataTypes` and `TableDefinition`, which are recursive over
conditions, expressions and columns.

## Findings

Two disagreements with the repository's own words have a run (`findings` in
`PROJECT.json`): a process that waited for another's upgrade keeps the exclusive DDL
lock; and NOT over AND or OR is lost on LIKE, casts, function calls and boolean columns
in builds without asserts.

Seen in the models and left out of the properties, each at its place in the modules:

- Dispatcher and session: an Execute takes no lock (`rocto/handle_execute.c:194`), so that
  tables may be dropped, or dropped and created again, after the Parse or while the plan
  runs: its plan is gone or made anew, and what it returns is not promised (the second
  part of `PlanFresh` says what is left); a failed SET or SHOW keeps its lock, which `LocksBalanced`
  counts (`run_query.c:1361`); a canceled Execute leaves a dead cursor
  (`rocto/handle_execute.c:209`); a resumed result repeats a row, and `rows_remaining`
  outlives its cursor.
- Catalog: a CREATE VIEW that was parsed before a DROP is stored after it
  (`run_query.c:770`); stale view dependencies of a failed CREATE are recorded with the
  next one; DROP TABLE removes one constraint's nodes and those of the others stay, on both
  sides, so that DROP FUNCTION is refused although no table uses the function
  (`aux/_ydboctoDiscard.m:114`); a DROP TABLE may remove the nodes of a function that has
  the name of the table, which can then be dropped while it is in use (`Clashing`).
- SELECT: a cross join is reordered without the ON clauses that WHERE conditions were
  moved to (`optimization_transforms/lp_optimize_cross_join.c:172`); `ORDER BY k DESC`
  with RIGHT or FULL JOIN has the rows of NULLs last.
- Listener and configuration: a cancel request on a connection older than the session
  never finds it; between the check of a start time and `kill` the pid may change
  hands; after a failed `accept` or `fork` the listener waits for its helper thread for
  ever; SIGINT just before `accept` waits for one more connection. `-e` discards the
  datestyle of a file (`octo_init.c:889`); `octo_zroutines` of a second file is ignored
  (`octo_init.c:484`). A source directory that stands in `$zroutines` after a group
  `obj(src)` gets `obj` as the place of its object files, as `obj_dir` is not reset at the
  parenthesis (`octo_init.c:701`), although the comment at `octo_init.c:673` speaks of the
  corresponding object directory; `PlanDirs` is silent about it. A variable that the
  environment has is kept whatever the files say (`octo_init.c:367`), while
  `doc/config.rst:20-26` ranks the environment below them; `SettingsPrecedence` states
  what the code does. A file that sets `ssl_required` is refused before the next one
  can set `ssl_on`.
- Upgrade (`gaps`): the right to a partial load is never taken back; functions of which
  only some nodes are there are dropped; a temporary file that cannot be made leaves
  views behind; whether an upgrade is allowed is asked before any lock is held.
- Types (`Gap` in `DataTypes`): a value that stays ambiguous inside COALESCE, GREATEST,
  LEAST, min or max; a CASE with ambiguous and boolean results; dates next to ambiguous
  literals in a list; a `$n` in VALUES, in a set operation or under unary minus; nested
  set operations with dates. A CHECK with a unary operator that is refused, such as `-'t'`,
  reaches the assertions at `qualify_check_constraint.c:393`, `:398` and `:400`: lines
  391-402 lack the return of `populate_data_type.c:1427` (`RefusedUnary`). The type described for a `$n` may be that of another
  operand (`octo_type_check.h:32`).
- Tables: `UNIQUE PRIMARY KEY` on one column (`UniqueFirst`), a PRIMARY KEY that
  contradicts KEY NUM, EXTRACT with SQL functions, keywords after `DELIM ""`, and
  `DELIM ""` on the first of several columns (`FirstIsWhole`).
- Dates (`exact`): years before 1; borrowing microseconds around zero; timestamptz to
  date by local and by universal time; a zone of minus zero hours; times with zone past
  midnight; a date plus a time with a zone whose local time falls on another day, which
  loses that day (`ydboctodateoperations.c:1694`); daylight saving time; and days added beyond the 64 bits: `date + n` for an
  `n` of more than a hundred million, which an INTEGER may be, overflows in
  `ADD_MICRO_SECONDS` before the range is checked (`ydboctodateoperations.c:1539`,
  `:1669`), and may come out as a date. The proof needs this case left out
  (`fits_long`); the run finds it with `n = 116` in its smaller word when it is not.

## Not modelled

Message layout, md5 and the TLS handshake (bytes on a socket); lexer and most of the
grammar (translation of one statement, with nothing to interleave and no invariant but
its own output); TRUNCATE (one YottaDB transaction); run-time parameters other than
DATESTYLE (local to a session); history files and locale. INSERT, UPDATE and DELETE
beyond their types, their locks and their plans: the rows and triggers are M code made
by templates, and a faithful model needs the cross references and constraints of many
rows at once, more than TLC can enumerate. Within the modelled parts: bind parameters
and formats, `pg_attribute` rows, the text of generated M code, composite keys,
DISTINCT, GROUP BY, set operations and sub-queries in `SelectPlan`, views inside
queries, names of the globals of UNIQUE constraints.

## Plan

In this order:

1. Rows and constraints: `tmpl_insert_into`, `tmpl_update_table`, `tmpl_delete_from`,
   `tmpl_constraint` with the triggers that keep cross references, against an abstract
   table with UNIQUE and CHECK constraints, on tables of two or three rows.
2. More of SELECT: set operations, GROUP BY, DISTINCT, sub-queries, composite keys.
3. Bind parameters and formats in `RoctoSession`.
4. The encoding of stored statements (`compress_statement.c`,
   `decompress_statement.c`) and the canonical hash, against a reference definition.
