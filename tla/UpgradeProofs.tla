--------------------------- MODULE UpgradeProofs ---------------------------
(***************************************************************************)
(* Proofs about Upgrade, for any processes, definitions and databases and  *)
(* any number of crashes and failures.                                     *)
(***************************************************************************)
EXTENDS Upgrade, TLAPS

---------------------------------------------------------------------------
(* The inductive invariant. *)

FunctionDefs == Elems(Functions)
TableDefs == Elems(Names) \ Views
Running929 == {"run929", "rerun929"}
Pass == {"functions", "tables", "run929", "mkstemp", "views"}
Loading == {"seedsql", "seedzwr"}
Marking == {"binmark", "rerun929", "seedmark"}

Process ==
    [pc : Idle \cup Work \cup {"valid", "check", "check2", "lock"}, stage : {"plan", "seed", "bin"},
     locked : BOOLEAN, full : BOOLEAN, partial : BOOLEAN, octo929 : BOOLEAN, todo : SUBSET Defs,
     file : Seq(Defs), created : SUBSET Views, allow : BOOLEAN, saved : BOOLEAN,
     permissions : {"ReadOnly", "RWAllowSchemaChanges"}]

UpgradeType ==
    /\ fmt \in [bin : Nat, plan : Nat, seed : Nat] /\ bin \in [Defs -> Nat]
    /\ viewdep \subseteq Views
    /\ proc \in [Proc -> Process] /\ held \in [Proc -> Nat]

\* Which stage a process is in, and that it works only with the lock.
Control(r, h) ==
    /\ r.pc \in Work => r.locked
    /\ r.locked => h > 0
    /\ r.pc \in {"discard", "planmark", "valid"} => r.stage = "plan"
    /\ r.pc \in Loading \cup {"check2", "rerun929", "seedmark"} => r.stage = "seed"
    /\ r.pc \in Pass => r.stage = "bin" \/ (r.stage = "seed" /\ r.full)
    /\ r.pc = "binmark" => r.stage # "plan"
    /\ r.pc \in {"ready", "query"} => r.stage = "bin" /\ r.permissions = "ReadOnly"
    /\ r.pc \in Loading => r.full \/ r.partial

\* The exclusive lock is held by one process, and no other one runs a statement.
Exclusive ==
    \A p, q \in Proc : p # q /\ held[p] > 0 => held[q] = 0 /\ proc[q].pc # "query"

\* A rocto may change the schema only while it loads or upgrades definitions.
Rights(p, r) ==
    p \in Rocto /\ "mkstemp" \notin gaps => ~r.saved /\ (r.allow => r.pc \in Loading \cup Pass)

\* No definition of S has an old binary.  This never changes again.
Done(S) == \A d \in S : bin[d] \in {0, BinFmt}

\* What was done when a process has come to its place.
Progress(r) ==
    /\ r.stage # "plan" => fmt.plan = PlanFmt
    /\ r.stage = "bin" => fmt.seed = SeedFmt
    /\ r.pc \in {"ready", "query", "rerun929", "seedmark"} => fmt.bin = BinFmt
    /\ r.partial => Done(Defs)
    /\ r.created # {} => r.pc \in {"views", "binmark"} \/ fmt.bin = BinFmt
    /\ r.stage # "bin" => r.created = {} \/ r.pc \in {"views"} \cup Marking

\* The same for the places where a process holds the lock.
Passed(r) ==
    /\ r.pc = "planmark" => plans \subseteq {PlanFmt}
    /\ r.stage = "seed" /\ r.pc \in Pass \cup Marking => seed = "cur"
    /\ r.pc = "binmark" => Done(Defs)
    /\ r.pc = "functions" => Done(FunctionDefs \ r.todo)
    /\ r.pc \in Pass \ {"functions"} => Done(FunctionDefs)
    /\ r.pc = "tables" => Done(TableDefs \ r.todo) /\ Done(Views \ (viewdep \cup r.todo))
    /\ r.pc \in {"run929", "mkstemp", "views"} => Done(TableDefs) /\ Done(Views \ viewdep)
    /\ r.pc = "views" => \A v \in r.created : bin[v] = BinFmt
    /\ r.pc \in Pass \ {"views"} => r.created = {}
    /\ r.pc \in {"functions", "tables", "run929"} => r.file \in Seq(Defs \ Views)

\* Files are written only while the definitions are upgraded.
NoFile(r) == r.pc \notin Pass \cup Marking => r.file = <<>>

Dropped(r, d) == r.pc \in Running929 /\ r.file # <<>> /\ d = Head(r.file)

\* What the database says of itself.
Truthful ==
    /\ fmt.bin \in {0, BinFmt} => Done(Defs)
    /\ Done(dangling)
    /\ fmt.plan = PlanFmt => plans \subseteq {PlanFmt}
    /\ fmt.seed = SeedFmt => seed = "cur" \/ \E p \in Proc : proc[p].pc = "seedzwr"
    /\ \A d \in had : bin[d] = 0 => \E p \in Proc : Dropped(proc[p], d)

UpgradeInv ==
    /\ UpgradeType /\ Exclusive /\ had \cup dangling \subseteq Defs
    /\ \A p \in Proc : Control(proc[p], held[p]) /\ Rights(p, proc[p]) /\ NoFile(proc[p])
    /\ gaps = {} => Truthful /\ \A p \in Proc : Progress(proc[p]) /\ Passed(proc[p])

---------------------------------------------------------------------------
(* The operators on the state of a process. *)

LEMMA WorkPlaces == Work \subseteq Idle \cup Work \cup {"valid", "check", "check2", "lock"}
  OBVIOUS

LEMMA PresentDefs == Present(Functions) \subseteq FunctionDefs /\ Present(Names) \subseteq Elems(Names)
  BY DEF Present, FunctionDefs

LEMMA ViewsAreNames == Views \subseteq Elems(Names) /\ Defs = FunctionDefs \cup TableDefs \cup Views
  BY FormatAssumption DEF Defs, FunctionDefs, TableDefs

\* The first one that is left to be visited is one of them.
LEMMA FirstIsLeft ==
    ASSUME NEW s, NEW todo, NEW d \in First(s, todo)
    PROVE  d \in todo /\ d \in Elems(s)
  BY DEF First, Elems

\* What is left to be visited, and the rights, when a piece of work begins.
TodoAt(s) ==
    IF s = "functions" THEN Present(Functions) ELSE IF s = "tables" THEN Present(Names) ELSE {}
SavedAt(r, s) == IF s \in {"seedsql", "functions"} THEN r.allow ELSE r.saved
AllowAt(r, s) ==
    IF s \in {"seedsql", "functions"} THEN TRUE
    ELSE IF s = "binmark" /\ (r.full \/ r.stage = "bin") THEN r.saved ELSE r.allow

\* The whole record again, and what Go changes of it.
LEMMA GoFields ==
    ASSUME NEW r \in Process, NEW s \in Work
    PROVE  /\ Go(r, s) \in Process
           /\ Go(r, s).pc = s
           /\ Go(r, s).stage = r.stage
           /\ Go(r, s).locked = r.locked
           /\ Go(r, s).full = r.full
           /\ Go(r, s).partial = r.partial
           /\ Go(r, s).file = r.file
           /\ Go(r, s).created = r.created
           /\ Go(r, s).todo = TodoAt(s)
           /\ Go(r, s).saved = SavedAt(r, s)
           /\ Go(r, s).allow = AllowAt(r, s)
           /\ Go(r, s).permissions = r.permissions
  <1> DEFINE octo929 == r.octo929 /\ r.pc # "rerun929"
  <1>1. TodoAt(s) \in SUBSET Defs
    BY PresentDefs DEF FunctionDefs, Defs, TodoAt
  <1>2. SavedAt(r, s) \in BOOLEAN /\ AllowAt(r, s) \in BOOLEAN /\ octo929 \in BOOLEAN
    BY Zenon DEF Process, SavedAt, AllowAt
  <1>3. Go(r, s) = [r EXCEPT !.pc = s, !.todo = TodoAt(s), !.saved = SavedAt(r, s),
                             !.allow = AllowAt(r, s), !.octo929 = octo929]
    BY DEF Go, TodoAt, SavedAt, AllowAt
  <1>4. s \in Idle \cup Work \cup {"valid", "check", "check2", "lock"}
    BY WorkPlaces
  <1> HIDE DEF octo929
  <1>5. Go(r, s) \in Process
    BY <1>1, <1>2, <1>3, <1>4, ZenonT(30) DEF Process
  <1>6. /\ Go(r, s).pc = s /\ Go(r, s).stage = r.stage /\ Go(r, s).locked = r.locked
        /\ Go(r, s).full = r.full /\ Go(r, s).partial = r.partial /\ Go(r, s).file = r.file
        /\ Go(r, s).created = r.created /\ Go(r, s).permissions = r.permissions
        /\ Go(r, s).todo = TodoAt(s) /\ Go(r, s).saved = SavedAt(r, s)
        /\ Go(r, s).allow = AllowAt(r, s)
    BY <1>3 DEF Process
  <1> QED
    BY <1>5, <1>6

\* Where each piece of work is followed by the next.
LEMMA AfterStepIs ==
    ASSUME NEW r \in Process
    PROVE  /\ r.pc = "discard" => AfterStep(r) = "planmark"
           /\ r.pc = "seedsql" => AfterStep(r) = "seedzwr"
           /\ r.pc = "seedzwr" => AfterStep(r) = IF r.full THEN "functions" ELSE "binmark"
           /\ r.pc = "functions" => AfterStep(r) = "tables"
           /\ r.pc = "tables" => AfterStep(r) \in {"run929", "views"}
           /\ r.pc = "run929" => AfterStep(r) = "mkstemp"
           /\ r.pc = "mkstemp" => AfterStep(r) = "views"
           /\ r.pc = "views" => AfterStep(r) = "binmark"
           /\ r.pc = "binmark" /\ r.stage # "bin" => AfterStep(r) \in {"rerun929", "seedmark"}
           /\ r.pc = "rerun929" => AfterStep(r) = "seedmark"
  BY Zenon DEF AfterStep

LEMMA ReturnFields ==
    ASSUME NEW r \in Process
    PROVE  /\ Return(r) \in Process
           /\ Return(r).pc = IF r.stage = "bin" THEN "ready" ELSE "check"
           /\ Return(r).stage = IF r.stage = "plan" THEN "seed" ELSE "bin"
           /\ Return(r).locked = FALSE
           /\ Return(r).full = FALSE
           /\ Return(r).partial = FALSE
           /\ Return(r).file = <<>>
           /\ Return(r).created = r.created
           /\ Return(r).allow = r.allow
           /\ Return(r).saved = r.saved
           /\ r.stage = "bin" => Return(r).permissions = "ReadOnly"
  <1> DEFINE next == [r EXCEPT !.locked = FALSE, !.full = FALSE, !.partial = FALSE,
                               !.todo = {}, !.file = <<>>]
             stage == IF r.stage = "plan" THEN "seed" ELSE "bin"
  <1>1. <<>> \in Seq(Defs) /\ {} \in SUBSET Defs /\ FALSE \in BOOLEAN
    OBVIOUS
  <1>2. next \in Process
    <2> DEFINE none == {}
               empty == <<>>
    <2>1. none \in SUBSET Defs /\ empty \in Seq(Defs)
      BY <1>1
    <2>2. next = [r EXCEPT !.locked = FALSE, !.full = FALSE, !.partial = FALSE, !.todo = none, !.file = empty]
      OBVIOUS
    <2> HIDE DEF none, empty, next
    <2> QED
      BY <2>1, <2>2, Zenon DEF Process
  <1>3. /\ next.pc = r.pc /\ next.stage = r.stage /\ next.locked = FALSE /\ next.full = FALSE
        /\ next.partial = FALSE /\ next.file = <<>> /\ next.created = r.created
        /\ next.allow = r.allow /\ next.saved = r.saved
    BY DEF Process
  <1>4. Return(r) = IF r.stage = "bin" THEN [next EXCEPT !.pc = "ready", !.permissions = "ReadOnly"]
                    ELSE [next EXCEPT !.pc = "check", !.stage = stage]
    BY DEF Return
  <1>5. /\ stage \in {"plan", "seed", "bin"}
        /\ "ready" \in Idle \cup Work \cup {"valid", "check", "check2", "lock"}
        /\ "check" \in Idle \cup Work \cup {"valid", "check", "check2", "lock"}
    BY DEF Idle
  <1> HIDE DEF next, stage
  <1>6. CASE r.stage = "bin"
    <2>1. Return(r) \in Process
      <3>1. Return(r) = [next EXCEPT !.pc = "ready", !.permissions = "ReadOnly"]
        BY <1>4, <1>6, Zenon
      <3>2. "ReadOnly" \in {"ReadOnly", "RWAllowSchemaChanges"}
        OBVIOUS
      <3> QED
        BY <1>2, <1>5, <3>1, <3>2, ZenonT(30) DEF Process
    <2>2. Return(r).pc = "ready" /\ Return(r).permissions = "ReadOnly" /\ Return(r).stage = next.stage
      BY <1>2, <1>4, <1>6 DEF Process
    <2>3. /\ Return(r).locked = next.locked /\ Return(r).full = next.full
          /\ Return(r).partial = next.partial /\ Return(r).file = next.file
          /\ Return(r).created = next.created /\ Return(r).allow = next.allow
          /\ Return(r).saved = next.saved
      BY <1>2, <1>4, <1>6 DEF Process
    <2> QED
      BY <1>3, <1>6, <2>1, <2>2, <2>3
  <1>7. CASE r.stage # "bin"
    <2>1. Return(r) \in Process
      <3>1. Return(r) = [next EXCEPT !.pc = "check", !.stage = stage]
        BY <1>4, <1>7, Zenon
      <3> QED
        BY <1>2, <1>5, <3>1, ZenonT(30) DEF Process
    <2>2. Return(r).pc = "check" /\ Return(r).stage = stage
      BY <1>2, <1>4, <1>7 DEF Process
    <2>3. /\ Return(r).locked = next.locked /\ Return(r).full = next.full
          /\ Return(r).partial = next.partial /\ Return(r).file = next.file
          /\ Return(r).created = next.created /\ Return(r).allow = next.allow
          /\ Return(r).saved = next.saved
      BY <1>2, <1>4, <1>7 DEF Process
    <2> QED
      BY <1>3, <1>7, <2>1, <2>2, <2>3 DEF stage
  <1> QED
    BY <1>6, <1>7, Zenon

\* A definition is visited: only the file and what is left may change.
LEMMA VisitedFields ==
    ASSUME NEW r \in Process, NEW d \in Defs
    PROVE  /\ Visited(r, d) \in Process
           /\ Visited(r, d).todo = r.todo \ {d}
           /\ Visited(r, d).pc = r.pc
           /\ Visited(r, d).stage = r.stage
           /\ Visited(r, d).locked = r.locked
           /\ Visited(r, d).full = r.full
           /\ Visited(r, d).partial = r.partial
           /\ Visited(r, d).file = r.file
           /\ Visited(r, d).created = r.created
           /\ Visited(r, d).allow = r.allow
           /\ Visited(r, d).saved = r.saved
           /\ Visited(r, d).permissions = r.permissions
  BY DEF Visited, Process

LEMMA EmitFields ==
    ASSUME NEW r \in Process, NEW d \in Defs
    PROVE  /\ Emit(r, d) \in Process
           /\ Emit(r, d).todo = r.todo
           /\ Emit(r, d).pc = r.pc
           /\ Emit(r, d).stage = r.stage
           /\ Emit(r, d).locked = r.locked
           /\ Emit(r, d).full = r.full
           /\ Emit(r, d).partial = r.partial
           /\ \A S \in SUBSET Defs : d \in S /\ r.file \in Seq(S) => Emit(r, d).file \in Seq(S)
           /\ Emit(r, d).created = r.created
           /\ Emit(r, d).allow = r.allow
           /\ Emit(r, d).saved = r.saved
           /\ Emit(r, d).permissions = r.permissions
  <1> DEFINE file == IF r.octo929 THEN Append(r.file, d) ELSE r.file
  <1>1. r.file \in Seq(Defs)
    BY DEF Process
  <1>2. \A S \in SUBSET Defs : d \in S /\ r.file \in Seq(S) => file \in Seq(S)
    OBVIOUS
  <1>3. file \in Seq(Defs)
    BY <1>1, <1>2
  <1>4. Emit(r, d) = [r EXCEPT !.file = file]
    BY DEF Emit
  <1> HIDE DEF file
  <1>5. Emit(r, d) \in Process /\ Emit(r, d).file = file
    BY <1>3, <1>4, ZenonT(30) DEF Process
  <1>6. /\ Emit(r, d).todo = r.todo /\ Emit(r, d).pc = r.pc /\ Emit(r, d).stage = r.stage
        /\ Emit(r, d).locked = r.locked /\ Emit(r, d).full = r.full
        /\ Emit(r, d).partial = r.partial /\ Emit(r, d).created = r.created
        /\ Emit(r, d).allow = r.allow /\ Emit(r, d).saved = r.saved
        /\ Emit(r, d).permissions = r.permissions
    BY <1>4 DEF Process
  <1> QED
    BY <1>2, <1>5, <1>6

---------------------------------------------------------------------------
(* What a step of one process leaves to the others. *)

\* No step undoes an upgrade.
Forward ==
    /\ fmt' \in [bin : Nat, plan : Nat, seed : Nat] /\ bin' \in [Defs -> Nat]
    /\ \A d \in Defs : bin'[d] \in {bin[d], 0, BinFmt}
    /\ fmt'.bin \in {fmt.bin, BinFmt}
    /\ fmt'.plan \in {fmt.plan, PlanFmt}
    /\ fmt'.seed \in {fmt.seed, SeedFmt}
    /\ viewdep' \subseteq Views /\ dangling' \subseteq dangling
    /\ plans' \subseteq plans \cup {PlanFmt}
    /\ gaps \subseteq gaps' /\ had' = had

Quiet == bin' = bin /\ fmt' = fmt /\ viewdep' = viewdep /\ seed' = seed

\* Only p, which becomes r and holds the lock h times, goes on.
OnlyOne(p, r, h) == proc' = [proc EXCEPT ![p] = r] /\ held' = [held EXCEPT ![p] = h]

LEMMA DoneForward ==
    ASSUME NEW S \in SUBSET Defs, Forward, Done(S)
    PROVE  Done(S)'
  BY DEF Forward, Done

LEMMA OthersKept ==
    ASSUME UpgradeInv, NEW p \in Proc, NEW q \in Proc, q # p, NEW r, NEW h,
           OnlyOne(p, r, h), Forward, Quiet \/ proc[p].pc \in Work
    PROVE  /\ Control(proc[q], held[q])' /\ Rights(q, proc[q])' /\ NoFile(proc[q])'
           /\ gaps' = {} => Progress(proc[q])' /\ Passed(proc[q])'
  <1>1. proc'[q] = proc[q] /\ held'[q] = held[q]
    BY DEF OnlyOne, UpgradeInv, UpgradeType
  <1>2. Control(proc[q], held[q])' /\ NoFile(proc[q])' /\ Rights(q, proc[q])'
    BY <1>1 DEF UpgradeInv, Forward, Control, NoFile, Rights
  <1>3. ASSUME gaps' = {} PROVE Progress(proc[q])' /\ Passed(proc[q])'
    <2>1. gaps = {} /\ Progress(proc[q]) /\ Passed(proc[q])
      BY <1>3 DEF UpgradeInv, Forward
    <2>2. Progress(proc[q])'
      BY <1>1, <2>1, DoneForward DEF Progress, Forward
    <2>3. CASE proc[p].pc \in Work
      <3>1. held[p] > 0 /\ held[q] = 0 /\ ~proc[q].locked
        BY <2>3 DEF UpgradeInv, UpgradeType, Control, Exclusive
      <3>2. proc[q].pc \notin Work
        BY <3>1, Zenon DEF UpgradeInv, Control
      <3> QED
        BY <1>1, <2>2, <3>2, Zenon DEF Passed, Work, Pass, Marking
    <2>4. CASE Quiet
      BY <1>1, <2>1, <2>2, <2>4 DEF Passed, Quiet, Done, Forward
    <2> QED
      BY <2>3, <2>4
  <1> QED
    BY <1>2, <1>3

\* The database keeps telling the truth.
LEMMA TruthKept ==
    ASSUME UpgradeInv, NEW p \in Proc, NEW r, NEW h, OnlyOne(p, r, h), Forward, gaps' = {},
           fmt'.bin = fmt.bin \/ Done(Defs),
           fmt'.plan = fmt.plan \/ plans' \subseteq {PlanFmt},
           \/ /\ fmt'.seed = fmt.seed /\ seed' = seed
              /\ proc[p].pc = "seedzwr" => fmt.seed # SeedFmt
           \/ seed' = "cur"
           \/ r.pc = "seedzwr",
           \A d \in had : bin'[d] = 0 => Dropped(r, d) \/ (bin[d] = 0 /\ ~Dropped(proc[p], d))
    PROVE  Truthful'
  <1>1. proc'[p] = r /\ \A q \in Proc \ {p} : proc'[q] = proc[q]
    BY Zenon DEF OnlyOne, UpgradeInv, UpgradeType
  <1>2. gaps = {} /\ Truthful
    BY Zenon DEF UpgradeInv, Forward
  <1>3. (fmt.bin \in {0, BinFmt} => Done(Defs))' /\ Done(dangling)'
    BY <1>2, DoneForward, Zenon DEF Truthful, Forward, Done, UpgradeInv
  <1>4. (fmt.plan = PlanFmt => plans \subseteq {PlanFmt})'
    BY <1>2, Zenon DEF Truthful, Forward
  <1>5. (fmt.seed = SeedFmt => seed = "cur" \/ \E q \in Proc : proc[q].pc = "seedzwr")'
    BY <1>1, <1>2, Zenon DEF Truthful
  <1>6. ASSUME NEW d \in had', bin'[d] = 0 PROVE (\E q \in Proc : Dropped(proc[q], d))'
    <2>1. d \in had
      BY <1>6, Zenon DEF Forward
    <2>2. CASE Dropped(r, d)
      BY <1>1, <2>2, Zenon DEF Dropped
    <2>3. CASE bin[d] = 0 /\ ~Dropped(proc[p], d)
      <3>1. PICK q \in Proc : Dropped(proc[q], d)
        BY <1>2, <2>1, <2>3, Zenon DEF Truthful
      <3>2. q # p /\ proc'[q] = proc[q]
        BY <1>1, <2>3, <3>1, Zenon
      <3> QED
        BY <3>1, <3>2, Zenon DEF Dropped
    <2> QED
      BY <1>6, <2>1, <2>2, <2>3, Zenon
  <1> QED
    BY <1>3, <1>4, <1>5, <1>6, Zenon DEF Truthful

\* The invariant from what the step makes of its own process.
LEMMA Assemble ==
    ASSUME UpgradeInv, NEW p \in Proc, NEW r \in Process, NEW h \in Nat,
           OnlyOne(p, r, h), Forward, Quiet \/ proc[p].pc \in Work,
           h > 0 => held[p] > 0 \/ Free(p),
           r.pc = "query" => proc[p].pc = "query" \/ \A q \in Proc \ {p} : held[q] = 0,
           Control(r, h), Rights(p, r)', NoFile(r),
           gaps' = {} => Truthful' /\ Progress(r)' /\ Passed(r)'
    PROVE  UpgradeInv'
  <1>1. proc'[p] = r /\ held'[p] = h
    BY Zenon DEF OnlyOne, UpgradeInv, UpgradeType
  <1>2. \A q \in Proc \ {p} : proc'[q] = proc[q] /\ held'[q] = held[q]
    BY Zenon DEF OnlyOne, UpgradeInv, UpgradeType
  <1>3. UpgradeType' /\ (had \cup dangling)' \subseteq Defs
    BY Zenon DEF OnlyOne, UpgradeInv, UpgradeType, Forward
  <1>4. Exclusive'
    <2>1. SUFFICES ASSUME NEW a \in Proc, NEW b \in Proc, a # b, held'[a] > 0
                   PROVE  held'[b] = 0 /\ proc'[b].pc # "query"
      BY Zenon DEF Exclusive
    <2>2. CASE a # p /\ b # p
      BY <1>2, <2>1, <2>2, ZenonT(40) DEF UpgradeInv, Exclusive
    <2>3. CASE a = p
      BY <1>1, <1>2, <2>1, <2>3, SMTT(30) DEF UpgradeInv, Exclusive, Free
    <2>4. CASE b = p
      <3>1. held[a] > 0 /\ ~Free(p) /\ held[p] = 0 /\ proc[p].pc # "query"
        BY <1>2, <2>1, <2>4 DEF UpgradeInv, UpgradeType, Exclusive, Free
      <3> QED
        BY <1>1, <2>1, <2>4, <3>1, SMTT(30)
    <2> QED
      BY <2>2, <2>3, <2>4, Zenon
  <1>5. ASSUME NEW q \in Proc
        PROVE  /\ Control(proc[q], held[q])' /\ Rights(q, proc[q])' /\ NoFile(proc[q])'
               /\ gaps' = {} => Progress(proc[q])' /\ Passed(proc[q])'
    <2>1. CASE q # p
      BY <2>1, OthersKept, Zenon
    <2>2. CASE q = p
      <3>1. Control(proc[q], held[q])' /\ Rights(q, proc[q])' /\ NoFile(proc[q])'
        BY <1>1, <2>2, Zenon DEF Control, Rights, NoFile
      <3>2. gaps' = {} => Progress(proc[q])'
        BY <1>1, <2>2, Zenon DEF Progress
      <3>3. gaps' = {} => Passed(proc[q])'
        BY <1>1, <2>2, ZenonT(30) DEF Passed
      <3> QED
        BY <3>1, <3>2, <3>3, Zenon
    <2> QED
      BY <2>1, <2>2, Zenon
  <1> QED
    BY <1>3, <1>4, <1>5, Zenon DEF UpgradeInv

\* A step that changes nothing in the database but adds a plan.
LEMMA QuietStep ==
    ASSUME UpgradeInv, NEW p \in Proc, NEW r \in Process, NEW h \in Nat, OnlyOne(p, r, h),
           UNCHANGED <<fmt, bin, dangling, viewdep, seed, had>>,
           plans' \subseteq plans \cup {PlanFmt}, gaps \subseteq gaps',
           h > 0 => held[p] > 0 \/ Free(p),
           r.pc = "query" => proc[p].pc = "query" \/ \A q \in Proc \ {p} : held[q] = 0,
           Control(r, h), Rights(p, r)', NoFile(r),
           gaps' = {} => /\ Progress(r) /\ Passed(r)
                         /\ proc[p].pc = "seedzwr" => fmt.seed # SeedFmt
                         /\ \A d \in had : bin[d] = 0 => Dropped(r, d) \/ ~Dropped(proc[p], d)
    PROVE  UpgradeInv'
  <1>1. Forward /\ Quiet
    BY Zenon DEF Forward, Quiet, UpgradeInv, UpgradeType
  <1>2. ASSUME gaps' = {} PROVE Truthful'
    BY <1>1, <1>2, TruthKept, Zenon
  <1>3. ASSUME gaps' = {} PROVE Progress(r)'
    BY <1>3, Zenon DEF Progress, Done
  <1>4. ASSUME gaps' = {} PROVE Passed(r)'
    BY <1>4, ZenonT(30) DEF Passed, Done
  <1> QED
    BY <1>1, <1>2, <1>3, <1>4, Assemble, Zenon

\* What is known of a process between two steps.
LEMMA OfProcess ==
    ASSUME UpgradeInv, NEW p \in Proc
    PROVE  /\ proc[p] \in Process /\ held[p] \in Nat
           /\ Control(proc[p], held[p]) /\ Rights(p, proc[p]) /\ NoFile(proc[p])
           /\ gaps = {} => Truthful /\ Progress(proc[p]) /\ Passed(proc[p])
  BY Zenon DEF UpgradeInv, UpgradeType

\* The stage is over.
LEMMA Returned ==
    ASSUME UpgradeInv, NEW p \in Proc, NEW r \in Process, NEW h \in Nat, Forward,
           r.pc = proc[p].pc, r.stage = proc[p].stage, r.created = proc[p].created,
           r.allow = proc[p].allow, r.saved = proc[p].saved,
           r.pc \in {"check", "planmark", "binmark", "seedmark"} \/ "mkstemp" \in gaps',
           gaps' = {} => /\ r.stage = "plan" => fmt'.plan = PlanFmt
                         /\ r.stage = "seed" => fmt'.seed = SeedFmt
                         /\ r.stage = "bin" \/ r.pc = "binmark" => fmt'.bin = BinFmt
    PROVE  /\ Return(r) \in Process /\ Return(r).pc # "query"
           /\ Return(r).pc \notin Work
           /\ Control(Return(r), h) /\ NoFile(Return(r)) /\ Rights(p, Return(r))'
           /\ gaps' = {} => Progress(Return(r))' /\ Passed(Return(r))'
  <1> PICK n : n = Return(r)
    OBVIOUS
  <1>1. n \in Process /\ n.pc \in {"ready", "check"} /\ n.pc \notin Work
    BY ReturnFields, Zenon DEF Work
  <1>2. Control(n, h)
    BY <1>1, ReturnFields, ZenonT(30) DEF Control, Work, Loading, Pass, Process
  <1>3. NoFile(n) /\ Rights(p, n)'
    BY ReturnFields, OfProcess, ZenonT(30) DEF NoFile, Rights, Loading, Pass, Forward
  <1>4. ASSUME gaps' = {} PROVE Progress(n)'
    <2>1. Progress(proc[p]) /\ r.pc \in {"check", "planmark", "binmark", "seedmark"}
      BY <1>4, OfProcess, Zenon DEF Forward
    <2>2. n.created = r.created /\ ~n.partial
      BY ReturnFields, Zenon
    <2>3. (n.stage # "plan" => fmt.plan = PlanFmt)' /\ (n.stage = "bin" => fmt.seed = SeedFmt)'
      BY <1>4, <2>1, ReturnFields, ZenonT(30) DEF Progress, Process, Forward
    <2>4. (n.pc \in {"ready", "query", "rerun929", "seedmark"} => fmt.bin = BinFmt)'
      BY <1>4, ReturnFields, ZenonT(30)
    <2>5. n.created # {} => fmt'.bin = BinFmt
      BY <1>4, <2>1, <2>2, Zenon DEF Progress, Forward
    <2>6. n.stage # "bin" => n.created = {}
      BY <2>1, <2>2, ReturnFields, OfProcess, ZenonT(30) DEF Progress, Control, Marking, Work, Process
    <2> QED
      BY <2>2, <2>3, <2>4, <2>5, <2>6, Zenon DEF Progress
  <1>5. Passed(n)'
    BY <1>1 DEF Passed, Pass, Marking
  <1> QED
    BY <1>1, <1>2, <1>3, <1>4, <1>5, Zenon

---------------------------------------------------------------------------
(* Each action keeps the invariant.  First those that only read the        *)
(* database.                                                               *)

LEMMA OffFields ==
    /\ Off \in Process /\ Off.pc = "off" /\ Off.stage = "plan" /\ Off.locked = FALSE
    /\ Off.full = FALSE /\ Off.partial = FALSE /\ Off.file = <<>> /\ Off.created = {}
    /\ Off.allow = FALSE /\ Off.saved = FALSE
  <1>1. <<>> \in Seq(Defs) /\ "off" \in Idle
    BY DEF Idle
  <1> QED
    BY <1>1 DEF Off, Process

LEMMA Exited ==
    ASSUME UpgradeInv, NEW p \in Proc, NEW hole, Exit(p, hole),
           proc[p].pc \notin Work \/ hole = Hole(p)
    PROVE  UpgradeInv'
  <1> PICK n : n = Off
    BY Zenon
  <1>1. OnlyOne(p, n, 0) /\ UNCHANGED <<fmt, bin, dangling, viewdep, plans, seed, had>>
    BY Zenon DEF Exit, OnlyOne, Set, db
  <1>2. gaps' = gaps \cup hole
    BY Zenon DEF Exit
  <1>3. Control(n, 0) /\ NoFile(n) /\ Rights(p, n)'
    BY OffFields, Zenon DEF Control, NoFile, Rights, Work, Loading, Pass
  <1>4. Progress(n) /\ Passed(n)
    BY OffFields, Zenon DEF Progress, Passed, Pass, Marking
  <1>5. ASSUME gaps' = {}
        PROVE  /\ proc[p].pc = "seedzwr" => fmt.seed # SeedFmt
               /\ \A d \in had : bin[d] = 0 => ~Dropped(proc[p], d)
    <2>1. proc[p].pc \notin Work \/ Hole(p) = {}
      BY <1>2, <1>5, Zenon
    <2> QED
      BY <2>1, Zenon DEF Hole, Work, Dropped, Running929
  <1> QED
    BY <1>1, <1>2, <1>3, <1>4, <1>5, OffFields, QuietStep

LEMMA ExitSteps ==
    ASSUME UpgradeInv, NEW p \in Proc,
           DatabaseTooNew(p) \/ LockTimeout(p) \/ StepFails(p) \/ Stop(p) \/ Crash(p)
    PROVE  UpgradeInv'
  <1>1. CASE DatabaseTooNew(p) \/ LockTimeout(p) \/ Stop(p)
    <2>1. Exit(p, {}) /\ proc[p].pc \notin Work
      BY <1>1, Zenon DEF DatabaseTooNew, LockTimeout, Stop, Work
    <2> QED
      BY <2>1, Exited, Zenon
  <1>2. CASE StepFails(p) \/ Crash(p)
    BY <1>2, Exited, Zenon DEF StepFails, Crash
  <1> QED
    BY <1>1, <1>2, Zenon

LEMMA StartStep ==
    ASSUME UpgradeInv, NEW p \in Proc, Start(p)
    PROVE  UpgradeInv'
  <1> PICK n : n = [Off EXCEPT !.pc = "valid", !.allow = p \notin Rocto]
    OBVIOUS
  <1>1. n \in Process
    BY OffFields, ZenonT(30) DEF Process
  <1>2. /\ n.pc = "valid" /\ n.stage = "plan" /\ n.locked = FALSE /\ n.partial = FALSE
        /\ n.file = <<>> /\ n.created = {} /\ n.allow = (p \notin Rocto) /\ n.saved = FALSE
    BY OffFields DEF Process
  <1>3. held[p] \in Nat /\ proc[p].pc = "off"
    BY OfProcess DEF Start
  <1>4. OnlyOne(p, n, held[p]) /\ UNCHANGED <<fmt, bin, dangling, viewdep, plans, seed, had, gaps>>
    BY DEF Start, OnlyOne, Set, db, UpgradeInv, UpgradeType
  <1>5. Control(n, held[p]) /\ NoFile(n) /\ Rights(p, n)'
    BY <1>2, Zenon DEF Control, NoFile, Rights, Work, Loading, Pass
  <1>6. Progress(n) /\ Passed(n)
    BY <1>2, Zenon DEF Progress, Passed, Pass, Marking
  <1>7. \A d \in had : ~Dropped(proc[p], d)
    BY <1>3, Zenon DEF Dropped, Running929
  <1> QED
    BY <1>1, <1>2, <1>3, <1>4, <1>5, <1>6, <1>7, QuietStep, Zenon

\* A step that only moves a process to another place, of no work.
LEMMA Moved ==
    ASSUME UpgradeInv, NEW p \in Proc, NEW n \in Process, NEW h \in Nat, OnlyOne(p, n, h),
           UNCHANGED <<fmt, bin, dangling, viewdep, seed, had, gaps>>,
           plans' \subseteq plans \cup {PlanFmt},
           h > 0 => held[p] > 0 \/ Free(p),
           n.pc = "query" => \A q \in Proc \ {p} : held[q] = 0,
           n.locked => h > 0,
           proc[p].pc \notin Work, n.pc \notin Work,
           n.stage = proc[p].stage, n.file = proc[p].file, n.created = proc[p].created,
           n.allow = proc[p].allow, n.saved = proc[p].saved,
           n.pc = "valid" => n.stage = "plan",
           n.pc = "check2" => n.stage = "seed",
           n.pc \in {"ready", "query"} =>
               proc[p].pc \in {"ready", "query"} /\ n.permissions = proc[p].permissions,
           n.partial => proc[p].partial \/ fmt.bin = 0
    PROVE  UpgradeInv'
  <1>1. Control(n, h)
    BY OfProcess, ZenonT(30) DEF Control, Work, Loading, Pass
  <1>2. NoFile(n) /\ Rights(p, n)'
    BY OfProcess, Zenon DEF NoFile, Rights, Work, Loading, Pass, Marking
  <1>3. ASSUME gaps = {} PROVE Progress(n)
    BY <1>3, OfProcess, ZenonT(30) DEF Progress, Truthful, Work, Marking
  <1>4. Passed(n)
    BY Zenon DEF Passed, Work, Pass, Marking
  <1>5. proc[p].pc # "seedzwr" /\ \A d \in had : ~Dropped(proc[p], d)
    BY Zenon DEF Dropped, Running929, Work
  <1> QED
    BY <1>1, <1>2, <1>3, <1>4, <1>5, QuietStep, Zenon

LEMMA MoveSteps ==
    ASSUME UpgradeInv, NEW p \in Proc,
           is_auto_upgrade_valid(p) \/ SeedUndefined(p) \/ LockExclusive(p) \/ Query(p) \/ QueryDone(p)
    PROVE  UpgradeInv'
  <1> PICK r \in Process : r = proc[p]
    BY OfProcess, Zenon
  <1>1. held[p] \in Nat /\ (r.locked => held[p] > 0)
    BY OfProcess DEF Control
  <1>2. CASE is_auto_upgrade_valid(p)
    <2> DEFINE rights == IF p \in Rocto THEN "RWAllowSchemaChanges" ELSE r.permissions
    <2>1. rights \in {"ReadOnly", "RWAllowSchemaChanges"}
      BY DEF Process
    <2> PICK n : n = [r EXCEPT !.pc = "check", !.permissions = rights]
      OBVIOUS
    <2>2. n = [r EXCEPT !.pc = "check", !.permissions = IF p \in Rocto THEN "RWAllowSchemaChanges" ELSE @]
      BY DEF Process
    <2> HIDE DEF rights
    <2>3. n \in Process
      BY <2>1, ZenonT(30) DEF Process
    <2>4. /\ n.pc = "check" /\ n.stage = r.stage /\ n.locked = r.locked /\ n.partial = r.partial
          /\ n.file = r.file /\ n.created = r.created /\ n.allow = r.allow /\ n.saved = r.saved
      BY DEF Process
    <2>5. OnlyOne(p, n, held[p]) /\ UNCHANGED <<fmt, bin, dangling, viewdep, plans, seed, had, gaps>>
      BY <1>2, <2>2, Zenon DEF is_auto_upgrade_valid, OnlyOne, Set, db, UpgradeInv, UpgradeType
    <2>6. r.pc \notin Work /\ n.pc \notin Work
      BY <1>2, <2>4, Zenon DEF is_auto_upgrade_valid, Work
    <2> QED
      BY <1>1, <2>3, <2>4, <2>5, <2>6, Moved, ZenonT(30)
  <1>3. CASE SeedUndefined(p)
    <2> PICK n : n = [r EXCEPT !.pc = "check2"]
      BY Zenon
    <2>1. n \in Process
      BY DEF Process
    <2>2. /\ n.pc = "check2" /\ n.stage = r.stage /\ n.locked = r.locked /\ n.partial = r.partial
          /\ n.file = r.file /\ n.created = r.created /\ n.allow = r.allow /\ n.saved = r.saved
      BY DEF Process
    <2>3. OnlyOne(p, n, held[p]) /\ UNCHANGED <<fmt, bin, dangling, viewdep, plans, seed, had, gaps>>
      BY <1>3 DEF SeedUndefined, OnlyOne, Set, db, UpgradeInv, UpgradeType
    <2>4. r.pc \notin Work /\ n.pc \notin Work /\ r.stage = "seed"
      BY <1>3, <2>2, Zenon DEF SeedUndefined, Work
    <2> QED
      BY <1>1, <2>1, <2>2, <2>3, <2>4, Moved, ZenonT(30)
  <1>4. CASE LockExclusive(p)
    <2> PICK n : n = [r EXCEPT !.pc = "check", !.locked = TRUE]
      OBVIOUS
    <2>1. n \in Process
      BY ZenonT(30) DEF Process
    <2>2. /\ n.pc = "check" /\ n.stage = r.stage /\ n.partial = r.partial
          /\ n.file = r.file /\ n.created = r.created /\ n.allow = r.allow /\ n.saved = r.saved
      BY DEF Process
    <2>3. OnlyOne(p, n, held[p] + 1) /\ UNCHANGED <<fmt, bin, dangling, viewdep, plans, seed, had, gaps>>
      BY <1>4, Zenon DEF LockExclusive, OnlyOne, Set, db, UpgradeInv, UpgradeType
    <2>4. r.pc \notin Work /\ n.pc \notin Work /\ Free(p)
      BY <1>4, <2>2, Zenon DEF LockExclusive, Work
    <2>5. held[p] + 1 \in Nat /\ held[p] + 1 > 0
      BY <1>1
    <2> QED
      BY <1>1, <2>1, <2>2, <2>3, <2>4, <2>5, Moved, ZenonT(30)
  <1>5. CASE Query(p)
    <2> PICK n : n = [r EXCEPT !.pc = "query"]
      BY Zenon
    <2>1. n \in Process
      BY DEF Process, Idle
    <2>2. /\ n.pc = "query" /\ n.stage = r.stage /\ n.locked = r.locked /\ n.partial = r.partial
          /\ n.file = r.file /\ n.created = r.created /\ n.allow = r.allow /\ n.saved = r.saved
          /\ n.permissions = r.permissions
      BY DEF Process
    <2>3. OnlyOne(p, n, held[p]) /\ UNCHANGED <<fmt, bin, dangling, viewdep, seed, had, gaps>>
      BY <1>5 DEF Query, OnlyOne, Set, UpgradeInv, UpgradeType
    <2>4. r.pc = "ready" /\ r.pc \notin Work /\ n.pc \notin Work
      BY <1>5, <2>2 DEF Query, Work
    <2>5. plans' \subseteq plans \cup {PlanFmt} /\ \A q \in Proc \ {p} : held[q] = 0
      BY <1>5 DEF Query
    <2>6. n.pc # "valid" /\ n.pc # "check2" /\ (n.locked => held[p] > 0)
      BY <1>1, <2>2
    <2> QED
      BY <1>1, <2>1, <2>2, <2>3, <2>4, <2>5, <2>6, Moved, ZenonT(30)
  <1>6. CASE QueryDone(p)
    <2> PICK n : n = [r EXCEPT !.pc = "ready"]
      BY Zenon
    <2>1. n \in Process
      BY DEF Process, Idle
    <2>2. /\ n.pc = "ready" /\ n.stage = r.stage /\ n.locked = r.locked /\ n.partial = r.partial
          /\ n.file = r.file /\ n.created = r.created /\ n.allow = r.allow /\ n.saved = r.saved
          /\ n.permissions = r.permissions
      BY DEF Process
    <2>3. OnlyOne(p, n, held[p]) /\ UNCHANGED <<fmt, bin, dangling, viewdep, plans, seed, had, gaps>>
      BY <1>6 DEF QueryDone, OnlyOne, Set, db, UpgradeInv, UpgradeType
    <2>4. r.pc = "query" /\ r.pc \notin Work /\ n.pc \notin Work
      BY <1>6, <2>2 DEF QueryDone, Work
    <2> QED
      BY <1>1, <2>1, <2>2, <2>3, <2>4, Moved, ZenonT(30)
  <1> QED
    BY <1>2, <1>3, <1>4, <1>5, <1>6, Zenon

---------------------------------------------------------------------------
(* From one piece of work to the next. *)

\* The places where a piece of work belongs, for a process at r.
Belongs(r, s) ==
    /\ s \in {"discard", "planmark"} => r.stage = "plan"
    /\ s \in Loading \cup {"rerun929", "seedmark"} => r.stage = "seed"
    /\ s \in Pass => r.stage = "bin" \/ (r.stage = "seed" /\ r.full)
    /\ s = "binmark" => r.stage # "plan"
    /\ s \in Loading => r.full \/ r.partial
    /\ s \notin Pass \cup Marking => r.file = <<>>

\* The right to change the schema goes when the work that needs it is done.
Lowers(r, s) ==
    ~r.saved /\ (r.allow => \/ s \in (Loading \cup Pass) \ {"seedsql", "functions"}
                            \/ s = "binmark" /\ (r.full \/ r.stage = "bin"))

LEMMA GoneTo ==
    ASSUME NEW p \in Proc, NEW r \in Process, NEW s \in Work, NEW n, n = Go(r, s), NEW h \in Nat, h > 0,
           r.locked, Belongs(r, s), p \in Rocto /\ "mkstemp" \notin gaps' => Lowers(r, s)
    PROVE  n \in Process /\ Control(n, h) /\ Rights(p, n)' /\ NoFile(n)
  <1>1. /\ n \in Process /\ n.pc = s /\ n.stage = r.stage /\ n.locked = r.locked
        /\ n.full = r.full /\ n.partial = r.partial /\ n.file = r.file
    BY GoFields, ZenonT(30)
  <1>2. Control(n, h)
    BY <1>1, Zenon DEF Control, Belongs, Work
  <1>3. NoFile(n)
    BY <1>1, Zenon DEF NoFile, Belongs
  <1>4. ASSUME Lowers(r, s) PROVE ~n.saved /\ (n.allow => n.pc \in Loading \cup Pass)
    <2>1. n.saved = SavedAt(r, s) /\ n.allow = AllowAt(r, s)
      BY GoFields, Zenon
    <2> QED
      BY <1>1, <1>4, <2>1, Zenon DEF Lowers, Loading, Pass, SavedAt, AllowAt
  <1> QED
    BY <1>1, <1>2, <1>3, <1>4 DEF Rights

LEMMA ProgressTo ==
    ASSUME Forward, NEW r, NEW n, Progress(r),
           n.stage = r.stage, n.partial = r.partial, n.created = r.created,
           n.pc \in {"ready", "query", "rerun929", "seedmark"} => fmt'.bin = BinFmt,
           n.created # {} => n.pc \in {"views", "binmark"} \/ fmt'.bin = BinFmt,
           n.stage # "bin" => n.created = {} \/ n.pc \in {"views"} \cup Marking
    PROVE  Progress(n)'
  BY DoneForward, Zenon DEF Progress, Forward

\* The check of a stage has found work to do and the lock is held.
LEMMA CheckGoes ==
    ASSUME UpgradeInv, NEW p \in Proc, NEW r \in Process, NEW s \in {"discard", "seedsql", "functions"},
           r.pc = proc[p].pc, r.pc \in {"check", "check2"}, r.stage = proc[p].stage,
           r.locked = proc[p].locked, r.file = proc[p].file, r.created = proc[p].created,
           r.allow = proc[p].allow, r.saved = proc[p].saved,
           r.partial => proc[p].partial \/ fmt.bin = 0,
           r.locked, Set(p, Go(r, s)), UNCHANGED <<db, held, had, gaps>>,
           s = "discard" => r.stage = "plan",
           s = "seedsql" => r.stage = "seed" /\ (r.full \/ r.partial),
           s = "functions" => r.stage = "bin" /\ fmt.bin # BinFmt
    PROVE  UpgradeInv'
  <1> PICK n : n = Go(r, s)
    BY ZenonT(30)
  <1>1. s \in Work
    BY Zenon DEF Work
  <1>2. /\ n.pc = s /\ n.stage = r.stage /\ n.partial = r.partial
        /\ n.file = r.file /\ n.created = r.created
        /\ n.todo = TodoAt(s)
    BY <1>1, GoFields, Zenon
  <1>3. held[p] \in Nat /\ held[p] > 0 /\ proc[p] \in Process
    BY OfProcess, ZenonT(30) DEF Control
  <1>4. NoFile(proc[p]) /\ r.pc \notin Pass \cup Marking \cup Loading /\ r.file = <<>>
    BY OfProcess, Zenon DEF NoFile, Pass, Marking, Loading
  <1>5. Belongs(r, s)
    BY <1>4, Zenon DEF Belongs, Loading, Pass
  <1>6. p \in Rocto /\ "mkstemp" \notin gaps' => Lowers(r, s)
    BY <1>4, OfProcess, Zenon DEF Lowers, Rights
  <1>7. n \in Process /\ Control(n, held[p]) /\ Rights(p, n)' /\ NoFile(n)
    BY <1>1, <1>3, <1>5, <1>6, GoneTo, Zenon
  <1>8. ASSUME gaps' = {} PROVE Progress(n) /\ Passed(n)
    <2>1. Progress(proc[p]) /\ Truthful
      BY <1>8, OfProcess, Zenon
    <2>2. n.created = {} \/ (n.created # {} /\ fmt.bin = BinFmt)
      BY <1>2, <1>4, <2>1, Zenon DEF Progress
    <2>3. n.stage # "bin" => n.created = {}
      BY <1>2, <1>4, <2>1, Zenon DEF Progress, Marking
    <2>4. Progress(n)
      BY <1>2, <2>1, <2>2, <2>3, ZenonT(30) DEF Progress, Truthful
    <2>5. n.pc = "functions" => Done(FunctionDefs \ n.todo)
      BY <1>2, Zenon DEF Done, Present, FunctionDefs, TodoAt
    <2>6. n.file \in Seq(Defs \ Views)
      BY <1>2, <1>4, SMTT(30)
    <2>7. n.pc = "functions" => n.created = {} /\ n.stage = "bin"
      BY <1>2, <2>2, Zenon
    <2> QED
      BY <1>2, <2>4, <2>5, <2>6, <2>7, Zenon DEF Passed, Pass, Marking
  <1>9. OnlyOne(p, n, held[p]) /\ UNCHANGED <<fmt, bin, dangling, viewdep, plans, seed, had, gaps>>
    BY Zenon DEF OnlyOne, Set, db, UpgradeInv, UpgradeType
  <1>10. proc[p].pc # "seedzwr" /\ n.pc # "query" /\ \A d \in had : ~Dropped(proc[p], d)
    BY <1>2, Zenon DEF Dropped, Running929
  <1> QED
    BY <1>3, <1>7, <1>8, <1>9, <1>10, QuietStep, ZenonT(30)

\* r is p with another view of what is to be done.
SameButNeeds(p, r) ==
    /\ r.pc = proc[p].pc /\ r.pc \in {"check", "check2"}
    /\ r.stage = proc[p].stage /\ r.locked = proc[p].locked /\ r.file = proc[p].file
    /\ r.created = proc[p].created /\ r.allow = proc[p].allow /\ r.saved = proc[p].saved
    /\ r.partial => proc[p].partial \/ fmt.bin = 0

LEMMA Decided ==
    ASSUME UpgradeInv, NEW p \in Proc, NEW r \in Process, SameButNeeds(p, r), NEW needed \in BOOLEAN,
           NEW s \in {"discard", "seedsql", "functions"}, Decide(p, r, needed, s),
           UNCHANGED <<db, held, had, gaps>>,
           needed => /\ s = "discard" => r.stage = "plan"
                     /\ s = "seedsql" => r.stage = "seed" /\ (r.full \/ r.partial)
                     /\ s = "functions" => r.stage = "bin" /\ fmt.bin # BinFmt,
           ~needed => /\ r.pc = "check"
                      /\ r.stage = "plan" => fmt.plan = PlanFmt
                      /\ r.stage = "seed" => fmt.seed = SeedFmt
                      /\ r.stage = "bin" => fmt.bin = BinFmt
    PROVE  UpgradeInv'
  <1>1. /\ proc[p] \in Process /\ held[p] \in Nat /\ Control(proc[p], held[p])
        /\ r.locked => held[p] > 0
    BY OfProcess, Zenon DEF Control, SameButNeeds
  <1>2. UNCHANGED <<fmt, bin, dangling, viewdep, plans, seed>>
    BY Zenon DEF db
  <1>3. ASSUME NEW n, Set(p, n) PROVE OnlyOne(p, n, held[p])
    BY <1>3, Zenon DEF OnlyOne, Set, UpgradeInv, UpgradeType
  <1>4. CASE ~needed /\ Set(p, Return(r))
    <2> PICK n : n = Return(r)
      BY Zenon
    <2>1. Forward
      BY <1>2, Zenon DEF Forward, UpgradeInv, UpgradeType
    <2>2. /\ n \in Process /\ n.pc # "query" /\ Control(n, held[p]) /\ NoFile(n) /\ Rights(p, n)'
          /\ gaps' = {} => Progress(n)' /\ Passed(n)'
      BY <1>1, <1>2, <1>4, <2>1, Returned, ZenonT(30) DEF SameButNeeds
    <2>3. gaps' = {} => Progress(n) /\ Passed(n)
      BY <1>2, <2>2, ZenonT(30) DEF Progress, Passed, Done
    <2>4. OnlyOne(p, n, held[p])
      BY <1>3, <1>4, Zenon
    <2>5. proc[p].pc # "seedzwr" /\ \A d \in had : ~Dropped(proc[p], d)
      BY DEF Dropped, Running929, SameButNeeds
    <2> QED
      BY <1>1, <1>2, <2>2, <2>3, <2>4, <2>5, QuietStep, ZenonT(30)
  <1>5. CASE Set(p, [r EXCEPT !.pc = "lock"])
    <2> PICK n : n = [r EXCEPT !.pc = "lock"]
      BY Zenon
    <2>1. n \in Process
      BY Zenon DEF Process
    <2>2. /\ n.pc = "lock" /\ n.stage = r.stage /\ n.locked = r.locked /\ n.partial = r.partial
          /\ n.file = r.file /\ n.created = r.created /\ n.allow = r.allow /\ n.saved = r.saved
      BY DEF Process
    <2>3. OnlyOne(p, n, held[p])
      BY <1>3, <1>5
    <2>4. proc[p].pc \notin Work /\ n.pc \notin Work
      BY <2>2, Zenon DEF SameButNeeds, Work
    <2> QED
      BY <1>1, <1>2, <2>1, <2>2, <2>3, <2>4, Moved, ZenonT(30) DEF SameButNeeds
  <1>6. CASE needed /\ r.locked /\ Set(p, Go(r, s))
    BY <1>6, CheckGoes, Zenon DEF SameButNeeds
  <1> QED
    BY <1>4, <1>5, <1>6, Zenon DEF Decide

LEMMA CheckSteps ==
    ASSUME UpgradeInv, NEW p \in Proc,
           CheckPlan(p) \/ CheckBinary(p) \/ CheckSeed(p) \/ CheckSeedUndefined(p)
    PROVE  UpgradeInv'
  <1> PICK r0 \in Process : r0 = proc[p]
    BY OfProcess, Zenon
  <1>1. CASE CheckPlan(p)
    <2>1. SameButNeeds(p, r0) /\ r0.stage = "plan" /\ r0.pc = "check"
      BY <1>1, Zenon DEF CheckPlan, SameButNeeds
    <2>2. Decide(p, r0, fmt.plan # PlanFmt, "discard") /\ UNCHANGED <<db, held, had, gaps>>
      BY <1>1, Zenon DEF CheckPlan
    <2> QED
      BY <2>1, <2>2, Decided, ZenonT(30)
  <1>2. CASE CheckBinary(p)
    <2>1. SameButNeeds(p, r0) /\ r0.stage = "bin" /\ r0.pc = "check"
      BY <1>2, Zenon DEF CheckBinary, SameButNeeds
    <2>2. Decide(p, r0, fmt.bin # BinFmt, "functions") /\ UNCHANGED <<db, held, had, gaps>>
      BY <1>2, Zenon DEF CheckBinary
    <2> QED
      BY <2>1, <2>2, Decided, Zenon
  <1>3. CASE CheckSeed(p)
    <2> DEFINE full == fmt.seed # SeedFmt
               octo929 == r0.octo929 \/ fmt.seed < Seed929
    <2> PICK r : r = [r0 EXCEPT !.full = full, !.octo929 = octo929]
      BY Zenon
    <2>1. full \in BOOLEAN /\ octo929 \in BOOLEAN
      BY Zenon DEF Process
    <2>2. r = [proc[p] EXCEPT !.full = fmt.seed # SeedFmt, !.octo929 = @ \/ fmt.seed < Seed929]
      BY Zenon DEF Process
    <2>3. /\ r0.pc = "check" /\ r0.stage = "seed"
          /\ Decide(p, r, r.full \/ r.partial, "seedsql") /\ UNCHANGED <<db, held, had, gaps>>
      BY <1>3, <2>2, Zenon DEF CheckSeed
    <2> HIDE DEF full, octo929
    <2>4. r \in Process
      BY <2>1, ZenonT(30) DEF Process
    <2>5. r.full = full /\ SameButNeeds(p, r) /\ r.stage = "seed" /\ r.pc = "check"
      BY <2>3 DEF SameButNeeds, Process
    <2>6. r.full \/ r.partial \in BOOLEAN
      BY <2>4 DEF Process
    <2>7. ~r.full => fmt.seed = SeedFmt
      BY <2>5, Zenon DEF full
    <2> QED
      BY <2>3, <2>4, <2>5, <2>6, <2>7, Decided, Zenon
  <1>4. CASE CheckSeedUndefined(p)
    <2> PICK r : r = IF fmt.bin = 0 THEN [r0 EXCEPT !.partial = TRUE]
                     ELSE [r0 EXCEPT !.full = TRUE, !.octo929 = TRUE]
      BY Zenon
    <2>1. r0.pc = "check2" /\ Decide(p, r, TRUE, "seedsql") /\ UNCHANGED <<db, held, had, gaps>>
      BY <1>4, Zenon DEF CheckSeedUndefined
    <2>2. r \in Process
      <3>1. [r0 EXCEPT !.partial = TRUE] \in Process
        BY Zenon DEF Process
      <3>2. [r0 EXCEPT !.full = TRUE, !.octo929 = TRUE] \in Process
        BY Zenon DEF Process
      <3> QED
        BY <3>1, <3>2, Zenon
    <2>3. SameButNeeds(p, r)
      <3>1. CASE fmt.bin = 0
        BY <2>1, <3>1, Zenon DEF SameButNeeds, Process
      <3>2. CASE fmt.bin # 0
        <4>1. r = [r0 EXCEPT !.full = TRUE, !.octo929 = TRUE]
          BY <3>2, Zenon
        <4> QED
          BY <2>1, <4>1, ZenonT(30) DEF SameButNeeds, Process
      <3> QED
        BY <3>1, <3>2
    <2>4. (r.full \/ r.partial) /\ r.stage = r0.stage
      BY Zenon DEF Process
    <2>5. r0.stage = "seed"
      BY <2>1, OfProcess, Zenon DEF Control
    <2> QED
      BY <2>1, <2>2, <2>3, <2>4, <2>5, Decided, Zenon
  <1> QED
    BY <1>1, <1>2, <1>3, <1>4, Zenon

---------------------------------------------------------------------------
(* The work. *)

\* A process that works has the lock and is the only one.
LEMMA AtWork ==
    ASSUME UpgradeInv, NEW p \in Proc, proc[p].pc \in Work
    PROVE  /\ proc[p].locked /\ held[p] \in Nat /\ held[p] > 0
           /\ \A q \in Proc \ {p} : held[q] = 0 /\ proc[q].pc \notin Work
           /\ gaps = {} => \A d \in had : bin[d] = 0 => Dropped(proc[p], d)
  <1>1. proc[p].locked /\ held[p] \in Nat /\ held[p] > 0
    BY OfProcess, Zenon DEF Control
  <1>2. ASSUME NEW q \in Proc \ {p} PROVE held[q] = 0 /\ proc[q].pc \notin Work
    <2>1. held[q] = 0
      BY <1>1, <1>2, Zenon DEF UpgradeInv, Exclusive
    <2>2. Control(proc[q], held[q])
      BY Zenon DEF UpgradeInv
    <2> QED
      BY <2>1, <2>2, SMTT(30) DEF Control
  <1>3. ASSUME gaps = {}, NEW d \in had, bin[d] = 0 PROVE Dropped(proc[p], d)
    <2>1. PICK q \in Proc : Dropped(proc[q], d)
      BY <1>3, Zenon DEF UpgradeInv, Truthful
    <2>2. proc[q].pc \in Work
      BY <2>1, Zenon DEF Dropped, Running929, Work
    <2> QED
      BY <1>2, <2>1, <2>2, Zenon
  <1> QED
    BY <1>1, <1>2, <1>3, Zenon

\* The work that has a next one within its stage.
Continues(r) == r.pc \in Work \ {"planmark", "seedmark"} /\ (r.pc = "binmark" => r.stage # "bin")

LEMMA NextBelongs ==
    ASSUME NEW r \in Process, Continues(r), NEW h, Control(r, h), NoFile(r)
    PROVE  AfterStep(r) \in Work /\ Belongs(r, AfterStep(r))
  <1> DEFINE s == AfterStep(r)
  <1>1. CASE r.pc = "discard"
    BY <1>1, AfterStepIs, Zenon DEF Control, Belongs, NoFile, Loading, Pass, Marking, Work
  <1>2. CASE r.pc = "seedsql"
    BY <1>2, AfterStepIs, Zenon DEF Control, Belongs, NoFile, Loading, Pass, Marking, Work
  <1>3. CASE r.pc = "seedzwr"
    <2>1. s \in {"functions", "binmark"} /\ (s = "functions" => r.full)
      BY <1>3, AfterStepIs, Zenon
    <2> QED
      BY <1>3, <2>1, Zenon DEF Control, Belongs, NoFile, Loading, Pass, Marking, Work
  <1>4. CASE r.pc \in Pass
    <2>1. s \in Pass \cup {"binmark"}
      BY <1>4, AfterStepIs, Zenon DEF Pass
    <2> QED
      BY <1>4, <2>1, Zenon DEF Control, Belongs, NoFile, Loading, Pass, Marking, Work
  <1>5. CASE r.pc \in Marking
    <2>1. s \in {"rerun929", "seedmark"} /\ r.stage = "seed"
      BY <1>5, AfterStepIs, Zenon DEF Continues, Marking, Control, Process
    <2> QED
      BY <1>5, <2>1, Zenon DEF Control, Belongs, NoFile, Loading, Pass, Marking, Work
  <1> QED
    BY <1>1, <1>2, <1>3, <1>4, <1>5, Zenon DEF Continues, Work, Pass, Marking

LEMMA Advanced ==
    ASSUME UpgradeInv, NEW p \in Proc, NEW r, r = proc[p], Continues(r), gaps \subseteq gaps',
           NEW n, n = Advance(r)
    PROVE  /\ n \in Process /\ Control(n, held[p]) /\ Rights(p, n)' /\ NoFile(n)
           /\ n.pc = AfterStep(r) /\ n.pc \in Work /\ n.stage = r.stage /\ n.partial = r.partial
           /\ n.file = r.file /\ n.created = r.created /\ n.todo = TodoAt(n.pc)
  <1>1. r \in Process /\ Control(r, held[p]) /\ Rights(p, r) /\ NoFile(r)
    BY OfProcess, Zenon
  <1>2. r.pc \in Work /\ r.locked /\ held[p] \in Nat /\ held[p] > 0
    BY AtWork, Zenon DEF Continues
  <1> PICK s : s = AfterStep(r)
    BY Zenon
  <1>3. s \in Work /\ Belongs(r, s)
    BY <1>1, NextBelongs, ZenonT(30)
  <1>4. CASE r.pc # "seedzwr"
    <2>1. n = Go(r, s)
      BY <1>4, Zenon DEF Advance
    <2>2. ASSUME p \in Rocto, "mkstemp" \notin gaps' PROVE Lowers(r, s)
      <3>1. ~r.saved /\ (r.allow => r.pc \in {"seedsql"} \cup Pass)
        BY <1>1, <1>4, <2>2, Zenon DEF Rights, Loading
      <3>2. r.pc = "seedsql" => s = "seedzwr"
        BY <1>1, AfterStepIs, Zenon
      <3>3. r.pc \in Pass => s \in Pass \ {"functions"} \/ s = "binmark"
        BY <1>1, AfterStepIs, Zenon DEF Pass
      <3>4. r.pc \in Pass => r.full \/ r.stage = "bin"
        BY <1>1, Zenon DEF Control
      <3> QED
        BY <3>1, <3>2, <3>3, <3>4, Zenon DEF Lowers, Loading, Pass
    <2>3. n \in Process /\ Control(n, held[p]) /\ Rights(p, n)' /\ NoFile(n)
      BY <1>1, <1>2, <1>3, <2>1, <2>2, GoneTo, Zenon
    <2> QED
      BY <1>1, <1>3, <2>1, <2>3, GoFields, SMTT(30)
  <1>5. CASE r.pc = "seedzwr"
    <2> PICK t : t = [r EXCEPT !.allow = r.saved]
      BY Zenon
    <2>1. n = Go(t, s)
      BY <1>5, Zenon DEF Advance
    <2>2. t \in Process
      BY <1>1, ZenonT(30) DEF Process
    <2>3. /\ t.pc = r.pc /\ t.stage = r.stage /\ t.locked = r.locked /\ t.full = r.full
          /\ t.partial = r.partial /\ t.file = r.file /\ t.created = r.created
          /\ t.allow = r.saved /\ t.saved = r.saved
      BY <1>1, Zenon DEF Process
    <2>4. Belongs(t, s)
      BY <1>3, <2>3, Zenon DEF Belongs
    <2>5. p \in Rocto /\ "mkstemp" \notin gaps' => Lowers(t, s)
      BY <1>1, <2>3, Zenon DEF Lowers, Rights
    <2>6. n \in Process /\ Control(n, held[p]) /\ Rights(p, n)' /\ NoFile(n)
      BY <1>2, <1>3, <2>1, <2>2, <2>3, <2>4, <2>5, GoneTo, Zenon
    <2>7. /\ Go(t, s).pc = s /\ Go(t, s).stage = t.stage /\ Go(t, s).partial = t.partial
          /\ Go(t, s).file = t.file /\ Go(t, s).created = t.created /\ Go(t, s).todo = TodoAt(s)
      <3>1. \A u \in Process : /\ Go(u, s).pc = s /\ Go(u, s).stage = u.stage /\ Go(u, s).partial = u.partial
                               /\ Go(u, s).file = u.file /\ Go(u, s).created = u.created
                               /\ Go(u, s).todo = TodoAt(s)
        BY <1>3, GoFields
      <3> QED
        BY <2>2, <3>1, ZenonT(30)
    <2> QED
      BY <1>3, <2>1, <2>3, <2>6, <2>7, ZenonT(30)
  <1> QED
    BY <1>4, <1>5, Zenon

\* The end of a piece of work that has changed nothing.
LEMMA QuietAdvance ==
    ASSUME UpgradeInv, NEW p \in Proc, NEW r, r = proc[p], Continues(r), NEW n, n = Advance(r),
           Set(p, n), UNCHANGED <<db, held, had, gaps>>, r.pc # "seedzwr",
           r.pc \in Running929 => r.file = <<>>,
           gaps = {} => Progress(n) /\ Passed(n)
    PROVE  UpgradeInv'
  <1>1. UNCHANGED <<fmt, bin, dangling, viewdep, plans, seed>> /\ OnlyOne(p, n, held[p])
    BY ZenonT(30) DEF db, Set, OnlyOne, UpgradeInv, UpgradeType
  <1>2. n \in Process /\ Control(n, held[p]) /\ Rights(p, n)' /\ NoFile(n) /\ n.pc \in Work
    BY Advanced, Zenon
  <1>3. held[p] \in Nat /\ n.pc # "query"
    BY <1>2, OfProcess, ZenonT(30) DEF Work
  <1>4. \A d \in had : ~Dropped(proc[p], d)
    BY Zenon DEF Dropped
  <1> QED
    BY <1>1, <1>2, <1>3, <1>4, QuietStep, Zenon

LEMMA PassDoneStep ==
    ASSUME UpgradeInv, NEW p \in Proc, PassDone(p)
    PROVE  UpgradeInv'
  <1> PICK r : r = proc[p]
    BY Zenon
  <1> PICK n : n = Advance(r)
    BY Zenon
  <1>1. r \in Process /\ r.pc \in {"functions", "tables"} /\ r.todo = {} /\ Continues(r)
    BY OfProcess, ZenonT(30) DEF PassDone, Continues, Work
  <1>2. Set(p, n) /\ UNCHANGED <<db, held, had, gaps>>
    BY Zenon DEF PassDone
  <1>3. /\ n.pc = AfterStep(r) /\ n.stage = r.stage /\ n.partial = r.partial
        /\ n.file = r.file /\ n.created = r.created /\ n.todo = TodoAt(n.pc)
    BY <1>1, <1>2, Advanced, SMTT(30)
  <1>4. ASSUME gaps = {} PROVE Progress(n) /\ Passed(n)
    <2>1. Progress(r) /\ Passed(r)
      BY <1>4, OfProcess, Zenon
    <2>2. r.created = {} /\ r.file \in Seq(Defs \ Views) /\ (r.stage = "seed" => seed = "cur")
      BY <1>1, <2>1, Zenon DEF Passed, Pass
    <2>3. n.pc \in {"tables", "run929", "views"} /\ (r.pc = "functions" <=> n.pc = "tables")
      BY <1>1, <1>3, AfterStepIs, Zenon
    <2>4. Progress(n)
      BY <1>3, <2>1, <2>2, <2>3, Zenon DEF Progress
    <2>5. Done(FunctionDefs)
      BY <1>1, <2>1, Zenon DEF Passed, Pass, Done
    <2>6. CASE n.pc = "tables"
      <3>1. Done(TableDefs \ n.todo) /\ Done(Views \ (viewdep \cup n.todo))
        BY <1>3, <2>6, ViewsAreNames, Zenon DEF Done, TodoAt, Present, TableDefs
      <3> QED
        BY <1>3, <2>2, <2>4, <2>5, <2>6, <3>1, Zenon DEF Passed, Pass, Marking
    <2>7. CASE n.pc \in {"run929", "views"}
      <3>1. Done(TableDefs) /\ Done(Views \ viewdep)
        BY <1>1, <2>1, <2>3, <2>7, Zenon DEF Passed, Done
      <3> QED
        BY <1>3, <2>2, <2>4, <2>5, <2>7, <3>1, Zenon DEF Passed, Pass, Marking
    <2> QED
      BY <2>3, <2>6, <2>7, Zenon
  <1> QED
    BY <1>1, <1>2, <1>4, QuietAdvance, Zenon DEF Running929

LEMMA FileSteps ==
    ASSUME UpgradeInv, NEW p \in Proc, FileDone(p) \/ OpenViewFile(p) \/ ViewsDone(p)
    PROVE  UpgradeInv'
  <1> PICK r : r = proc[p]
    BY Zenon
  <1> PICK n : n = Advance(r)
    BY Zenon
  <1>1. /\ r \in Process /\ r.pc \in {"run929", "rerun929", "mkstemp", "views"} /\ Continues(r)
        /\ r.pc \in Running929 => r.file = <<>>
        /\ r.pc = "views" => viewdep \subseteq r.created
    BY OfProcess, Zenon DEF FileDone, OpenViewFile, ViewsDone, Continues, Work, Running929, Waiting
  <1>2. Set(p, n) /\ UNCHANGED <<db, held, had, gaps>>
    BY Zenon DEF FileDone, OpenViewFile, ViewsDone
  <1>3. /\ n.pc = AfterStep(r) /\ n.stage = r.stage /\ n.partial = r.partial
        /\ n.file = r.file /\ n.created = r.created
    BY <1>1, <1>2, Advanced, SMTT(30)
  <1>4. ASSUME gaps = {} PROVE Progress(n) /\ Passed(n)
    <2>1. Progress(r) /\ Passed(r)
      BY <1>4, OfProcess, Zenon
    <2>2. CASE r.pc = "rerun929"
      <3>1. n.pc = "seedmark" /\ fmt.bin = BinFmt /\ (r.stage = "seed" => seed = "cur")
        BY <1>1, <1>3, <2>1, <2>2, AfterStepIs, ZenonT(30) DEF Progress, Passed, Marking
      <3>2. Progress(n)
        BY <1>3, <2>1, <3>1, Zenon DEF Progress, Marking
      <3> QED
        BY <1>3, <3>1, <3>2, Zenon DEF Passed, Pass
    <2>3. CASE r.pc = "views"
      <3>1. n.pc = "binmark" /\ (r.stage = "seed" => seed = "cur")
        BY <1>1, <1>3, <2>1, <2>3, AfterStepIs, ZenonT(30) DEF Passed, Pass
      <3>2. Done(Defs)
        BY <1>1, <2>1, <2>3, ViewsAreNames, Zenon DEF Passed, Pass, Done
      <3>3. Progress(n)
        BY <1>3, <2>1, <2>3, <3>1, ZenonT(30) DEF Progress, Marking
      <3> QED
        BY <1>3, <3>1, <3>2, <3>3, Zenon DEF Passed, Pass
    <2>4. CASE r.pc \in {"run929", "mkstemp"}
      <3>1. n.pc \in {"mkstemp", "views"}
        BY <1>1, <1>3, <2>4, AfterStepIs, ZenonT(30)
      <3>2. /\ r.stage = "seed" => seed = "cur"
            /\ Done(FunctionDefs) /\ Done(TableDefs) /\ Done(Views \ viewdep) /\ r.created = {}
        BY <2>1, <2>4, Zenon DEF Passed, Pass
      <3>3. Progress(n)
        BY <1>3, <2>1, <3>1, <3>2, Zenon DEF Progress
      <3> QED
        BY <1>3, <3>1, <3>2, <3>3, Zenon DEF Passed, Pass
    <2> QED
      BY <1>1, <2>2, <2>3, <2>4, Zenon
  <1> QED
    BY <1>1, <1>2, <1>4, QuietAdvance, Zenon

LEMMA OpenViewFileFailsStep ==
    ASSUME UpgradeInv, NEW p \in Proc, OpenViewFileFails(p)
    PROVE  UpgradeInv'
  <1> PICK r \in Process : r = proc[p]
    BY OfProcess, Zenon
  <1> PICK n : n = Return(r)
    BY Zenon
  <1>1. r.pc = "mkstemp" /\ r.pc \in Work /\ "mkstemp" \in gaps' /\ gaps \subseteq gaps'
    BY Zenon DEF OpenViewFileFails, Work
  <1>2. held[p] \in Nat /\ held[p] > 0 /\ held[p] - 1 \in Nat
    BY <1>1, AtWork, SMTT(30)
  <1>3. UNCHANGED <<fmt, bin, dangling, viewdep, plans, seed, had>> /\ OnlyOne(p, n, held[p] - 1)
    BY Zenon DEF OpenViewFileFails, db, Set, Decr, OnlyOne, UpgradeInv, UpgradeType
  <1>4. Forward
    BY <1>1, <1>3, Zenon DEF Forward, UpgradeInv, UpgradeType
  <1>5. n \in Process /\ n.pc # "query" /\ Control(n, held[p] - 1) /\ NoFile(n) /\ Rights(p, n)'
    BY <1>1, <1>2, <1>4, Returned, ZenonT(30)
  <1> QED
    BY <1>1, <1>2, <1>3, <1>5, QuietStep, ZenonT(30)

---------------------------------------------------------------------------
(* The work that changes the database. *)

LEMMA LoadSteps ==
    ASSUME UpgradeInv, NEW p \in Proc, DiscardAll(p) \/ LoadSeedSql(p) \/ LoadSeedZwr(p)
    PROVE  UpgradeInv'
  <1> PICK r : r = proc[p]
    BY Zenon
  <1> PICK n : n = Advance(r)
    BY Zenon
  <1>1. r \in Process /\ r.pc \in {"discard", "seedsql", "seedzwr"} /\ r.pc \in Work /\ Continues(r)
    BY OfProcess, ZenonT(30) DEF DiscardAll, LoadSeedSql, LoadSeedZwr, Continues, Work
  <1>2. OnlyOne(p, n, held[p]) /\ UNCHANGED <<fmt, bin, dangling, viewdep, had, gaps>>
    BY Zenon DEF DiscardAll, LoadSeedSql, LoadSeedZwr, OnlyOne, Set, UpgradeInv, UpgradeType
  <1>3. /\ r.pc = "discard" => plans' = {} /\ seed' = seed
        /\ r.pc = "seedsql" => plans' = plans
        /\ r.pc = "seedzwr" => plans' = plans /\ seed' = "cur"
    BY Zenon DEF DiscardAll, LoadSeedSql, LoadSeedZwr
  <1>4. Forward
    BY <1>1, <1>2, <1>3, ZenonT(30) DEF Forward, UpgradeInv, UpgradeType
  <1>5. /\ n \in Process /\ Control(n, held[p]) /\ Rights(p, n)' /\ NoFile(n)
        /\ n.pc = AfterStep(r) /\ n.pc \in Work /\ n.stage = r.stage /\ n.partial = r.partial
        /\ n.file = r.file /\ n.created = r.created /\ n.todo = TodoAt(n.pc)
    BY <1>1, <1>2, Advanced, SMTT(30)
  <1>6. /\ r.pc = "discard" => n.pc = "planmark"
        /\ r.pc = "seedsql" => n.pc = "seedzwr"
        /\ r.pc = "seedzwr" => n.pc = IF r.full THEN "functions" ELSE "binmark"
    BY <1>1, <1>5, AfterStepIs, Zenon
  <1>7. held[p] \in Nat /\ held[p] > 0 /\ n.pc # "query"
    BY <1>1, <1>5, AtWork, ZenonT(30) DEF Work
  <1>8. ASSUME gaps' = {} PROVE Truthful' /\ Progress(n)' /\ Passed(n)'
    <2>1. gaps = {} /\ Progress(r) /\ Control(r, held[p]) /\ NoFile(r)
      BY <1>2, <1>8, OfProcess, Zenon
    <2>2. \A d \in had : bin[d] = 0 => FALSE
      BY <1>1, <2>1, AtWork, ZenonT(30) DEF Dropped, Running929
    <2>3. seed' = seed \/ seed' = "cur" \/ n.pc = "seedzwr"
      BY <1>1, <1>3, <1>6, ZenonT(30)
    <2>4. r.pc = "seedzwr" => seed' = "cur"
      BY <1>3, Zenon
    <2>5. Truthful'
      BY <1>2, <1>4, <1>8, <2>2, <2>3, <2>4, TruthKept, Zenon
    <2>6. r.created = {} /\ r.file = <<>>
      BY <1>1, <2>1, ZenonT(30) DEF Progress, NoFile, Control, Pass, Marking, Loading
    <2>7. n.pc \in {"planmark", "seedzwr", "functions", "binmark"}
      BY <1>1, <1>6, Zenon
    <2>8. Progress(n)'
      BY <1>4, <1>5, <2>1, <2>6, <2>7, ProgressTo, ZenonT(30)
    <2>9. (n.pc = "planmark" => plans \subseteq {PlanFmt})'
      BY <1>1, <1>3, <1>6, ZenonT(30)
    <2>10. (n.pc \in {"functions", "binmark"} => seed = "cur")'
      BY <1>1, <1>3, <1>6, Zenon
    <2>11. (n.pc = "binmark" => Done(Defs))'
      <3>1. n.pc = "binmark" => r.partial
        BY <1>1, <1>6, <2>1, Zenon DEF Control, Loading
      <3> QED
        BY <1>4, <2>1, <3>1, DoneForward, Zenon DEF Progress
    <2>12. n.pc = "functions" => n.todo = Present(Functions)
      BY <1>5, ZenonT(30) DEF TodoAt
    <2>13. (n.pc = "functions" => Done(FunctionDefs \ n.todo))'
      BY <1>2, <2>12, ZenonT(30) DEF Done, Present, FunctionDefs
    <2>14. n.file \in Seq(Defs \ Views)
      BY <1>5, <2>6, SMTT(30)
    <2>15. Passed(n)'
      BY <1>5, <2>6, <2>7, <2>9, <2>10, <2>11, <2>13, <2>14, ZenonT(30) DEF Passed, Pass, Marking
    <2> QED
      BY <2>5, <2>8, <2>15, Zenon
  <1> QED
    BY <1>1, <1>2, <1>4, <1>5, <1>7, <1>8, Assemble, ZenonT(30)

LEMMA MarkSteps ==
    ASSUME UpgradeInv, NEW p \in Proc,
           SetPlanFmt(p) \/ SetSeedFmt(p) \/ (SetBinFmt(p) /\ proc[p].stage = "bin")
    PROVE  UpgradeInv'
  <1> PICK r \in Process : r = proc[p]
    BY OfProcess, ZenonT(30)
  <1> PICK n : n = Return(r)
    BY Zenon
  <1>1. r.pc \in {"planmark", "seedmark", "binmark"} /\ r.pc \in Work
    BY Zenon DEF SetPlanFmt, SetSeedFmt, SetBinFmt, Work
  <1>2. held[p] \in Nat /\ held[p] > 0 /\ held[p] - 1 \in Nat
    BY <1>1, AtWork, SMTT(30)
  <1>3. OnlyOne(p, n, held[p] - 1) /\ UNCHANGED <<bin, dangling, viewdep, plans, seed, had, gaps>>
    BY Zenon DEF SetPlanFmt, SetSeedFmt, SetBinFmt, OnlyOne, Set, Decr, UpgradeInv, UpgradeType
  <1>4. /\ r.pc = "planmark" => fmt' = [fmt EXCEPT !.plan = PlanFmt]
        /\ r.pc = "seedmark" => fmt' = [fmt EXCEPT !.seed = SeedFmt]
        /\ r.pc = "binmark" => fmt' = [fmt EXCEPT !.bin = BinFmt] /\ r.stage = "bin"
    BY Zenon DEF SetPlanFmt, SetSeedFmt, SetBinFmt
  <1>5. fmt \in [bin : Nat, plan : Nat, seed : Nat]
    BY Zenon DEF UpgradeInv, UpgradeType
  <1>6. /\ fmt' \in [bin : Nat, plan : Nat, seed : Nat]
        /\ fmt'.plan = IF r.pc = "planmark" THEN PlanFmt ELSE fmt.plan
        /\ fmt'.seed = IF r.pc = "seedmark" THEN SeedFmt ELSE fmt.seed
        /\ fmt'.bin = IF r.pc = "binmark" THEN BinFmt ELSE fmt.bin
    BY <1>1, <1>4, <1>5, FormatAssumption, Zenon
  <1>7. Forward
    BY <1>3, <1>6, Zenon DEF Forward, UpgradeInv, UpgradeType
  <1>8. /\ r.pc = "planmark" => r.stage = "plan"
        /\ r.pc = "seedmark" => r.stage = "seed"
        /\ r.pc = "binmark" => r.stage = "bin"
    BY <1>4, OfProcess, Zenon DEF Control
  <1>9. /\ n \in Process /\ n.pc # "query" /\ Control(n, held[p] - 1) /\ NoFile(n) /\ Rights(p, n)'
        /\ gaps' = {} => Progress(n)' /\ Passed(n)'
    BY <1>1, <1>2, <1>6, <1>7, <1>8, Returned, ZenonT(30)
  <1>10. ASSUME gaps' = {} PROVE Truthful'
    <2>1. gaps = {} /\ Passed(r) /\ Truthful
      BY <1>3, <1>10, OfProcess, ZenonT(30)
    <2>2. \A d \in had : bin[d] = 0 => FALSE
      BY <1>1, <2>1, AtWork, ZenonT(30) DEF Dropped, Running929
    <2>3. fmt'.bin = fmt.bin \/ Done(Defs)
      BY <1>6, <2>1, Zenon DEF Passed
    <2>4. fmt'.plan = fmt.plan \/ plans' \subseteq {PlanFmt}
      BY <1>3, <1>6, <2>1, ZenonT(30) DEF Passed
    <2>5. fmt'.seed = fmt.seed \/ seed' = "cur"
      BY <1>3, <1>6, <1>8, <2>1, ZenonT(30) DEF Passed, Marking
    <2> QED
      BY <1>1, <1>3, <1>7, <1>10, <2>2, <2>3, <2>4, <2>5, TruthKept, ZenonT(30)
  <1> QED
    BY <1>1, <1>2, <1>3, <1>7, <1>9, <1>10, Assemble, ZenonT(30)

LEMMA SetBinFmtStep ==
    ASSUME UpgradeInv, NEW p \in Proc, SetBinFmt(p), proc[p].stage # "bin"
    PROVE  UpgradeInv'
  <1> PICK r : r = proc[p]
    BY Zenon
  <1> PICK n : n = Advance(r)
    BY Zenon
  <1>1. r \in Process /\ r.pc = "binmark" /\ r.pc \in Work /\ Continues(r)
    BY OfProcess, Zenon DEF SetBinFmt, Continues, Work
  <1>2. /\ OnlyOne(p, n, held[p]) /\ UNCHANGED <<bin, dangling, viewdep, plans, seed, had, gaps>>
        /\ fmt' = [fmt EXCEPT !.bin = BinFmt]
    BY Zenon DEF SetBinFmt, OnlyOne, Set, UpgradeInv, UpgradeType
  <1>3. /\ fmt' \in [bin : Nat, plan : Nat, seed : Nat]
        /\ fmt'.plan = fmt.plan /\ fmt'.seed = fmt.seed /\ fmt'.bin = BinFmt
    BY <1>2, FormatAssumption, Zenon DEF UpgradeInv, UpgradeType
  <1>4. Forward
    BY <1>2, <1>3, Zenon DEF Forward, UpgradeInv, UpgradeType
  <1>5. /\ n \in Process /\ Control(n, held[p]) /\ Rights(p, n)' /\ NoFile(n)
        /\ n.pc = AfterStep(r) /\ n.stage = r.stage /\ n.partial = r.partial /\ n.created = r.created
    BY <1>1, <1>2, Advanced, SMTT(30)
  <1>6. n.pc \in {"rerun929", "seedmark"}
    BY <1>1, <1>5, AfterStepIs, ZenonT(30)
  <1>7. held[p] \in Nat /\ held[p] > 0
    BY <1>1, AtWork, ZenonT(30)
  <1>8. ASSUME gaps' = {} PROVE Truthful' /\ Progress(n)' /\ Passed(n)'
    <2>1. gaps = {} /\ Passed(r) /\ Progress(r)
      BY <1>2, <1>8, OfProcess, Zenon
    <2>2. \A d \in had : bin[d] = 0 => FALSE
      BY <1>1, <2>1, AtWork, ZenonT(30) DEF Dropped, Running929
    <2>3. Done(Defs)
      BY <1>1, <2>1, Zenon DEF Passed
    <2>4. Truthful'
      BY <1>1, <1>2, <1>3, <1>4, <1>8, <2>2, <2>3, TruthKept, Zenon
    <2>5. Progress(n)'
      BY <1>3, <1>4, <1>5, <1>6, <2>1, ProgressTo, ZenonT(30) DEF Marking
    <2>6. Passed(n)'
      BY <1>1, <1>2, <1>5, <1>6, <2>1, Zenon DEF Passed, Pass, Marking
    <2> QED
      BY <2>4, <2>5, <2>6, ZenonT(30)
  <1> QED
    BY <1>1, <1>2, <1>4, <1>5, <1>6, <1>7, <1>8, Assemble, Zenon

\* One definition after the other is written: the process stays where it is.
SamePlace(r, n) ==
    /\ n.pc = r.pc /\ n.stage = r.stage /\ n.locked = r.locked /\ n.full = r.full
    /\ n.partial = r.partial /\ n.allow = r.allow /\ n.saved = r.saved

LEMMA Stays ==
    ASSUME UpgradeInv, NEW p \in Proc, NEW r, r = proc[p], r.pc \in (Pass \cup Marking) \cap Work,
           NEW n, SamePlace(r, n), gaps \subseteq gaps'
    PROVE  Control(n, held[p]) /\ Rights(p, n)' /\ NoFile(n) /\ n.pc # "query"
  <1>1. Control(r, held[p]) /\ Rights(p, r)
    BY OfProcess, Zenon
  <1>2. n.pc # "query" /\ NoFile(n)
    BY Zenon DEF SamePlace, Work, NoFile
  <1>3. Rights(p, n)'
    BY <1>1, Zenon DEF Rights, SamePlace
  <1>4. Control(n, held[p])
    BY <1>1, ZenonT(30) DEF Control, SamePlace, Work
  <1> QED
    BY <1>2, <1>3, <1>4, ZenonT(30)

\* A definition is stored in the format of this release.
LEMMA StoredForward ==
    ASSUME UpgradeInv, NEW d \in Defs, bin' = Stored(d),
           UNCHANGED <<fmt, dangling, viewdep, plans, seed, had, gaps>>
    PROVE  /\ Forward /\ bin'[d] = BinFmt
           /\ \A x \in Defs \ {d} : bin'[x] = bin[x]
           /\ \A x \in Defs : bin[x] # 0 => bin'[x] # 0
           /\ \A x \in Defs : bin'[x] # bin[x] => x = d
  <1>1. bin \in [Defs -> Nat] /\ BinFmt \in Nat \ {0}
    BY FormatAssumption, Zenon DEF UpgradeInv, UpgradeType
  <1>2. /\ bin' \in [Defs -> Nat] /\ bin'[d] = BinFmt
        /\ \A x \in Defs \ {d} : bin'[x] = bin[x]
    BY <1>1, Zenon DEF Stored
  <1>3. Forward
    BY <1>1, <1>2, Zenon DEF Forward, UpgradeInv, UpgradeType
  <1> QED
    BY <1>1, <1>2, <1>3, Zenon

\* What follows for the database when nothing has been dropped.
LEMMA StoredTruth ==
    ASSUME UpgradeInv, NEW p \in Proc, proc[p].pc \in {"functions", "tables", "views"},
           NEW d \in Defs, bin' = Stored(d), NEW n, OnlyOne(p, n, held[p]),
           UNCHANGED <<fmt, dangling, viewdep, plans, seed, had, gaps>>, gaps = {}
    PROVE  Truthful'
  <1>1. Forward /\ \A x \in Defs : bin[x] # 0 => bin'[x] # 0
    BY StoredForward, Zenon
  <1>2. proc[p].pc \in Work /\ had \subseteq Defs
    BY Zenon DEF Work, UpgradeInv
  <1>3. \A x \in had : bin'[x] # 0
    BY <1>1, <1>2, AtWork, Zenon DEF Dropped, Running929
  <1> QED
    BY <1>1, <1>3, TruthKept, ZenonT(30)

LEMMA UpgradeFunctionStep ==
    ASSUME UpgradeInv, NEW p \in Proc, UpgradeFunction(p)
    PROVE  UpgradeInv'
  <1> PICK r \in Process : r = proc[p]
    BY OfProcess
  <1>1. /\ r.pc = "functions" /\ UNCHANGED <<fmt, dangling, viewdep, plans, seed, held, had, gaps>>
        /\ \E f \in First(Functions, r.todo) : bin' = Stored(f) /\ Set(p, Visited(Emit(r, f), f))
    BY ZenonT(30) DEF UpgradeFunction
  <1> PICK f \in First(Functions, r.todo) : bin' = Stored(f) /\ Set(p, Visited(Emit(r, f), f))
    BY <1>1, Zenon
  <1>2. f \in r.todo /\ f \in FunctionDefs /\ f \in Defs /\ f \notin Views
    BY FirstIsLeft, ViewsAreNames, DefinitionAssumption, ZenonT(30) DEF FunctionDefs
  <1> PICK e : e = Emit(r, f)
    BY Zenon
  <1> PICK n : n = Visited(e, f)
    BY Zenon
  <1>3. e \in Process /\ SamePlace(r, e) /\ e.todo = r.todo /\ e.created = r.created
    BY <1>2, EmitFields, ZenonT(30) DEF SamePlace
  <1>4. r.file \in Seq(Defs \ Views) => e.file \in Seq(Defs \ Views)
    BY <1>2, EmitFields, ZenonT(30)
  <1>5. /\ n \in Process /\ SamePlace(r, n) /\ n.todo = r.todo \ {f} /\ n.created = r.created
        /\ n.file = e.file
    BY <1>2, <1>3, VisitedFields, SMTT(30) DEF SamePlace
  <1>6. OnlyOne(p, n, held[p])
    BY <1>1, Zenon DEF OnlyOne, Set, UpgradeInv, UpgradeType
  <1>7. Forward /\ bin'[f] = BinFmt
    BY <1>1, <1>2, StoredForward, Zenon
  <1>8. r.pc \in (Pass \cup Marking) \cap Work
    BY <1>1, ZenonT(30) DEF Pass, Work
  <1>9. Control(n, held[p]) /\ Rights(p, n)' /\ NoFile(n) /\ n.pc # "query"
    BY <1>1, <1>5, <1>8, Stays, ZenonT(30)
  <1>10. ASSUME gaps' = {} PROVE Truthful' /\ Progress(n)' /\ Passed(n)'
    <2>1. gaps = {} /\ Progress(r) /\ Passed(r)
      BY <1>1, <1>10, OfProcess, ZenonT(30)
    <2>2. Truthful'
      BY <1>1, <1>2, <1>6, <2>1, StoredTruth, ZenonT(30)
    <2>3. r.created = {} /\ r.file \in Seq(Defs \ Views) /\ (r.stage = "seed" => seed = "cur")
      BY <1>1, <2>1, ZenonT(30) DEF Passed, Pass
    <2>4. Progress(n)'
      BY <1>1, <1>5, <1>7, <2>1, <2>3, ProgressTo, ZenonT(30) DEF SamePlace
    <2>5. Done(FunctionDefs \ n.todo)'
      <3>1. Done(FunctionDefs \ r.todo)
        BY <1>1, <2>1, ZenonT(30) DEF Passed
      <3>2. FunctionDefs \ n.todo \subseteq (FunctionDefs \ r.todo) \cup {f}
        BY <1>5, ZenonT(30)
      <3>3. Done(FunctionDefs \ r.todo)'
        BY <1>7, <3>1, DoneForward, ViewsAreNames, ZenonT(30)
      <3> QED
        BY <1>7, <3>2, <3>3, ZenonT(30) DEF Done
    <2>6. Passed(n)'
      BY <1>1, <1>4, <1>5, <2>3, <2>5, ZenonT(30) DEF Passed, Pass, SamePlace
    <2> QED
      BY <2>2, <2>4, <2>6, Zenon
  <1> QED
    BY <1>5, <1>6, <1>7, <1>8, <1>9, <1>10, OfProcess, Assemble, ZenonT(30)

LEMMA CleanupStep ==
    ASSUME UpgradeInv, NEW p \in Proc, CleanupDanglingFunction(p)
    PROVE  UpgradeInv'
  <1> PICK r : r = proc[p]
    OBVIOUS
  <1> PICK n : n = Advance(r)
    OBVIOUS
  <1>1. r \in Process /\ r.pc = "functions" /\ r.pc \in Work /\ Continues(r)
    BY OfProcess, ZenonT(30) DEF CleanupDanglingFunction, Continues, Work
  <1>2. /\ UNCHANGED <<fmt, bin, viewdep, plans, seed, held, had>>
        /\ \E f \in First(Functions, r.todo) :
             /\ f \in dangling /\ dangling' = dangling \ {f}
             /\ gaps' = gaps \cup IF r.todo = {f} THEN {} ELSE {"dangling"}
    BY Zenon DEF CleanupDanglingFunction, Dangling
  <1> PICK f \in First(Functions, r.todo) :
             /\ f \in dangling /\ dangling' = dangling \ {f}
             /\ gaps' = gaps \cup IF r.todo = {f} THEN {} ELSE {"dangling"}
    BY <1>2, Zenon
  <1>3. gaps \subseteq gaps' /\ (gaps' = {} => gaps = {} /\ r.todo = {f})
    BY Zenon
  <1>4. OnlyOne(p, n, held[p]) /\ Forward
    BY <1>2, <1>3, ZenonT(30) DEF CleanupDanglingFunction, OnlyOne, Set, Forward, UpgradeInv, UpgradeType
  <1>5. /\ n \in Process /\ Control(n, held[p]) /\ Rights(p, n)' /\ NoFile(n)
        /\ n.pc = AfterStep(r) /\ n.stage = r.stage /\ n.partial = r.partial
        /\ n.file = r.file /\ n.created = r.created /\ n.todo = TodoAt(n.pc)
    BY <1>1, <1>3, Advanced, SMTT(30)
  <1>6. n.pc = "tables" /\ n.todo = Present(Names)
    BY <1>1, <1>5, AfterStepIs, Zenon DEF TodoAt
  <1>7. held[p] \in Nat /\ held[p] > 0
    BY <1>1, AtWork, ZenonT(30)
  <1>8. ASSUME gaps' = {} PROVE Truthful' /\ Progress(n)' /\ Passed(n)'
    <2>1. gaps = {} /\ r.todo = {f} /\ Progress(r) /\ Passed(r) /\ Truthful
      BY <1>3, <1>8, OfProcess, ZenonT(30)
    <2>2. \A d \in had : bin[d] = 0 => FALSE
      BY <1>1, <2>1, AtWork, ZenonT(30) DEF Dropped, Running929
    <2>3. Truthful'
      BY <1>1, <1>2, <1>4, <1>8, <2>2, TruthKept, ZenonT(30)
    <2>4. r.created = {} /\ r.file \in Seq(Defs \ Views) /\ (r.stage = "seed" => seed = "cur")
      BY <1>1, <2>1, ZenonT(30) DEF Passed, Pass
    <2>5. Progress(n)'
      BY <1>4, <1>5, <1>6, <2>1, <2>4, ProgressTo, ZenonT(30)
    <2>6. Done(FunctionDefs)'
      <3>1. Done(FunctionDefs \ {f}) /\ Done({f})
        BY <1>1, <2>1, ZenonT(30) DEF Passed, Truthful, Done
      <3> QED
        BY <1>2, <3>1, Zenon DEF Done
    <2>7. Done(TableDefs \ n.todo)' /\ Done(Views \ (viewdep \cup n.todo))'
      BY <1>2, <1>6, ViewsAreNames, ZenonT(30) DEF Done, Present, TableDefs
    <2>8. Passed(n)'
      BY <1>2, <1>5, <1>6, <2>4, <2>6, <2>7, ZenonT(30) DEF Passed, Pass, Marking
    <2> QED
      BY <2>3, <2>5, <2>8, Zenon
  <1> QED
    BY <1>1, <1>4, <1>5, <1>6, <1>7, <1>8, Assemble, ZenonT(30)

LEMMA UpgradeTableStep ==
    ASSUME UpgradeInv, NEW p \in Proc, UpgradeTable(p)
    PROVE  UpgradeInv'
  <1> PICK r \in Process : r = proc[p]
    BY OfProcess
  <1>1. /\ r.pc = "tables" /\ UNCHANGED <<fmt, dangling, viewdep, plans, seed, held, had, gaps>>
        /\ \E t \in First(Names, r.todo) \ Views : bin' = Stored(t) /\ Set(p, Visited(Emit(r, t), t))
    BY ZenonT(30) DEF UpgradeTable
  <1> PICK t \in First(Names, r.todo) \ Views : bin' = Stored(t) /\ Set(p, Visited(Emit(r, t), t))
    BY <1>1, ZenonT(30)
  <1>2. t \in r.todo /\ t \in TableDefs /\ t \in Defs /\ t \notin Views
    BY FirstIsLeft, ViewsAreNames, Zenon DEF TableDefs
  <1> PICK e : e = Emit(r, t)
    BY Zenon
  <1> PICK n : n = Visited(e, t)
    BY Zenon
  <1>3. e \in Process /\ SamePlace(r, e) /\ e.todo = r.todo /\ e.created = r.created
    BY <1>2, EmitFields, ZenonT(30) DEF SamePlace
  <1>4. r.file \in Seq(Defs \ Views) => e.file \in Seq(Defs \ Views)
    BY <1>2, EmitFields, ZenonT(30)
  <1>5. /\ n \in Process /\ SamePlace(r, n) /\ n.todo = r.todo \ {t} /\ n.created = r.created
        /\ n.file = e.file
    BY <1>2, <1>3, VisitedFields, SMTT(30) DEF SamePlace
  <1>6. OnlyOne(p, n, held[p])
    BY <1>1, Zenon DEF OnlyOne, Set, UpgradeInv, UpgradeType
  <1>7. Forward /\ bin'[t] = BinFmt
    BY <1>1, <1>2, StoredForward, ZenonT(30)
  <1>8. r.pc \in (Pass \cup Marking) \cap Work
    BY <1>1, ZenonT(30) DEF Pass, Work
  <1>9. Control(n, held[p]) /\ Rights(p, n)' /\ NoFile(n) /\ n.pc # "query"
    BY <1>1, <1>5, <1>8, Stays, ZenonT(30)
  <1>10. ASSUME gaps' = {} PROVE Truthful' /\ Progress(n)' /\ Passed(n)'
    <2>1. gaps = {} /\ Progress(r) /\ Passed(r)
      BY <1>1, <1>10, OfProcess, ZenonT(30)
    <2>2. Truthful'
      BY <1>1, <1>2, <1>6, <2>1, StoredTruth, ZenonT(30)
    <2>3. r.created = {} /\ r.file \in Seq(Defs \ Views) /\ (r.stage = "seed" => seed = "cur")
      BY <1>1, <2>1, ZenonT(30) DEF Passed, Pass
    <2>4. Progress(n)'
      BY <1>1, <1>5, <1>7, <2>1, <2>3, ProgressTo, ZenonT(30) DEF SamePlace
    <2>5. Done(FunctionDefs)' /\ Done(TableDefs \ r.todo)' /\ Done(Views \ (viewdep \cup r.todo))'
      <3>1. Done(FunctionDefs) /\ Done(TableDefs \ r.todo) /\ Done(Views \ (viewdep \cup r.todo))
        BY <1>1, <2>1, ZenonT(30) DEF Passed, Pass
      <3>2. (Done(FunctionDefs \cup (TableDefs \ r.todo)))'
        BY <1>7, <3>1, ViewsAreNames, ZenonT(30) DEF Done, Forward
      <3> QED
        BY <1>1, <1>7, <3>1, <3>2, ViewsAreNames, ZenonT(30) DEF Done, Forward
    <2>6. Done(TableDefs \ n.todo)' /\ Done(Views \ (viewdep \cup n.todo))'
      BY <1>2, <1>5, <1>7, <2>5, ZenonT(30) DEF Done
    <2>7. Passed(n)'
      BY <1>1, <1>4, <1>5, <2>3, <2>5, <2>6, ZenonT(30) DEF Passed, Pass, SamePlace
    <2> QED
      BY <2>2, <2>4, <2>7, Zenon
  <1> QED
    BY <1>5, <1>6, <1>7, <1>8, <1>9, <1>10, OfProcess, Assemble, ZenonT(30)

LEMMA SkipViewStep ==
    ASSUME UpgradeInv, NEW p \in Proc, SkipView(p)
    PROVE  UpgradeInv'
  <1> PICK r \in Process : r = proc[p]
    BY OfProcess
  <1>1. /\ r.pc = "tables" /\ UNCHANGED <<fmt, bin, dangling, plans, seed, held, had, gaps>>
        /\ \E v \in First(Names, r.todo) \cap Views : viewdep' = viewdep \cup {v} /\ Set(p, Visited(r, v))
    BY ZenonT(30) DEF SkipView
  <1> PICK v \in First(Names, r.todo) \cap Views : viewdep' = viewdep \cup {v} /\ Set(p, Visited(r, v))
    BY <1>1, Zenon
  <1>2. v \in Views /\ v \in Defs
    BY ViewsAreNames, Zenon
  <1> PICK n : n = Visited(r, v)
    BY Zenon
  <1>3. /\ n \in Process /\ SamePlace(r, n) /\ n.todo = r.todo \ {v} /\ n.created = r.created
        /\ n.file = r.file
    BY <1>2, VisitedFields, ZenonT(30) DEF SamePlace
  <1>4. OnlyOne(p, n, held[p])
    BY <1>1, Zenon DEF OnlyOne, Set, UpgradeInv, UpgradeType
  <1>5. Forward
    BY <1>1, <1>2, Zenon DEF Forward, UpgradeInv, UpgradeType
  <1>6. r.pc \in (Pass \cup Marking) \cap Work
    BY <1>1, ZenonT(30) DEF Pass, Work
  <1>7. Control(n, held[p]) /\ Rights(p, n)' /\ NoFile(n) /\ n.pc # "query"
    BY <1>1, <1>3, <1>6, Stays, ZenonT(30)
  <1>8. ASSUME gaps' = {} PROVE Truthful' /\ Progress(n)' /\ Passed(n)'
    <2>1. gaps = {} /\ Progress(r) /\ Passed(r)
      BY <1>1, <1>8, OfProcess, ZenonT(30)
    <2>2. \A d \in had : bin[d] = 0 => FALSE
      BY <1>1, <1>6, <2>1, AtWork, ZenonT(30) DEF Dropped, Running929
    <2>3. Truthful'
      BY <1>1, <1>4, <1>5, <1>8, <2>2, TruthKept, ZenonT(30)
    <2>4. r.created = {} /\ r.file \in Seq(Defs \ Views) /\ (r.stage = "seed" => seed = "cur")
      BY <1>1, <2>1, ZenonT(30) DEF Passed, Pass
    <2>5. Progress(n)'
      BY <1>1, <1>3, <1>5, <2>1, <2>4, ProgressTo, ZenonT(30) DEF SamePlace
    <2>6. Done(FunctionDefs) /\ Done(TableDefs \ r.todo) /\ Done(Views \ (viewdep \cup r.todo))
      BY <1>1, <2>1, ZenonT(30) DEF Passed, Pass
    <2>7. TableDefs \ n.todo = TableDefs \ r.todo
      BY <1>2, <1>3, Zenon DEF TableDefs
    <2>8. Done(TableDefs \ n.todo)' /\ Done(Views \ (viewdep \cup n.todo))' /\ Done(FunctionDefs)'
      BY <1>1, <1>3, <2>6, <2>7, ZenonT(30) DEF Done
    <2>9. Passed(n)'
      BY <1>1, <1>3, <2>4, <2>8, ZenonT(30) DEF Passed, Pass, SamePlace
    <2> QED
      BY <2>3, <2>5, <2>9, Zenon
  <1> QED
    BY <1>3, <1>4, <1>5, <1>6, <1>7, <1>8, OfProcess, Assemble, ZenonT(30)

LEMMA UpgradeViewStep ==
    ASSUME UpgradeInv, NEW p \in Proc, UpgradeView(p)
    PROVE  UpgradeInv'
  <1> PICK r \in Process : r = proc[p]
    BY OfProcess
  <1>1. /\ r.pc = "views" /\ UNCHANGED <<fmt, dangling, viewdep, plans, seed, held, had, gaps>>
        /\ \E v \in Waiting(r) : bin' = Stored(v) /\ Set(p, [Emit(r, v) EXCEPT !.created = @ \cup {v}])
    BY Zenon DEF UpgradeView
  <1> PICK v \in Waiting(r) : bin' = Stored(v) /\ Set(p, [Emit(r, v) EXCEPT !.created = @ \cup {v}])
    BY <1>1, Zenon
  <1>2. v \in Views /\ v \in Defs
    BY ViewsAreNames, Zenon DEF Waiting, UpgradeInv, UpgradeType
  <1> PICK e : e = Emit(r, v)
    BY Zenon
  <1> PICK n : n = [e EXCEPT !.created = e.created \cup {v}]
    BY Zenon
  <1>3. e \in Process /\ SamePlace(r, e) /\ e.created = r.created
    BY <1>2, EmitFields, Zenon DEF SamePlace
  <1>4. n \in Process /\ SamePlace(e, n) /\ n.created = r.created \cup {v}
    BY <1>2, <1>3, SMTT(30) DEF Process, SamePlace
  <1>5. SamePlace(r, n)
    BY <1>3, <1>4, Zenon DEF SamePlace
  <1>6. OnlyOne(p, n, held[p])
    <2>1. n = [Emit(r, v) EXCEPT !.created = @ \cup {v}]
      BY <1>3, Zenon DEF Process
    <2> QED
      BY <1>1, <2>1, Zenon DEF OnlyOne, Set, UpgradeInv, UpgradeType
  <1>7. Forward /\ bin'[v] = BinFmt /\ \A x \in Defs \ {v} : bin'[x] = bin[x]
    BY <1>1, <1>2, StoredForward, Zenon
  <1>8. r.pc \in (Pass \cup Marking) \cap Work
    BY <1>1, Zenon DEF Pass, Work
  <1>9. Control(n, held[p]) /\ Rights(p, n)' /\ NoFile(n) /\ n.pc # "query"
    BY <1>1, <1>5, <1>8, Stays, Zenon
  <1>10. ASSUME gaps' = {} PROVE Truthful' /\ Progress(n)' /\ Passed(n)'
    <2>1. gaps = {} /\ Progress(r) /\ Passed(r)
      BY <1>1, <1>10, OfProcess, Zenon
    <2>2. Truthful'
      BY <1>1, <1>2, <1>6, <2>1, StoredTruth, Zenon
    <2>3. Progress(n)'
      BY <1>1, <1>5, <2>1, <1>7, DoneForward, Zenon DEF Progress, SamePlace, Forward
    <2>4. /\ r.stage = "seed" => seed = "cur"
          /\ Done(FunctionDefs) /\ Done(TableDefs) /\ Done(Views \ viewdep)
          /\ \A w \in r.created : bin[w] = BinFmt
      BY <1>1, <2>1, Zenon DEF Passed, Pass
    <2>5. Done(FunctionDefs)' /\ Done(TableDefs)'
      BY <1>7, <2>4, DoneForward, ViewsAreNames, Zenon
    <2>6. Done(Views \ viewdep)'
      BY <1>1, <1>7, <2>4, ViewsAreNames, Zenon DEF Done, Forward
    <2>7. \A w \in n.created : bin'[w] = BinFmt
      <3>1. r.created \subseteq Defs
        BY ViewsAreNames, Zenon DEF Process
      <3> QED
        BY <1>4, <1>7, <2>4, <3>1, Zenon
    <2>8. Passed(n)'
      BY <1>1, <1>5, <2>4, <2>5, <2>6, <2>7, ZenonT(30) DEF Passed, Pass, SamePlace
    <2> QED
      BY <2>2, <2>3, <2>8, Zenon
  <1> QED
    BY <1>4, <1>6, <1>7, <1>8, <1>9, <1>10, OfProcess, Assemble, ZenonT(30)

LEMMA RunStatementStep ==
    ASSUME UpgradeInv, NEW p \in Proc, RunStatement(p)
    PROVE  UpgradeInv'
  <1> PICK r \in Process : r = proc[p]
    BY OfProcess
  <1> PICK d : d = Head(r.file)
    OBVIOUS
  <1> PICK n : n = IF bin[d] = 0 THEN [r EXCEPT !.file = Tail(r.file)] ELSE r
    BY ZenonT(30)
  <1>1. /\ r.pc \in Running929 /\ r.file # <<>>
        /\ UNCHANGED <<fmt, dangling, viewdep, plans, seed, held, had, gaps>>
        /\ bin' = [bin EXCEPT ![d] = IF bin[d] = 0 THEN BinFmt ELSE 0]
    BY Zenon DEF RunStatement, Running929
  <1>2. r.file \in Seq(Defs) /\ d \in Defs /\ Tail(r.file) \in Seq(Defs)
    BY <1>1 DEF Process
  <1>3. r.file \in Seq(Defs \ Views) => Tail(r.file) \in Seq(Defs \ Views)
    BY <1>1
  <1>4. /\ n \in Process /\ SamePlace(r, n) /\ n.created = r.created
        /\ n.file \in {r.file, Tail(r.file)} /\ (bin[d] # 0 => n = r)
    <2>1. CASE bin[d] = 0
      <3> PICK tail : tail = Tail(r.file)
        BY Zenon
      <3>1. n = [r EXCEPT !.file = tail] /\ tail \in Seq(Defs)
        BY <1>2, <2>1, Zenon
      <3>2. n \in Process /\ n.file = tail
        BY <3>1, ZenonT(30) DEF Process
      <3>3. SamePlace(r, n) /\ n.created = r.created
        BY <3>1 DEF Process, SamePlace
      <3> QED
        BY <2>1, <3>2, <3>3, Zenon
    <2>2. CASE bin[d] # 0
      BY <2>2, Zenon DEF SamePlace
    <2> QED
      BY <2>1, <2>2, Zenon
  <1>5. OnlyOne(p, n, held[p])
    <2>1. Set(p, n)
      BY Zenon DEF RunStatement, Process
    <2> QED
      BY <1>1, <2>1, Zenon DEF OnlyOne, Set, UpgradeInv, UpgradeType
  <1>6. /\ bin' \in [Defs -> Nat] /\ bin'[d] = IF bin[d] = 0 THEN BinFmt ELSE 0
        /\ \A x \in Defs \ {d} : bin'[x] = bin[x]
    BY <1>1, <1>2, FormatAssumption, ZenonT(30) DEF UpgradeInv, UpgradeType
  <1>7. Forward
    BY <1>1, <1>6, Zenon DEF Forward, UpgradeInv, UpgradeType
  <1>8. r.pc \in (Pass \cup Marking) \cap Work
    BY <1>1, Zenon DEF Pass, Work, Running929, Marking
  <1>9. Control(n, held[p]) /\ Rights(p, n)' /\ NoFile(n) /\ n.pc # "query"
    BY <1>1, <1>4, <1>8, Stays, ZenonT(30)
  <1>10. ASSUME gaps' = {} PROVE Truthful' /\ Progress(n)' /\ Passed(n)'
    <2>1. gaps = {} /\ Progress(r) /\ Passed(r) /\ had \subseteq Defs
      BY <1>1, <1>10, OfProcess, Zenon DEF UpgradeInv
    <2>2. \A x \in had : bin[x] = 0 => x = d
      BY <1>8, <2>1, AtWork, Zenon DEF Dropped
    <2>3. \A x \in had : bin'[x] = 0 => x = d /\ Dropped(n, x)
      <3>1. SUFFICES ASSUME NEW x \in had, bin'[x] = 0 PROVE x = d /\ Dropped(n, x)
        BY ZenonT(30)
      <3>2. x = d
        BY <1>6, <2>1, <2>2, <3>1, Zenon
      <3>3. bin[d] # 0
        BY <1>6, <3>1, <3>2, FormatAssumption, Zenon
      <3> QED
        BY <1>1, <1>4, <3>2, <3>3, Zenon DEF Dropped
    <2>4. Truthful'
      BY <1>1, <1>5, <1>7, <1>10, <2>3, TruthKept, ZenonT(30) DEF Running929
    <2>5. Progress(n)'
      BY <1>1, <1>4, <1>7, <2>1, ProgressTo, ZenonT(30) DEF SamePlace, Running929, Progress
    <2>6. CASE r.pc = "rerun929"
      BY <1>1, <1>4, <2>1, <2>4, <2>5, <2>6, ZenonT(30) DEF Passed, Pass, Marking, SamePlace
    <2>7. CASE r.pc = "run929"
      <3>1. /\ Done(FunctionDefs) /\ Done(TableDefs) /\ Done(Views \ viewdep) /\ r.created = {}
            /\ r.file \in Seq(Defs \ Views) /\ (r.stage = "seed" => seed = "cur")
        BY <2>1, <2>7, Zenon DEF Passed, Pass
      <3>2. Done(FunctionDefs)' /\ Done(TableDefs)'
        BY <1>7, <3>1, DoneForward, ViewsAreNames, Zenon
      <3>3. Done(Views \ viewdep)'
        BY <1>1, <1>7, <3>1, ViewsAreNames, Zenon DEF Done, Forward
      <3>4. n.file \in Seq(Defs \ Views)
        BY <1>3, <1>4, <3>1, Zenon
      <3>5. Passed(n)'
        BY <1>1, <1>4, <2>7, <3>1, <3>2, <3>3, <3>4, ZenonT(30) DEF Passed, Pass, SamePlace
      <3> QED
        BY <2>4, <2>5, <3>5, Zenon
    <2> QED
      BY <1>1, <2>6, <2>7 DEF Running929
  <1> QED
    BY <1>4, <1>5, <1>7, <1>8, <1>9, <1>10, OfProcess, Assemble, ZenonT(30)

---------------------------------------------------------------------------
(* The invariant, and what follows from it. *)

LEMMA UpgradeInit == Init => UpgradeInv
  <1> SUFFICES ASSUME Init PROVE UpgradeInv
    BY Zenon
  <1> PICK d \in Databases :
        /\ fmt = d.fmt /\ bin = d.bin /\ dangling = d.dangling
        /\ viewdep = d.viewdep /\ plans = d.plans /\ seed = d.seed
        /\ had = {x \in Defs : d.bin[x] # 0}
    BY Zenon DEF Init
  <1>1. proc = [p \in Proc |-> Off] /\ held = [p \in Proc |-> 0] /\ gaps = {}
    BY Zenon DEF Init
  <1>2. UpgradeType /\ had \cup dangling \subseteq Defs
    BY <1>1, OffFields, DatabaseAssumption, Zenon DEF UpgradeType
  <1>3. Exclusive
    BY <1>1, SMTT(30) DEF Exclusive
  <1>4. Truthful
    BY DatabaseAssumption, Zenon DEF Truthful, Done
  <1>5. \A p \in Proc : Control(proc[p], held[p]) /\ Rights(p, proc[p]) /\ NoFile(proc[p])
    BY <1>1, OffFields, ZenonT(30) DEF Control, Rights, NoFile, Work, Loading, Pass
  <1>6. \A p \in Proc : Progress(proc[p]) /\ Passed(proc[p])
    BY <1>1, OffFields, ZenonT(30) DEF Progress, Passed, Pass, Marking
  <1> QED
    BY <1>2, <1>3, <1>4, <1>5, <1>6, ZenonT(30) DEF UpgradeInv

LEMMA UpgradeNext == UpgradeInv /\ [Next]_vars => UpgradeInv'
  <1> SUFFICES ASSUME UpgradeInv, [Next]_vars PROVE UpgradeInv'
    BY Zenon
  <1>1. CASE UNCHANGED vars
    BY <1>1, ZenonT(30) DEF vars, db, UpgradeInv, UpgradeType, Exclusive, Rights, Truthful, Done, Progress, Passed
  <1>2. ASSUME NEW p \in Proc, Step(p) PROVE UpgradeInv'
    <2>1. CASE DatabaseTooNew(p) \/ LockTimeout(p)
      BY <2>1, ExitSteps
    <2>2. CASE is_auto_upgrade_valid(p) \/ SeedUndefined(p) \/ LockExclusive(p) \/ QueryDone(p)
      BY <2>2, MoveSteps
    <2>3. CASE CheckPlan(p) \/ CheckBinary(p) \/ CheckSeed(p) \/ CheckSeedUndefined(p)
      BY <2>3, CheckSteps
    <2>4. CASE DiscardAll(p) \/ LoadSeedSql(p) \/ LoadSeedZwr(p)
      BY <2>4, LoadSteps, Zenon
    <2>5. CASE UpgradeFunction(p)
      BY <2>5, UpgradeFunctionStep, Zenon
    <2>6. CASE CleanupDanglingFunction(p)
      BY <2>6, CleanupStep, Zenon
    <2>7. CASE UpgradeTable(p)
      BY <2>7, UpgradeTableStep
    <2>8. CASE SkipView(p)
      BY <2>8, SkipViewStep
    <2>9. CASE PassDone(p)
      BY <2>9, PassDoneStep
    <2>10. CASE UpgradeView(p)
      BY <2>10, UpgradeViewStep
    <2>11. CASE FileDone(p) \/ OpenViewFile(p) \/ ViewsDone(p)
      BY <2>11, FileSteps, Zenon
    <2>12. CASE RunStatement(p)
      BY <2>12, RunStatementStep
    <2>13. CASE SetBinFmt(p) \/ SetPlanFmt(p) \/ SetSeedFmt(p)
      BY <2>13, MarkSteps, SetBinFmtStep, Zenon
    <2> QED
      BY <1>2, <2>1, <2>2, <2>3, <2>4, <2>5, <2>6, <2>7, <2>8, <2>9, <2>10, <2>11, <2>12, <2>13 DEF Step
  <1>3. ASSUME NEW p \in Proc, StepFails(p) \/ Stop(p) \/ Crash(p) PROVE UpgradeInv'
    BY <1>3, ExitSteps, Zenon
  <1>4. ASSUME NEW p \in Proc, Start(p) PROVE UpgradeInv'
    BY <1>4, StartStep
  <1>5. ASSUME NEW p \in Proc, OpenViewFileFails(p) PROVE UpgradeInv'
    BY <1>5, OpenViewFileFailsStep
  <1>6. ASSUME NEW p \in Proc, Query(p) PROVE UpgradeInv'
    BY <1>6, MoveSteps, Zenon
  <1> QED
    BY <1>1, <1>2, <1>3, <1>4, <1>5, <1>6, Zenon DEF Next

(* The invariant holds: a process works on the database only with the lock *)
(* (the exclusive DDL lock of the checks in octo_init), and what is done,   *)
(* what is to do and what the format nodes say agree at every step.        *)
THEOREM UpgradeInvHolds == Spec => []UpgradeInv
  BY UpgradeInit, UpgradeNext, PTL DEF Spec

(* The format nodes tell the truth at every step of any number of          *)
(* processes that start, upgrade and die (SET_*_FMT of the auto_upgrade_*  *)
(* functions): a node that has the number of this release is never ahead   *)
(* of the definitions, the plans or the catalog it speaks of.              *)
THEOREM FormatNodesAreTruthful == Spec => []FormatNodesTruthful
  <1>1. UpgradeInv => FormatNodesTruthful
    <2> SUFFICES ASSUME UpgradeInv, gaps = {}
                 PROVE  /\ fmt.bin = BinFmt => \A d \in Defs : bin[d] \in {0, BinFmt}
                        /\ fmt.plan = PlanFmt => plans \subseteq {PlanFmt}
                        /\ fmt.seed = SeedFmt =>
                            seed = "cur" \/ \E p \in Proc : proc[p].pc = "seedzwr" /\ held[p] > 0
      BY ZenonT(30) DEF FormatNodesTruthful
    <2>1. Truthful
      BY ZenonT(30) DEF UpgradeInv
    <2>2. ASSUME NEW p \in Proc, proc[p].pc = "seedzwr" PROVE held[p] > 0
      BY <2>2, AtWork, ZenonT(30) DEF Work
    <2> QED
      BY <2>1, <2>2, ZenonT(30) DEF Truthful, Done
  <1> QED
    BY <1>1, UpgradeInvHolds, PTL

(* No definition is lost by an upgrade, and no statement runs before the   *)
(* database is what this release expects (octo_init, run_query): every     *)
(* definition there was is there in the format of this release, the        *)
(* catalog is complete and no plan of another release is left.             *)
THEOREM DefinitionsAreKept == Spec => []DefinitionsKept
  <1>1. UpgradeInv => DefinitionsKept
    <2> SUFFICES ASSUME UpgradeInv, gaps = {}
                 PROVE  /\ (\A p \in Proc : proc[p].pc \notin {"run929", "rerun929"}) =>
                              \A d \in had : bin[d] # 0
                        /\ (\E p \in Proc : proc[p].pc = "query") =>
                              /\ \A d \in had : bin[d] = BinFmt
                              /\ seed = "cur" /\ plans \subseteq {PlanFmt}
      BY Zenon DEF DefinitionsKept
    <2>1. Truthful /\ had \subseteq Defs
      BY Zenon DEF UpgradeInv
    <2>2. (\A p \in Proc : proc[p].pc \notin {"run929", "rerun929"}) => \A d \in had : bin[d] # 0
      BY <2>1, Zenon DEF Truthful, Dropped, Running929
    <2>3. ASSUME NEW p \in Proc, proc[p].pc = "query"
          PROVE  (\A d \in had : bin[d] = BinFmt) /\ seed = "cur" /\ plans \subseteq {PlanFmt}
      <3>1. fmt.bin = BinFmt /\ fmt.plan = PlanFmt /\ fmt.seed = SeedFmt
        BY <2>3, OfProcess, ZenonT(30) DEF Control, Progress
      <3>2. ASSUME NEW q \in Proc, proc[q].pc \in Work PROVE FALSE
        BY <2>3, <3>2, AtWork, ZenonT(30) DEF UpgradeInv, Exclusive, Work
      <3>3. (\A q \in Proc : proc[q].pc \notin {"run929", "rerun929"})
            /\ ~ \E q \in Proc : proc[q].pc = "seedzwr"
        BY <3>2, ZenonT(30) DEF Work
      <3> QED
        BY <2>1, <2>2, <3>1, <3>3, Zenon DEF Truthful, Done
    <2> QED
      BY <2>2, <2>3, Zenon
  <1> QED
    BY <1>1, UpgradeInvHolds, PTL

(* A rocto that has started has neither the right to change the schema nor *)
(* the write permission that octo_init gave it for the upgrade, whatever   *)
(* stages it went through (allow_schema_changes and permissions).          *)
THEOREM RightsAreRestored == Spec => []RightsRestored
  <1>1. UpgradeInv => RightsRestored
    <2> SUFFICES ASSUME UpgradeInv, NEW p \in Rocto, proc[p].pc \in {"ready", "query"},
                        "mkstemp" \notin gaps
                 PROVE  ~proc[p].allow /\ proc[p].permissions = "ReadOnly"
      BY Zenon DEF RightsRestored
    <2>1. p \in Proc
      BY FormatAssumption, Zenon
    <2> QED
      BY <2>1, OfProcess, ZenonT(30) DEF Control, Rights, Loading, Pass
  <1> QED
    BY <1>1, UpgradeInvHolds, PTL

\* What there was at first and is not waiting for its upgrade has been upgraded.
LEMMA DoneHad ==
    ASSUME UpgradeInv, gaps = {}, NEW p \in Proc, proc[p].pc \in Work, NEW S, Done(S),
           NEW e \in S \cap had, ~Dropped(proc[p], e)
    PROVE  bin[e] = BinFmt
  BY AtWork, Zenon DEF Done

LEMMA ReadsUpgradedStep ==
    ASSUME UpgradeInv, [Next]_vars, NEW d \in Defs, gaps = {}, bin[d] # BinFmt, bin'[d] = BinFmt
    PROVE  \A e \in Refs[d] \cap had : bin[e] = BinFmt
  <1>1. PICK p \in Proc : UpgradeFunction(p) \/ UpgradeTable(p) \/ UpgradeView(p) \/ RunStatement(p)
    <2>1. bin' # bin
      BY Zenon
    <2>2. PICK p \in Proc :
            Start(p) \/ Step(p) \/ OpenViewFileFails(p) \/ StepFails(p) \/ Query(p) \/ Stop(p) \/ Crash(p)
      BY <2>1, Zenon DEF Next, vars, db
    <2>3. Step(p)
      BY <2>1, <2>2, Zenon DEF Start, OpenViewFileFails, StepFails, Query, Stop, Crash, Exit, db
    <2>4. ~(is_auto_upgrade_valid(p) \/ DatabaseTooNew(p) \/ CheckPlan(p) \/ CheckBinary(p)
            \/ CheckSeed(p) \/ SeedUndefined(p) \/ CheckSeedUndefined(p) \/ LockExclusive(p) \/ LockTimeout(p))
      BY <2>1, ZenonT(30) DEF is_auto_upgrade_valid, DatabaseTooNew, CheckPlan, CheckBinary, CheckSeed,
                  SeedUndefined, CheckSeedUndefined, LockExclusive, LockTimeout, Exit, db
    <2>5. ~(DiscardAll(p) \/ LoadSeedSql(p) \/ LoadSeedZwr(p) \/ CleanupDanglingFunction(p) \/ SkipView(p)
            \/ PassDone(p) \/ ViewsDone(p) \/ FileDone(p) \/ OpenViewFile(p) \/ SetBinFmt(p)
            \/ SetPlanFmt(p) \/ SetSeedFmt(p) \/ QueryDone(p))
      BY <2>1, Zenon DEF DiscardAll, LoadSeedSql, LoadSeedZwr, CleanupDanglingFunction, SkipView, PassDone,
                  ViewsDone, FileDone, OpenViewFile, SetBinFmt, SetPlanFmt, SetSeedFmt, QueryDone, db
    <2> QED
      BY <2>3, <2>4, <2>5, Zenon DEF Step
  <1> PICK r \in Process : r = proc[p]
    BY OfProcess, Zenon
  <1>2. Passed(r) /\ Progress(r) /\ Truthful
    BY OfProcess, Zenon
  <1>3. Refs[d] \subseteq Defs
    BY FormatAssumption, Zenon
  <1>4. CASE UpgradeFunction(p)
    <2>1. PICK f \in First(Functions, r.todo) : bin' = Stored(f)
      BY <1>4, Zenon DEF UpgradeFunction
    <2>2. f \in FunctionDefs /\ f \in Defs
      BY FirstIsLeft, ViewsAreNames, Zenon DEF FunctionDefs
    <2>3. d = f
      BY <1>4, <2>1, <2>2, StoredForward, ZenonT(30) DEF UpgradeFunction
    <2> QED
      BY <2>2, <2>3, DefinitionAssumption, Zenon DEF FunctionDefs
  <1>5. CASE UpgradeTable(p)
    <2>1. PICK t \in First(Names, r.todo) \ Views : bin' = Stored(t)
      BY <1>5, ZenonT(30) DEF UpgradeTable
    <2>2. t \in Defs \ Views
      BY FirstIsLeft, ViewsAreNames, ZenonT(30) DEF TableDefs
    <2>3. d = t
      BY <1>5, <2>1, <2>2, StoredForward, ZenonT(30) DEF UpgradeTable
    <2>4. Refs[d] \subseteq FunctionDefs
      BY <2>2, <2>3, DefinitionAssumption, Zenon DEF FunctionDefs
    <2>5. r.pc = "tables" /\ r.pc \in Work /\ Done(FunctionDefs)
      BY <1>2, <1>5, ZenonT(30) DEF UpgradeTable, Work, Passed, Pass
    <2> QED
      BY <2>4, <2>5, DoneHad, ZenonT(30) DEF Dropped, Running929
  <1>6. CASE UpgradeView(p)
    <2>1. PICK v \in Waiting(r) : Usable(r, v) /\ bin' = Stored(v)
      BY <1>6, Zenon DEF UpgradeView
    <2>2. v \in Defs
      BY <2>1, ViewsAreNames, Zenon DEF Waiting, UpgradeInv, UpgradeType
    <2>3. d = v
      BY <1>6, <2>1, <2>2, StoredForward, Zenon DEF UpgradeView
    <2>4. /\ r.pc = "views" /\ r.pc \in Work /\ Done(FunctionDefs \cup TableDefs)
          /\ \A w \in r.created : bin[w] = BinFmt
      BY <1>2, <1>6, Zenon DEF UpgradeView, Work, Passed, Pass, Done
    <2>5. ASSUME NEW e \in Refs[d] \cap had PROVE bin[e] = BinFmt
      <3>1. CASE e \in Views
        BY <2>1, <2>3, <2>4, <3>1, Zenon DEF Usable
      <3>2. CASE e \notin Views
        <4>1. e \in FunctionDefs \cup TableDefs
          BY <1>3, <3>2, ViewsAreNames, Zenon
        <4> QED
          BY <2>4, <4>1, DoneHad, ZenonT(30) DEF Dropped, Running929
      <3> QED
        BY <3>1, <3>2, Zenon
    <2> QED
      BY <2>5, Zenon
  <1>7. CASE RunStatement(p)
    <2>1. /\ r.pc \in Running929 /\ r.file # <<>>
          /\ bin' = [bin EXCEPT ![Head(r.file)] = IF bin[Head(r.file)] = 0 THEN BinFmt ELSE 0]
      BY <1>7, Zenon DEF RunStatement, Running929
    <2>2. Head(r.file) \in Defs
      BY <2>1, SMTT(30) DEF Process
    <2>3. d = Head(r.file) /\ r.pc \in Work
      BY <2>1, <2>2, Zenon DEF UpgradeInv, UpgradeType, Running929, Work
    <2>4. d \notin Refs[d]
      BY DefinitionAssumption, Zenon
    <2>5. ASSUME NEW e \in Refs[d] \cap had PROVE bin[e] = BinFmt
      <3>1. ~Dropped(r, e)
        BY <2>3, <2>4, Zenon DEF Dropped
      <3>2. CASE r.pc = "rerun929"
        BY <1>2, <1>3, <2>3, <3>1, <3>2, DoneHad, ZenonT(30) DEF Progress, Truthful
      <3>3. CASE r.pc = "run929"
        <4>1. Done(FunctionDefs) /\ r.file \in Seq(Defs \ Views)
          BY <1>2, <3>3, SMTT(30) DEF Passed, Pass
        <4>2. d \in Defs \ Views
          BY <2>1, <2>3, <4>1, SMTT(30)
        <4>3. e \in FunctionDefs
          BY <4>2, DefinitionAssumption, Zenon DEF FunctionDefs
        <4> QED
          BY <2>3, <3>1, <4>1, <4>3, DoneHad, Zenon
      <3> QED
        BY <2>1, <3>2, <3>3, Zenon DEF Running929
    <2> QED
      BY <2>5, Zenon
  <1> QED
    BY <1>1, <1>4, <1>5, <1>6, <1>7, Zenon

(* No definition is parsed and stored again (auto_upgrade_binary_*,        *)
(* run_query_file for YDBOcto#929) before everything it refers to has been *)
(* upgraded, so that its parsing never reads a binary of an older format.  *)
THEOREM UpgradesReadUpgraded == Spec => ReadsUpgraded
  <1>1. UpgradeInv /\ [Next]_vars =>
          [\A d \in Defs : (gaps = {} /\ bin[d] # BinFmt /\ bin'[d] = BinFmt) =>
              \A e \in Refs[d] \cap had : bin[e] = BinFmt]_vars
    BY ReadsUpgradedStep, Zenon
  <1> QED
    BY <1>1, UpgradeInvHolds, PTL DEF Spec, ReadsUpgraded
=============================================================================
