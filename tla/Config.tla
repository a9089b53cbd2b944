------------------------------- MODULE Config -------------------------------
(***************************************************************************)
(* How octo and rocto find their settings: parse_startup_flags.c and the   *)
(* first part of octo_init.c.  The flags are parsed and put aside.  The    *)
(* files octo.conf of the current directory, of the home directory and of  *)
(* $ydb_dist/plugin/octo (or the one file of -c), then the default file,   *)
(* are merged one after the other, and after every merge all settings are  *)
(* read again.  At the end the flags replace what the files said.  The     *)
(* first read also looks in $zroutines for the directory of the plans.     *)
(*                                                                         *)
(* A file is [kind |-> "ok", "absent" or "broken", set |-> the settings].  *)
(* A value is the text "int" where it has a type that the lookup refuses.  *)
(* A path of $zroutines is [name, obj, close]: obj when "(" follows it,    *)
(* close when ")" does.                                                    *)
(***************************************************************************)
EXTENDS Integers, Sequences, FiniteSets

CONSTANTS
    Starts,     \* the ways to start: [rocto, flags, files, env, zroutines]
    Stat,       \* what stat() says of a path: "dir", "file", "missing", "notdir"
    TlsBuild    \* YDB_TLS_AVAILABLE

ASSUME StatAssumption ==
    /\ \A x \in DOMAIN Stat : Stat[x] \in {"dir", "file", "missing", "notdir"}
    /\ DOMAIN Stat \cap {"none", ""} = {}
    /\ TlsBuild \in BOOLEAN

\* The lists that YottaDB takes for $zroutines: what "(" opens is closed before the
\* next "(".
Zpath == [name : DOMAIN Stat \cup {""}, obj : BOOLEAN, close : BOOLEAN]
WellFormed(z) ==
    /\ z \in Seq(Zpath)
    /\ \A j \in DOMAIN z : z[j].obj => \E k \in j..Len(z) : z[k].close /\ \A l \in j + 1..k : ~z[l].obj
ASSUME StartAssumption ==
    \A s \in Starts :
        /\ s.rocto \in BOOLEAN /\ DOMAIN s.flags = 1..Len(s.flags) /\ Len(s.flags) \in Nat
        /\ WellFormed(s.zroutines)
        /\ \A x \in {"cwd", "home", "plugin", "default", "given"} :
               "octo_zroutines" \in DOMAIN s.files[x].set => WellFormed(s.files[x].set["octo_zroutines"])

VARIABLES
    start,      \* how the process was started
    pc,         \* "flags", "merge", "ready" or "failed"
    temp,       \* temp_config: the flags that replace settings
    todo,       \* the files still to merge
    merged,     \* the merged file
    config      \* OctoConfig

cvars == <<start, pc, temp, todo, merged, config>>

Levels == <<"TRACE", "DEBUG", "INFO", "ERROR">>    \* 1..4 for 0..3
Strict == {"verbosity", "emulate", "tabletype"}
Lenient == {"datestyle", "datetimeoutputformat", "octo_history_max_length"}
Kept == {"rocto.port", "rocto.ssl_on", "rocto.ssl_required"}
Setting == Strict \cup Lenient \cup Kept

Valid == [s \in Setting |->
    CASE s = "verbosity" -> {"TRACE", "DEBUG", "INFO", "ERROR"}
      [] s = "emulate" -> {"POSTGRES", "MYSQL"}
      [] s = "tabletype" -> {"READONLY", "READWRITE"}
      [] s = "datestyle" -> {"ISO, YMD", "ISO, MDY", "ISO, DMY"}
      [] s = "datetimeoutputformat" -> {"horolog", "zhorolog", "zut", "fileman", "text"}
      [] s = "octo_history_max_length" -> {"0", "500"}
      [] s = "rocto.port" -> {"1337", "1338", "1339"}
      [] OTHER -> {"true", "false"}]

\* OCTO_DEFAULT_POSTGRES_DATESTYLE and OCTO_DEFAULT_MYSQL_DATESTYLE.
DefaultDatestyle == "ISO, YMD"

\* memset(config, 0): what is there before any file was read.
Zero(s) == IF s = "rocto.port" THEN "0" ELSE "false"
Unset(s) ==
    CASE s = "verbosity" -> "ERROR"
      [] s = "emulate" -> "POSTGRES"
      [] s = "tabletype" -> "READWRITE"
      [] s = "datestyle" -> DefaultDatestyle
      [] s = "datetimeoutputformat" -> "text"
      [] s \in {"octo_history_max_length", "rocto.port"} -> "-1"
      [] OTHER -> Zero(s)

-----------------------------------------------------------------------------
(* parse_startup_flags *)

NoFlags == [verbosity |-> 5, prev |-> 4, emulate |-> "unset", port |-> "unset", file |-> FALSE,
            schema |-> FALSE, write |-> FALSE, bad |-> FALSE]

Flag(t, f, rocto) ==
    LET lower == IF t.prev > 1 THEN t.prev - 1 ELSE 1
    IN  CASE f.opt = "v" -> [t EXCEPT !.verbosity = lower, !.prev = lower]
          [] f.opt = "verbose" -> IF f.arg \in 0..3 THEN [t EXCEPT !.verbosity = 4 - f.arg]
                                  ELSE [t EXCEPT !.bad = TRUE]
          [] f.opt = "c" -> [t EXCEPT !.file = TRUE]
          [] f.opt = "e" -> IF f.arg \in Valid["emulate"] THEN [t EXCEPT !.emulate = f.arg]
                            ELSE [t EXCEPT !.bad = TRUE]
          [] f.opt = "p" /\ rocto -> IF f.arg \in Valid["rocto.port"] THEN [t EXCEPT !.port = f.arg]
                                     ELSE [t EXCEPT !.bad = TRUE]
          [] f.opt = "a" /\ rocto -> [t EXCEPT !.schema = TRUE]
          [] f.opt = "w" /\ rocto -> [t EXCEPT !.write = TRUE]
          [] f.opt \in {"d", "p"} /\ ~rocto -> t
          [] OTHER -> [t EXCEPT !.bad = TRUE]       \* -h, -r, a missing -f file, unknown

FlagsOf(s) ==
    LET t[i \in 0..Len(s.flags)] ==
            IF i = 0 THEN [NoFlags EXCEPT !.schema = ~s.rocto, !.write = ~s.rocto]
            ELSE IF t[i - 1].bad THEN t[i - 1]
            ELSE Flag(t[i - 1], s.flags[i], s.rocto)
    IN  t[Len(s.flags)]

\* The port that the flags leave in config: -1 marks it as not given.
FlagPort(t) == IF t.port = "unset" THEN "-1" ELSE t.port

ParseStartupFlags ==
    /\ pc = "flags"
    /\ temp' = FlagsOf(start)
    /\ pc' = IF temp'.bad THEN "failed" ELSE "merge"
    /\ todo' = IF temp'.file THEN <<"given", "default">> ELSE <<"cwd", "home", "plugin", "default">>
    /\ config' = [config EXCEPT !.allow_schema_changes = temp'.schema, !.readwrite = temp'.write,
                                !.set["rocto.port"] = FlagPort(temp')]
    /\ UNCHANGED <<start, merged>>

-----------------------------------------------------------------------------
(* parse_config_file_settings *)

\* The scan of $zroutines: the first directory holds the plans.  "(" makes the
\* name before it the object directory, and nothing takes that back.  stat()
\* of a path through a file leaves statbuf as it was: unset before the first
\* stat() that worked, so that the path may be taken for a directory.
NotFound == [ok |-> FALSE, src |-> "", obj |-> ""]
FoundDir_same(x, obj) == [ok |-> TRUE, src |-> x, obj |-> x]
FoundDir(x, obj) ==
    IF obj = "none" THEN [ok |-> TRUE, src |-> x, obj |-> x]
    ELSE IF obj # "" /\ Stat[obj] \in {"dir", "file"} THEN [ok |-> TRUE, src |-> x, obj |-> obj]
    ELSE NotFound

\* The scan, a path at a time: the object directory, whether statbuf is set, the
\* outcomes so far, and whether the scan is over.
StartScan == [obj |-> "none", set |-> FALSE, found |-> {}, over |-> FALSE]
ScanPath(t, path) ==
    LET x == path.name
    IN  IF t.over \/ (~path.obj /\ x = "") THEN t
        ELSE IF path.obj THEN [t EXCEPT !.obj = x]
        ELSE CASE Stat[x] = "missing" -> [t EXCEPT !.found = @ \cup {NotFound}, !.over = TRUE]
               [] Stat[x] = "file" -> [t EXCEPT !.set = TRUE]
               [] Stat[x] = "notdir" -> [t EXCEPT !.found = IF t.set THEN @ ELSE @ \cup {NotFound}]
               [] OTHER -> [t EXCEPT !.found = @ \cup {FoundDir(x, t.obj)}, !.over = TRUE]

ScanZroutines(z) ==
    LET t[i \in 0..Len(z)] == IF i = 0 THEN StartScan ELSE ScanPath(t[i - 1], z[i])
        end == t[Len(z)]
    IN  IF end.over THEN end.found ELSE end.found \cup {NotFound}

BadValue(m) ==
    \/ \E s \in Strict \cap DOMAIN m : m[s] \notin Valid[s]
    \/ \E s \in (Lenient \ {"octo_history_max_length"}) \cap DOMAIN m :
           m[s] # "int" /\ m[s] \notin Valid[s]

ReadSetting(c, m, s) ==
    IF s \in DOMAIN m /\ m[s] \in Valid[s] THEN m[s]
    ELSE IF s \in Kept THEN c.set[s] ELSE Unset(s)

TlsRefused_unchecked(set) == ~TlsBuild /\ set["rocto.ssl_on"] = "true"
TlsRefused(set) ==
    IF TlsBuild THEN set["rocto.ssl_on"] = "false" /\ set["rocto.ssl_required"] = "true"
    ELSE "true" \in {set["rocto.ssl_on"], set["rocto.ssl_required"]}

\* The settings after a read, or ok = FALSE after an error.
Reads(c, m) ==
    LET set == [s \in Setting |-> ReadSetting(c, m, s)]
        env == IF c.env = "unset" /\ "yottadb" \in DOMAIN m THEN m["yottadb"] ELSE c.env
        zro == (IF "octo_zroutines" \in DOMAIN m THEN m["octo_zroutines"] ELSE <<>>) \o c.zroutines
        scans == IF c.src # "" THEN {[ok |-> TRUE, src |-> c.src, obj |-> c.obj]} ELSE ScanZroutines(zro)
    IN  {[ok |-> r.ok /\ ~BadValue(m) /\ ~TlsRefused(set),
          config |-> [c EXCEPT !.set = set, !.env = env, !.src = r.src, !.obj = r.obj,
                               !.zroutines = IF c.src = "" THEN zro ELSE @]] : r \in scans}

-----------------------------------------------------------------------------
(* merge_config_file: what is there already is merged into the new file *)

Merge_new_wins(new, old) ==
    [s \in DOMAIN old \cup DOMAIN new |-> IF s \in DOMAIN new THEN new[s] ELSE old[s]]
Merge(new, old) ==
    [s \in DOMAIN old \cup DOMAIN new |-> IF s \in DOMAIN old THEN old[s] ELSE new[s]]

Skip(path) == start.files[path].kind = "absent" /\ path \in {"cwd", "home", "plugin"}
Unreadable(path) == start.files[path].kind # "ok" /\ ~Skip(path)

MergeConfigFile ==
    /\ pc = "merge" /\ todo # <<>>
    /\ LET path == Head(todo)
       IN  \/ /\ Skip(path)
              /\ UNCHANGED <<pc, merged, config>>
           \/ /\ Unreadable(path)
              /\ pc' = "failed" /\ UNCHANGED <<merged, config>>
           \/ /\ start.files[path].kind = "ok"
              /\ merged' = Merge(start.files[path].set, merged)
              /\ \E r \in Reads(config, merged') :
                    /\ config' = r.config
                    /\ pc' = IF r.ok THEN "merge" ELSE "failed"
    /\ todo' = Tail(todo)
    /\ UNCHANGED <<start, temp>>

-----------------------------------------------------------------------------
(* the end of the first part of octo_init *)

ApplyFlags(set) ==
    [s \in Setting |->
        CASE s = "verbosity" /\ temp.verbosity <= 4 -> Levels[temp.verbosity]
          [] s = "rocto.port" /\ temp.port # "unset" -> temp.port
          [] s = "emulate" /\ temp.emulate # "unset" -> temp.emulate
          [] s = "datestyle" /\ temp.emulate # "unset" -> DefaultDatestyle
          [] OTHER -> set[s]]

\* The last read, the flags, and what may fail after it: opendir() of the plan
\* directory, the names of the globals, the call-in table and _ydboctoInit.
FinishConfig ==
    /\ pc = "merge" /\ todo = <<>>
    /\ \E r \in Reads(config, merged) :
          /\ config' = [r.config EXCEPT !.set = ApplyFlags(r.config.set)]
          /\ pc' \in (IF r.ok THEN {"ready", "failed"} ELSE {"failed"})
    /\ UNCHANGED <<start, temp, todo, merged>>

ConfigInit ==
    /\ start \in Starts
    /\ pc = "flags" /\ temp = NoFlags /\ todo = <<>> /\ merged = [s \in {} |-> ""]
    /\ config = [set |-> [s \in Setting |-> Zero(s)], env |-> start.env, src |-> "", obj |-> "",
                 zroutines |-> start.zroutines, allow_schema_changes |-> FALSE, readwrite |-> FALSE]

ConfigNext == ParseStartupFlags \/ MergeConfigFile \/ FinishConfig

-----------------------------------------------------------------------------
(* Properties *)

Paths == IF temp.file THEN <<"given", "default">> ELSE <<"cwd", "home", "plugin", "default">>
Says(path, s) == start.files[path].kind = "ok" /\ s \in DOMAIN start.files[path].set
FirstSaying(s) ==
    {i \in DOMAIN Paths : Says(Paths[i], s) /\ \A j \in 1..i - 1 : ~Says(Paths[j], s)}

\* What the flags say of a setting: the last flag for it counts, and the n-th
\* -v asks for n levels below ERROR.
LastFlag(opts) ==
    {i \in DOMAIN start.flags :
        /\ start.flags[i].opt \in opts
        /\ \A j \in i + 1..Len(start.flags) : start.flags[j].opt \notin opts}
FlagSays(s) ==
    CASE s = "emulate" -> {start.flags[i].arg : i \in LastFlag({"e"})}
      [] s = "datestyle" -> {DefaultDatestyle : i \in LastFlag({"e"})}
      [] s = "rocto.port" -> IF start.rocto THEN {start.flags[i].arg : i \in LastFlag({"p"})} ELSE {}
      [] s = "verbosity" ->
            {IF start.flags[i].opt = "verbose" THEN Levels[4 - start.flags[i].arg]
             ELSE LET n == Cardinality({j \in 1..i : start.flags[j].opt = "v"})
                  IN  Levels[IF n < 4 THEN 4 - n ELSE 1] : i \in LastFlag({"v", "verbose"})}
      [] OTHER -> {}

\* A process that starts works with the settings that the documented order
\* gives to flags and files (config.rst:20-25): a flag before a file, and among
\* the files the first in the order current directory, home directory, plugin
\* directory, setting by setting, however the merges and the reads between them
\* went; what no file says (with a value of the right type) has its default, and
\* the port none (-1).  -e brings the default date style along.  A yottadb
\* variable that the environment has keeps its value (setenv() without overwrite):
\* this is what the code does, while config.rst:26 ranks the environment last.
SettingsPrecedence ==
    pc = "ready" =>
        /\ \A s \in Setting :
              LET said == {start.files[Paths[i]].set[s] : i \in FirstSaying(s)} \cap Valid[s]
              IN  config.set[s] \in
                    (IF FlagSays(s) # {} THEN FlagSays(s)
                     ELSE IF said # {} THEN said
                     ELSE {Unset(s)})
        /\ start.env # "unset" => config.env = start.env

\* The plans go to a directory that $zroutines names as a source directory,
\* the first one that is there, and their object code to the object directory
\* of the parentheses it stands in, or to the directory itself when no
\* parentheses come before it.  Nothing is said of a directory that stands alone
\* after closed parentheses: obj_dir is not reset at ")", so that it gets the
\* object directory of those parentheses, although the comment at
\* octo_init.c:673 promises the corresponding one.
PlanDirs ==
    pc = "ready" =>
        LET z == config.zroutines
            opens(i) == {j \in 1..i - 1 : z[j].obj /\ \A k \in j..i - 1 : ~z[k].close}
            at == {i \in DOMAIN z : ~z[i].obj /\ z[i].name = config.src}
        IN  /\ Stat[config.src] = "dir"
            /\ \E i \in at :
                  /\ \A k \in 1..i - 1 : z[k].obj \/ z[k].name = "" \/ Stat[z[k].name] # "dir"
                  /\ \A j \in opens(i) : config.obj = z[j].name
                  /\ (\A j \in 1..i - 1 : ~z[j].obj) => config.obj = config.src

\* octo and rocto start as they were told: octo_init() gives every setting the
\* value that the flags and files say, and finds the plan directories.
StartsAsConfigured == SettingsPrecedence /\ PlanDirs
=============================================================================
