----------------------------- MODULE MCListener -----------------------------
(* octo with many combinations of flags and files, and rocto with those that *)
(* decide about TLS.                                                        *)
EXTENDS Listener, TLC

Ok(set) == [kind |-> "ok", set |-> set]
Absent == [kind |-> "absent", set |-> [s \in {} |-> ""]]
Broken == [kind |-> "broken", set |-> [s \in {} |-> ""]]
None == [s \in {} |-> ""]

Path(n) == [name |-> n, obj |-> FALSE, close |-> FALSE]
Object(n) == [name |-> n, obj |-> TRUE, close |-> FALSE]
Last(n) == [name |-> n, obj |-> FALSE, close |-> TRUE]

MCStat == [d1 |-> "dir", d2 |-> "dir", o |-> "dir", so |-> "file", gone |-> "missing",
           sub |-> "notdir"]

Zroutines ==
    { <<Path("d1"), Path("so")>>, <<Path("so"), Path("d2")>>, <<Object("o"), Last("d1"), Path("d2")>>,
      <<Object("o"), Path("so"), Last("d2")>>, <<Object("gone"), Last("d1")>>, <<Path("so")>>,
      <<Object("o"), Last("")>>, <<Path("gone"), Path("d1")>>, <<Path("sub"), Path("d1")>>,
      <<Path("so"), Path("sub"), Path("d2")>>, <<Object("o"), Last("so"), Path("d1")>>,
      <<Object(""), Last("d1")>> }
Plain == <<Path("d1"), Path("so")>>

Values == { "verbosity" :> "INFO" @@ "emulate" :> "MYSQL", "verbosity" :> "loud",
            "datestyle" :> "ISO, MDY" @@ "tabletype" :> "READONLY" @@ "yottadb" :> "file",
            "datestyle" :> "int" @@ "rocto.port" :> "int", "rocto.port" :> "1338" @@ "emulate" :> "int",
            "datetimeoutputformat" :> "zut" @@ "verbosity" :> "DEBUG" @@ "tabletype" :> "READWRITE",
            "datetimeoutputformat" :> "ISO", "octo_history_max_length" :> "500",
            "octo_zroutines" :> <<Path("d2")>> }
Default == "rocto.port" :> "1337" @@ "emulate" :> "POSTGRES"

F(o) == [opt |-> o, arg |-> ""]
A(o, a) == [opt |-> o, arg |-> a]
Flags == { <<>>, <<F("c")>>, <<F("v"), F("v")>>, <<F("v"), F("v"), F("v"), F("v")>>, <<A("e", "MYSQL"), F("d")>>,
           <<A("e", "ORACLE")>>, <<A("verbose", 2), F("v")>>, <<F("v"), A("verbose", 0), F("p")>>,
           <<A("verbose", 4)>>, <<A("e", "MYSQL"), A("e", "POSTGRES")>> }
Implicit == {Absent, Broken} \cup {Ok(v) : v \in Values}
Octo(f, files, env, z) == [rocto |-> FALSE, flags |-> f, files |-> files, env |-> env, zroutines |-> z]
Files(cwd, home, plugin) ==
    [cwd |-> cwd, home |-> home, plugin |-> plugin, default |-> plugin, given |-> cwd]

OctoStarts ==
    {Octo(f, Files(c, h, Ok(Default)), env, Plain) :
        f \in Flags, c \in Implicit, h \in Implicit, env \in {"unset", "set"}}
    \cup {Octo(<<>>, Files(c, h, p), "unset", z) :
        c \in {Absent, Ok(None), Ok("octo_zroutines" :> <<Path("d2")>>)}, h \in {Absent, Ok("octo_zroutines" :> <<Path("d2")>>)},
        p \in {Ok(Default), Ok(None), Absent}, z \in Zroutines}

On1 == "rocto.ssl_on" :> "true"
Required1 == "rocto.ssl_required" :> "true"
Off1 == "rocto.ssl_on" :> "false" @@ "rocto.ssl_required" :> "false"
Rocto(f, cwd, home) ==
    [Octo(f, Files(Ok(cwd), Ok(home), Ok(Default)), "unset", Plain) EXCEPT !.rocto = TRUE]
RoctoStarts ==
    { Rocto(<<A("p", "1339"), F("a"), F("w")>>, "rocto.port" :> "1338", None), Rocto(<<>>, On1, Required1),
      Rocto(<<>>, Required1, On1), [Rocto(<<>>, Off1, On1 @@ Required1) EXCEPT !.rocto = FALSE],
      Rocto(<<>>, Required1, None), Rocto(<<A("p", "65536")>>, None, None),
      Rocto(<<F("d")>>, None, None) }

MCStarts == OctoStarts \cup RoctoStarts
=============================================================================
