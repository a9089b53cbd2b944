--------------------------- MODULE ListenerProofs ---------------------------
(***************************************************************************)
(* Proofs about Config and Listener, for every configuration, any number   *)
(* of process ids, of connections and of failing calls.  What a process    *)
(* starts with comes last (StartInv), as it needs induction over the flags *)
(* and over $zroutines.                                                    *)
(***************************************************************************)
EXTENDS Listener, FiniteSetTheorems, WellFoundedInduction, TLAPS

-----------------------------------------------------------------------------
(* The settings for TLS when a process is ready. *)

Tls == {"rocto.ssl_on", "rocto.ssl_required"}

OctoConfig(c) == "set" \in DOMAIN c /\ DOMAIN c.set = Setting

\* What a read leaves is one of the two values, and a process that is ready has
\* passed the check of parse_config_file_settings.
ConfigInv ==
    /\ OctoConfig(config)
    /\ \A s \in Tls : config.set[s] \in {"true", "false"}
    /\ pc = "ready" => ~TlsRefused(config.set)

LEMMA TlsSettings ==
    ASSUME NEW s \in Tls
    PROVE  /\ s \in Setting /\ s \in Kept /\ Valid[s] = {"true", "false"} /\ Zero(s) = "false"
           /\ \A set : ApplyFlags(set)[s] = set[s]
<1>1. s \in Setting /\ s \in Kept
  BY DEF Tls, Setting, Kept
<1>2. /\ s # "verbosity" /\ s # "emulate" /\ s # "tabletype" /\ s # "datestyle"
      /\ s # "datetimeoutputformat" /\ s # "octo_history_max_length" /\ s # "rocto.port"
  BY DEF Tls
<1>3. Valid[s] = {"true", "false"}
  BY <1>1, <1>2, Zenon DEF Valid
<1>4. \A set : ApplyFlags(set)[s] = set[s]
  BY <1>1, <1>2, Zenon DEF ApplyFlags
<1> QED
  BY <1>1, <1>2, <1>3, <1>4, Zenon DEF Zero

\* A read keeps the settings for TLS among the two values and refuses what
\* TlsRefused does.
LEMMA ReadsTls ==
    ASSUME NEW c, OctoConfig(c), \A s \in Tls : c.set[s] \in {"true", "false"},
           NEW m, NEW r \in Reads(c, m)
    PROVE  /\ OctoConfig(r.config)
           /\ \A s \in Tls : r.config.set[s] \in {"true", "false"}
           /\ r.ok => ~TlsRefused(r.config.set)
<1> DEFINE set == [s \in Setting |-> ReadSetting(c, m, s)]
<1>1. OctoConfig(r.config) /\ r.config.set = set /\ (r.ok => ~TlsRefused(set))
  <2> DEFINE zro == (IF "octo_zroutines" \in DOMAIN m THEN m["octo_zroutines"] ELSE <<>>) \o c.zroutines
             env == IF c.env = "unset" /\ "yottadb" \in DOMAIN m THEN m["yottadb"] ELSE c.env
             zs == IF c.src = "" THEN zro ELSE c.zroutines
             read(x) == [c EXCEPT !.set = set, !.env = env, !.src = x.src, !.obj = x.obj, !.zroutines = zs]
  <2>1. PICK x : r = [ok |-> x.ok /\ ~BadValue(m) /\ ~TlsRefused(set), config |-> read(x)]
    BY Zenon DEF Reads
  <2>2. r.config = read(x)
    BY <2>1
  <2>3. r.ok = (x.ok /\ ~BadValue(m) /\ ~TlsRefused(set))
    BY <2>1
  <2>4. r.ok => ~TlsRefused(set)
    BY <2>3, Zenon
  <2>5. DOMAIN set = Setting
    BY Zenon
  <2> HIDE DEF set, zs, env
  <2>6. OctoConfig(read(x)) /\ read(x).set = set
    BY <2>5, Zenon DEF OctoConfig
  <2> QED
    BY <2>2, <2>4, <2>6
<1>2. \A s \in Tls : set[s] \in {"true", "false"}
  BY TlsSettings DEF ReadSetting
<1> HIDE DEF set
<1> QED
  BY <1>1, <1>2

LEMMA ConfigInitInv == ConfigInit => ConfigInv
<1> SUFFICES ASSUME ConfigInit PROVE ConfigInv
  OBVIOUS
<1>1. OctoConfig(config) /\ config.set = [s \in Setting |-> Zero(s)]
  BY Zenon DEF ConfigInit, OctoConfig
<1>2. pc # "ready"
  BY Zenon DEF ConfigInit
<1> QED
  BY <1>1, <1>2, TlsSettings DEF ConfigInv

LEMMA ConfigStep ==
    ASSUME ConfigInv, ConfigNext
    PROVE  ConfigInv'
<1>1. CASE ParseStartupFlags
  <2>1. PICK t, u, v : config' = [config EXCEPT !.allow_schema_changes = t, !.readwrite = u, !.set["rocto.port"] = v]
    BY <1>1, Zenon DEF ParseStartupFlags
  <2>2. DOMAIN config' = DOMAIN config /\ config'.set = [config.set EXCEPT !["rocto.port"] = v]
    BY <2>1, Zenon DEF ConfigInv, OctoConfig
  <2>3. \A s \in Tls : config'.set[s] = config.set[s]
    <3>1. \A s \in Tls : s # "rocto.port"
      BY DEF Tls
    <3> QED
      BY <2>2, <3>1, TlsSettings, Zenon DEF ConfigInv, OctoConfig
  <2>4. pc' # "ready"
    BY <1>1, Zenon DEF ParseStartupFlags
  <2> QED
    BY <2>2, <2>3, <2>4, Zenon DEF ConfigInv, OctoConfig
<1>2. CASE MergeConfigFile
  <2>1. CASE UNCHANGED config /\ (pc' = pc \/ pc' = "failed")
    BY <1>2, <2>1, Zenon DEF ConfigInv, MergeConfigFile
  <2>2. CASE \E r \in Reads(config, merged') : config' = r.config /\ pc' = IF r.ok THEN "merge" ELSE "failed"
    BY <2>2, ReadsTls, ZenonT(30) DEF ConfigInv
  <2> QED
    BY <1>2, <2>1, <2>2, Zenon DEF MergeConfigFile
<1>3. CASE FinishConfig
  <2>1. PICK r \in Reads(config, merged) :
            /\ config' = [r.config EXCEPT !.set = ApplyFlags(r.config.set)]
            /\ pc' \in (IF r.ok THEN {"ready", "failed"} ELSE {"failed"})
    BY <1>3, Zenon DEF FinishConfig
  <2>2. /\ OctoConfig(r.config)
        /\ \A s \in Tls : r.config.set[s] \in {"true", "false"}
        /\ r.ok => ~TlsRefused(r.config.set)
    BY ReadsTls DEF ConfigInv
  <2>3. OctoConfig(config') /\ \A s \in Tls : config'.set[s] = r.config.set[s]
    <3>1. PICK set : set = ApplyFlags(r.config.set)
      OBVIOUS
    <3>2. DOMAIN set = Setting /\ \A s \in Tls : set[s] = r.config.set[s]
      BY <3>1, TlsSettings, Zenon DEF ApplyFlags
    <3>3. config'.set = set /\ DOMAIN config' = DOMAIN r.config
      BY <2>1, <2>2, <3>1, Zenon DEF OctoConfig
    <3> QED
      BY <2>2, <3>2, <3>3, Zenon DEF OctoConfig
  <2>4. TlsRefused(config'.set) = TlsRefused(r.config.set)
    BY <2>3 DEF TlsRefused, Tls
  <2> QED
    BY <2>1, <2>2, <2>3, <2>4, Zenon DEF ConfigInv
<1> QED
  BY <1>1, <1>2, <1>3 DEF ConfigNext

-----------------------------------------------------------------------------
(* The inductive invariant of the listener and its servers. *)

Entry == [key : Nat, time : Nat]
Process == [pc : Server \cup {"free", "zombie", "other"}, born : Nat, key : Nat,
            tls : {"off", "on", "broken"}, list : [Pid -> Entry], target : Nat, lost : BOOLEAN]

ListenerType ==
    /\ clock \in Nat /\ child \in [pid : Nat, key : Nat]
    /\ keys \in [Pid -> Entry] /\ procs \in [Pid -> Process]

\* Servers exist only while rocto is ready, so that no setting changes under them.
Running ==
    /\ lpc # "off" => pc = "ready"
    /\ lpc = "off" => \A p \in Pid : procs[p].pc = "free"

\* A process is known by its start time, which is also the key of a server.
Identity ==
    \A p \in Pid :
        /\ procs[p].born <= clock
        /\ procs[p].pc \in Server \cup {"zombie"} => procs[p].born # 0 /\ procs[p].key = procs[p].born
        /\ procs[p].pc = "free" => procs[p].born = 0 /\ procs[p].key = 0

\* If the start time of an entry is that of the process that has the pid now, this
\* process is the server whose key the entry has.
TrueEntry(e, q) ==
    /\ e.time <= clock
    /\ e.time # 0 /\ e.time = procs[q].born => e.key = e.time /\ procs[q].key = e.time
ListsTrue ==
    \A q \in Pid : TrueEntry(keys[q], q) /\ \A p \in Pid : TrueEntry(procs[p].list[q], q)

\* The pid that is being registered is still that of the new server, or free.
Registering == lpc \in {"setkey", "settime"}
ChildKnown ==
    Registering =>
        /\ child.pid \in Pid
        /\ procs[child.pid].born # 0 =>
               procs[child.pid].born = child.key /\ procs[child.pid].key = child.key
        /\ lpc = "settime" => keys[child.pid].key = child.key

\* A server whose registration did not fail is in the list once it is registered, and
\* in the lists of all servers that were forked after that.
Complete(e, q) == e.key = procs[q].born /\ e.time = procs[q].born
ServersListed ==
    \A q \in Pid : procs[q].pc \in Server /\ ~procs[q].lost =>
        /\ ~(Registering /\ child.pid = q) => Complete(keys[q], q)
        /\ \A p \in Pid : procs[p].pc \in {"start", "first"} /\ procs[q].born < procs[p].born =>
               Complete(procs[p].list[q], q)

\* With ssl_required a client that did not ask for TLS gets no further.
Encrypted(p) ==
    On("rocto.ssl_required") =>
        /\ procs[p].pc = "first" => procs[p].tls \in {"on", "broken"}
        /\ procs[p].pc \in {"password", "permissions", "loop", "kill"} => procs[p].tls = "on"

ListenerInv ==
    /\ ConfigInv /\ ListenerType /\ Running /\ Identity /\ ListsTrue /\ ChildKnown /\ ServersListed
    /\ \A p \in Pid : Encrypted(p)

LEMMA FreeType == Free \in Process /\ Free.pc = "free" /\ Free.born = 0 /\ Free.key = 0
                  /\ \A q \in Pid : Free.list[q].time = 0 /\ Free.list[q].key = 0
BY DEF Free, Process, NoEntry, Entry

LEMMA ListenerInitInv == Init => ListenerInv
<1> SUFFICES ASSUME Init PROVE ListenerInv
  OBVIOUS
<1>1. ConfigInv
  BY ConfigInitInv, Zenon DEF Init
<1>2. ListenerType
  BY FreeType, Zenon DEF Init, ListenerInit, ListenerType, NoEntry, NoPair, Entry
<1>3. Running /\ Identity /\ ChildKnown
  BY FreeType DEF Init, ListenerInit, Running, Identity, ChildKnown, Registering, Server
<1>4. ListsTrue
  BY FreeType DEF Init, ListenerInit, ListsTrue, TrueEntry, NoEntry
<1>5. ServersListed /\ \A p \in Pid : Encrypted(p)
  BY FreeType, Zenon DEF Init, ListenerInit, ServersListed, Encrypted, Server
<1> QED
  BY <1>1, <1>2, <1>3, <1>4, <1>5, Zenon DEF ListenerInv

-----------------------------------------------------------------------------
(* Steps of the servers. *)

\* What a step of server p may do to it: it stays the same server or becomes a
\* zombie, and its list stays as it was or loses its start times.
LEMMA ServerStep ==
    ASSUME ListenerInv, NEW p \in Pid, Only, procs[p].pc \in Server,
           procs' \in [Pid -> Process], \A q \in Pid \ {p} : procs'[q] = procs[q],
           procs'[p].pc \in Server \cup {"zombie"},
           procs'[p].born = procs[p].born, procs'[p].key = procs[p].key,
           procs'[p].pc \in Server => procs'[p].lost = procs[p].lost,
           procs'[p].pc \in {"start", "first"} =>
               procs[p].pc \in {"start", "first"} /\ procs'[p].list = procs[p].list,
           procs'[p].list = procs[p].list \/ \A q \in Pid : procs'[p].list[q].time = 0,
           Encrypted(p)'
    PROVE  ListenerInv'
<1>1. /\ UNCHANGED <<pc, config, lpc, child, keys, clock>>
      /\ \A q \in Pid : procs'[q].born = procs[q].born /\ procs'[q].key = procs[q].key
  BY Zenon DEF Only, cvars
<1>2. ConfigInv' /\ ListenerType'
  BY <1>1, Zenon DEF ListenerInv, ConfigInv, ListenerType
<1>3. Running'
  BY <1>1, Zenon DEF ListenerInv, Running, Server
<1>4. Identity'
  BY <1>1, SMTT(30) DEF ListenerInv, Identity, Server
<1>5. ListsTrue'
  <2>1. ASSUME NEW e, NEW q \in Pid, TrueEntry(e, q) PROVE TrueEntry(e, q)'
    BY <1>1, <2>1, Zenon DEF TrueEntry
  <2>2. ASSUME NEW e, NEW q \in Pid, e.time = 0 PROVE TrueEntry(e, q)'
    BY <1>1, <2>2 DEF TrueEntry, ListenerInv, ListenerType
  <2> QED
    BY <1>1, <2>1, <2>2, SMTT(30) DEF ListenerInv, ListsTrue, TrueEntry
<1>6. ChildKnown'
  BY <1>1, Zenon DEF ListenerInv, ChildKnown, Registering
<1>7. ServersListed'
  <2> SUFFICES ASSUME NEW q \in Pid, procs'[q].pc \in Server, ~procs'[q].lost
               PROVE  /\ ~(Registering' /\ child'.pid = q) => Complete(keys[q], q)'
                      /\ \A o \in Pid : procs'[o].pc \in {"start", "first"} /\ procs'[q].born < procs'[o].born =>
                            Complete(procs[o].list[q], q)'
    BY Zenon DEF ServersListed
  <2>1. procs[q].pc \in Server /\ ~procs[q].lost
    BY Zenon
  <2>2. \A o \in Pid : procs'[o].pc \in {"start", "first"} =>
            procs[o].pc \in {"start", "first"} /\ procs'[o].list = procs[o].list
    BY Zenon
  <2> QED
    BY <1>1, <2>1, <2>2 DEF ListenerInv, ServersListed, Complete, Registering
<1>8. \A q \in Pid : Encrypted(q)'
  BY <1>1 DEF ListenerInv, Encrypted, On
<1> QED
  BY <1>2, <1>3, <1>4, <1>5, <1>6, <1>7, <1>8, Zenon DEF ListenerInv

\* The end of a server.
LEMMA EndStep ==
    ASSUME ListenerInv, NEW p \in Pid, Only, procs[p].pc \in Server,
           procs' = [procs EXCEPT ![p] = Ended(p)]
    PROVE  ListenerInv'
<1>1. procs[p] \in Process
  BY DEF ListenerInv, ListenerType
<1>2. /\ Ended(p) \in Process /\ Ended(p).pc = "zombie"
      /\ Ended(p).born = procs[p].born /\ Ended(p).key = procs[p].key
      /\ \A q \in Pid : Ended(p).list[q].time = 0
  BY <1>1, FreeType, Zenon DEF Ended, Process
<1>3. procs'[p] = Ended(p) /\ procs' \in [Pid -> Process] /\ \A q \in Pid \ {p} : procs'[q] = procs[q]
  BY <1>2, Zenon DEF ListenerInv, ListenerType
<1> QED
  BY <1>2, <1>3, ServerStep, ZenonT(30) DEF Encrypted, Server

\* octo_init has refused ssl_required without ssl_on.
LEMMA RequiredIsOn ==
    ASSUME ListenerInv, NEW p \in Pid, procs[p].pc \in Server, On("rocto.ssl_required")
    PROVE  On("rocto.ssl_on")
<1>1. pc = "ready"
  BY Zenon DEF ListenerInv, Running, Server
<1>2. ~TlsRefused(config.set) /\ config.set["rocto.ssl_on"] \in {"true", "false"}
  BY <1>1, Zenon DEF ListenerInv, ConfigInv, Tls
<1> QED
  BY <1>2, Zenon DEF TlsRefused, On

LEMMA SendsInv ==
    ASSUME ListenerInv, NEW p \in Pid, Sends(p) \/ ServerEnds(p)
    PROVE  ListenerInv'
<1>1. procs[p] \in Process /\ procs \in [Pid -> Process]
  BY Zenon DEF ListenerInv, ListenerType
<1>2. UNCHANGED <<config, lpc>> \/ ~Only
  BY Zenon DEF Only, cvars
<1>3. CASE Kill(p) \/ BadStartup(p) \/ BadPasswordMessage(p) \/ PasswordRefused(p) \/ ServerEnds(p)
  BY <1>3, EndStep, Zenon DEF Kill, BadStartup, BadPasswordMessage, PasswordRefused, ServerEnds, Server
<1>4. CASE SslRequest(p)
  <2>1. Only /\ procs[p].pc = "start"
    BY <1>4 DEF SslRequest
  <2>2. PICK t \in (IF On("rocto.ssl_on") THEN {"on", "broken"} ELSE {"off"}) :
            procs' = [procs EXCEPT ![p].tls = t, ![p].pc = "first"]
    BY <1>4, Zenon DEF SslRequest
  <2>3. On("rocto.ssl_required") => t \in {"on", "broken"}
    BY <2>1, RequiredIsOn, Zenon DEF Server
  <2>4. t \in {"off", "on", "broken"}
    OBVIOUS
  <2>5. /\ procs'[p] = [procs[p] EXCEPT !.tls = t, !.pc = "first"]
        /\ \A q \in Pid \ {p} : procs'[q] = procs[q]
        /\ DOMAIN procs' = Pid /\ procs' = [q \in Pid |-> procs'[q]]
    BY <1>1, <2>2, Zenon
  <2>6. /\ procs'[p] \in Process /\ procs'[p].tls = t /\ procs'[p].pc = "first"
        /\ procs'[p].born = procs[p].born /\ procs'[p].key = procs[p].key
        /\ procs'[p].lost = procs[p].lost /\ procs'[p].list = procs[p].list
    BY <1>1, <2>4, <2>5, ZenonT(40) DEF Process, Server
  <2>7. procs' \in [Pid -> Process]
    BY <1>1, <2>5, <2>6
  <2>8. Encrypted(p)'
    BY <1>2, <2>1, <2>3, <2>6 DEF Encrypted, On
  <2> QED
    BY <2>1, <2>5, <2>6, <2>7, <2>8, ServerStep, Zenon DEF Server
<1>5. CASE NoSslRequest(p)
  <2>1. CASE On("rocto.ssl_required")
    BY <1>5, <2>1, EndStep, Zenon DEF NoSslRequest, Server
  <2>2. CASE ~On("rocto.ssl_required")
    <3>1. Only /\ procs[p].pc = "start" /\ procs' = [procs EXCEPT ![p] = [@ EXCEPT !.pc = "first"]]
      BY <1>5, <2>2 DEF NoSslRequest
    <3>2. /\ procs'[p] = [procs[p] EXCEPT !.pc = "first"] /\ procs'[p] \in Process
          /\ procs' \in [Pid -> Process] /\ \A q \in Pid \ {p} : procs'[q] = procs[q]
      BY <1>1, <3>1, Zenon DEF Process, Server
    <3>3. Encrypted(p)'
      BY <1>2, <2>2, <3>1 DEF Encrypted, On
    <3> QED
      BY <1>1, <3>1, <3>2, <3>3, ServerStep, SMTT(30) DEF Server, Process
  <2> QED
    BY <2>1, <2>2, Zenon
<1>6. CASE \E g \in given, q \in Pid : CancelRequest(p, q, g.key)
  <2>1. PICK g \in given, q \in Pid : CancelRequest(p, q, g.key)
    BY <1>6, Zenon
  <2>2. Only /\ procs[p].pc = "first" /\ procs[p].tls # "broken"
    BY <2>1 DEF CancelRequest
  <2>3. CASE ~Confirmed(p, q, g.key)
    BY <2>1, <2>2, <2>3, EndStep, Zenon DEF CancelRequest, Server
  <2>4. CASE Confirmed(p, q, g.key)
    <3>1. procs' = [procs EXCEPT ![p] = [@ EXCEPT !.pc = "kill", !.target = q]]
      BY <2>1, <2>4, Zenon DEF CancelRequest
    <3>2. q \in Nat
      BY ListenerAssumption
    <3>3. procs'[p] = [procs[p] EXCEPT !.pc = "kill", !.target = q] /\ \A o \in Pid \ {p} : procs'[o] = procs[o]
      BY <1>1, <3>1, Zenon
    <3>4. /\ procs'[p] \in Process /\ procs'[p].pc = "kill" /\ procs'[p].tls = procs[p].tls
          /\ procs'[p].born = procs[p].born /\ procs'[p].key = procs[p].key
          /\ procs'[p].lost = procs[p].lost /\ procs'[p].list = procs[p].list
      BY <1>1, <3>2, <3>3, Zenon DEF Process, Server
    <3>5. procs' \in [Pid -> Process]
      BY <1>1, <3>1, <3>3, <3>4
    <3>6. Encrypted(p)'
      BY <1>2, <2>2, <3>4, Zenon DEF ListenerInv, Encrypted, On
    <3> QED
      BY <2>2, <3>3, <3>4, <3>5, <3>6, ServerStep, Zenon DEF Server
  <2> QED
    BY <2>3, <2>4
<1>7. CASE Startup(p)
  <2> DEFINE own == [q \in Pid |-> IF q = p THEN [key |-> procs[p].key, time |-> 0] ELSE NoEntry]
  <2>1. Only /\ procs[p].pc = "first" /\ procs[p].tls # "broken"
    BY <1>7, Zenon DEF Startup
  <2>2. own \in [Pid -> Entry] /\ \A q \in Pid : own[q].time = 0
    BY <1>1, Zenon DEF Entry, NoEntry, Process
  <2> HIDE DEF own
  <2>3. procs' = [procs EXCEPT ![p].list = own, ![p].pc = "password"]
    BY <1>7, Zenon DEF Startup, own
  <2>4. procs'[p] = [procs[p] EXCEPT !.list = own, !.pc = "password"] /\ \A o \in Pid \ {p} : procs'[o] = procs[o]
    BY <1>1, <2>3, Zenon
  <2>5. /\ procs'[p] \in Process /\ procs'[p].pc = "password" /\ procs'[p].tls = procs[p].tls
        /\ procs'[p].born = procs[p].born /\ procs'[p].key = procs[p].key
        /\ procs'[p].lost = procs[p].lost /\ procs'[p].list = own
    BY <1>1, <2>2, <2>4, ZenonT(30) DEF Process, Server
  <2>6. procs' \in [Pid -> Process]
    BY <1>1, <2>3, <2>4, <2>5
  <2>7. Encrypted(p)'
    BY <1>2, <2>1, <2>5 DEF ListenerInv, Encrypted, On
  <2> QED
    BY <2>1, <2>2, <2>4, <2>5, <2>6, <2>7, ServerStep, Zenon DEF Server
<1>8. CASE Password(p) \/ GetUserPermissions(p)
  <2>1. Only /\ procs[p].pc \in {"password", "permissions"}
    BY <1>8 DEF Password, GetUserPermissions
  <2>2. CASE procs' = [procs EXCEPT ![p] = Ended(p)]
    BY <2>1, <2>2, EndStep, Zenon DEF Server
  <2>3. CASE \E new \in {"permissions", "loop"} : procs' = [procs EXCEPT ![p].pc = new]
    <3>1. PICK new \in {"permissions", "loop"} : procs' = [procs EXCEPT ![p].pc = new]
      BY <2>3, Zenon
    <3>2. procs'[p] = [procs[p] EXCEPT !.pc = new] /\ \A o \in Pid \ {p} : procs'[o] = procs[o]
      BY <1>1, <3>1, Zenon
    <3>3. /\ procs'[p] \in Process /\ procs'[p].pc = new /\ procs'[p].tls = procs[p].tls
          /\ procs'[p].born = procs[p].born /\ procs'[p].key = procs[p].key
          /\ procs'[p].lost = procs[p].lost /\ procs'[p].list = procs[p].list
      BY <1>1, <3>2, Zenon DEF Process, Server
    <3>4. procs' \in [Pid -> Process]
      BY <1>1, <3>1, <3>2, <3>3
    <3>5. Encrypted(p)'
      BY <1>2, <2>1, <3>3, Zenon DEF ListenerInv, Encrypted, On
    <3> QED
      BY <2>1, <3>2, <3>3, <3>4, <3>5, ServerStep, Zenon DEF Server
  <2> QED
    BY <1>8, <2>2, <2>3, Zenon DEF Password, GetUserPermissions
<1> QED
  BY <1>3, <1>4, <1>5, <1>6, <1>7, <1>8, Zenon DEF Sends

-----------------------------------------------------------------------------
(* Processes that come and go. *)

\* A pid becomes free: the helper thread reaps a server, another program ends.
LEMMA GoneStep ==
    ASSUME ListenerInv, NEW p \in Pid, procs[p].pc \in {"zombie", "other"},
           procs' = [procs EXCEPT ![p] = Free],
           UNCHANGED <<cvars, lpc, child, keys, clock>>
    PROVE  ListenerInv'
<1>1. UNCHANGED <<pc, config, lpc, child, keys, clock>>
  BY Zenon DEF cvars
<1>2. /\ procs'[p] = Free /\ procs' \in [Pid -> Process]
      /\ \A q \in Pid \ {p} : procs'[q] = procs[q]
  BY FreeType, Zenon DEF ListenerInv, ListenerType
<1>3. ConfigInv' /\ ListenerType'
  BY <1>1, <1>2, Zenon DEF ListenerInv, ConfigInv, ListenerType
<1>4. Running'
  BY <1>1, <1>2, FreeType, ZenonT(40) DEF ListenerInv, Running
<1>5. Identity'
  <2>1. ASSUME NEW q \in Pid PROVE procs'[q] = procs[q] \/ procs'[q] = Free
    BY <1>2, Zenon
  <2> QED
    BY <1>1, <2>1, FreeType, SMTT(30) DEF ListenerInv, Identity, ListenerType, Server
<1>6. ListsTrue'
  <2>1. ASSUME NEW e, NEW q \in Pid, TrueEntry(e, q) PROVE TrueEntry(e, q)'
    BY <1>1, <1>2, <2>1, FreeType, Zenon DEF TrueEntry
  <2>2. ASSUME NEW e, NEW q \in Pid, e.time = 0 PROVE TrueEntry(e, q)'
    BY <1>1, <2>2, SMTT(30) DEF TrueEntry, ListenerInv, ListenerType
  <2>3. ASSUME NEW q \in Pid PROVE TrueEntry(keys[q], q)' /\ \A o \in Pid \ {p} : TrueEntry(procs[o].list[q], q)'
    <3>1. TrueEntry(keys[q], q) /\ \A o \in Pid : TrueEntry(procs[o].list[q], q)
      BY Zenon DEF ListenerInv, ListsTrue
    <3> QED
      BY <1>1, <1>2, <2>1, <3>1, SMTT(30) DEF TrueEntry
  <2>4. ASSUME NEW q \in Pid PROVE TrueEntry(procs[p].list[q], q)'
    BY <1>2, <2>2, FreeType, Zenon DEF TrueEntry
  <2> QED
    BY <2>3, <2>4, Zenon DEF ListsTrue
<1>7. ChildKnown'
  <2>1. ASSUME NEW q \in Pid PROVE procs'[q] = procs[q] \/ procs'[q].born = 0
    BY <1>2, FreeType, Zenon
  <2> QED
    BY <1>1, <2>1, Zenon DEF ListenerInv, ChildKnown, Registering
<1>8. ServersListed'
  <2>1. ASSUME NEW q \in Pid, procs'[q].pc \in Server PROVE procs'[q] = procs[q]
    BY <1>2, <2>1, FreeType, Zenon DEF Server
  <2>2. ASSUME NEW o \in Pid, procs'[o].pc \in {"start", "first"} PROVE procs'[o] = procs[o]
    BY <2>1, <2>2, Zenon DEF Server
  <2> QED
    BY <1>1, <2>1, <2>2 DEF ListenerInv, ServersListed, Complete, Registering
<1>9. \A q \in Pid : Encrypted(q)'
  BY <1>1, <1>2, FreeType, Zenon DEF ListenerInv, Encrypted, On
<1> QED
  BY <1>3, <1>4, <1>5, <1>6, <1>7, <1>8, <1>9, Zenon DEF ListenerInv

\* A free pid is given to a process whose start time no list can have.
LEMMA NewStep ==
    ASSUME ListenerInv, NEW p \in Pid, procs[p].pc = "free", clock' = clock + 1,
           NEW n \in Process, procs' = [procs EXCEPT ![p] = n], UNCHANGED keys,
           n.born = clock + 1, n.list = keys \/ \A q \in Pid : n.list[q].time = 0,
           n.pc = "other" \/ (n.pc = "start" /\ n.key = n.born)
    PROVE  Identity' /\ ListsTrue'
<1>1. /\ procs'[p] = n /\ procs' \in [Pid -> Process]
      /\ \A q \in Pid \ {p} : procs'[q] = procs[q]
  BY Zenon DEF ListenerInv, ListenerType
<1>2. clock \in Nat /\ keys \in [Pid -> Entry] /\ procs \in [Pid -> Process]
  BY Zenon DEF ListenerInv, ListenerType
<1>3. Identity'
  <2>1. \A q \in Pid : procs[q].born \in Nat /\ n.born # 0
    BY <1>2 DEF Process
  <2> QED
    BY <1>1, <1>2, <2>1, SMTT(30) DEF ListenerInv, Identity, Server
<1>4. ASSUME NEW e \in Entry, NEW q \in Pid, TrueEntry(e, q) PROVE TrueEntry(e, q)'
  <2>1. e.time \in Nat /\ e.time <= clock /\ e.time # n.born
    BY <1>2, <1>4 DEF TrueEntry, Entry
  <2> QED
    BY <1>1, <1>2, <1>4, <2>1, SMTT(30) DEF TrueEntry
<1>5. ASSUME NEW q \in Pid
      PROVE  /\ TrueEntry(keys[q], q)'
             /\ \A o \in Pid : TrueEntry(procs[o].list[q], q)'
  <2>1. TrueEntry(keys[q], q) /\ \A o \in Pid : TrueEntry(procs[o].list[q], q)
    BY Zenon DEF ListenerInv, ListsTrue
  <2>2. keys[q] \in Entry /\ \A o \in Pid : procs[o].list[q] \in Entry
    BY <1>2 DEF Process
  <2>3. TrueEntry(keys[q], q)'
    BY <1>4, <2>1, <2>2, ZenonT(30) DEF TrueEntry
  <2>4. ASSUME NEW o \in Pid \ {p} PROVE TrueEntry(procs[o].list[q], q)'
    BY <1>1, <1>4, <2>1, <2>2, SMTT(30) DEF TrueEntry
  <2>5. TrueEntry(procs[p].list[q], q)'
    <3>1. CASE n.list = keys
      BY <1>1, <2>3, <3>1, Zenon DEF TrueEntry
    <3>2. CASE n.list[q].time = 0
      BY <1>1, <1>2, <3>2 DEF TrueEntry
    <3> QED
      BY <3>1, <3>2, Zenon
  <2> QED
    BY <2>3, <2>4, <2>5, Zenon
<1> QED
  BY <1>3, <1>5, Zenon DEF ListsTrue

LEMMA AcceptInv ==
    ASSUME ListenerInv, Accept
    PROVE  ListenerInv'
<1>1. PICK p \in Pid : /\ procs[p].pc = "free"
                       /\ child' = [pid |-> p, key |-> clock + 1]
                       /\ procs' = [procs EXCEPT ![p] = NewServer(keys)]
  BY Zenon DEF Accept
<1>2. /\ UNCHANGED <<pc, config, keys>> /\ clock' = clock + 1
      /\ lpc = "accept" /\ lpc' = "setkey"
  BY Zenon DEF Accept, cvars
<1>3. clock \in Nat /\ keys \in [Pid -> Entry] /\ procs \in [Pid -> Process]
  BY DEF ListenerInv, ListenerType
<1> DEFINE n == NewServer(keys)
           t == clock + 1
<1>4. /\ n \in Process /\ n.pc = "start" /\ n.born = clock + 1 /\ n.key = clock + 1
      /\ n.list = keys
  <2>1. t \in Nat /\ n = [Free EXCEPT !.pc = "start", !.born = t, !.key = t, !.list = keys]
    BY <1>3 DEF NewServer
  <2> HIDE DEF t
  <2>2. [Free EXCEPT !.pc = "start", !.born = t, !.key = t, !.list = keys] \in Process
    BY <1>3, <2>1, FreeType, Zenon DEF Process, Server
  <2>3. LET f == [Free EXCEPT !.pc = "start", !.born = t, !.key = t, !.list = keys]
        IN  f.pc = "start" /\ f.born = t /\ f.key = t /\ f.list = keys
    BY FreeType, Zenon DEF Process
  <2> HIDE DEF n
  <2> QED
    BY <2>1, <2>2, <2>3, Zenon DEF t
<1> HIDE DEF n, t
<1>5. /\ procs'[p] = n /\ procs' \in [Pid -> Process]
      /\ \A q \in Pid \ {p} : procs'[q] = procs[q]
  BY <1>1, <1>3, <1>4, Zenon DEF n
<1>6. procs' = [procs EXCEPT ![p] = n]
  BY <1>1 DEF n
<1>7. Identity' /\ ListsTrue'
  BY <1>1, <1>2, <1>4, <1>6, NewStep, Zenon
<1>8. ConfigInv' /\ Running'
  BY <1>2 DEF ListenerInv, ConfigInv, Running
<1>9. ListenerType'
  <2>1. p \in Nat
    BY ListenerAssumption, Zenon
  <2> QED
    BY <1>1, <1>2, <1>3, <1>5, <2>1, SMTT(30) DEF ListenerType
<1>10. ChildKnown'
  BY <1>1, <1>2, <1>4, <1>5, Zenon DEF ChildKnown, Registering
<1>11. ServersListed'
  <2> SUFFICES ASSUME NEW q \in Pid, procs'[q].pc \in Server, ~procs'[q].lost
               PROVE  /\ ~(Registering' /\ child'.pid = q) => Complete(keys[q], q)'
                      /\ \A o \in Pid : procs'[o].pc \in {"start", "first"} /\ procs'[q].born < procs'[o].born =>
                            Complete(procs[o].list[q], q)'
    BY Zenon DEF ServersListed
  <2>1. CASE q = p
    <3>1. Registering' /\ child'.pid = q
      BY <1>1, <1>2, <2>1, ZenonT(40) DEF Registering
    <3>2. ASSUME NEW o \in Pid PROVE ~(procs'[q].born < procs'[o].born)
      <4>1. procs'[o].born <= clock' /\ procs'[o].born \in Nat
        BY <1>5, <1>7, Zenon DEF Identity, Process
      <4> QED
        BY <1>2, <1>3, <1>4, <1>5, <2>1, <4>1, SMTT(30)
    <3> QED
      BY <3>1, <3>2, Zenon
  <2>2. CASE q # p
    <3>1. /\ procs'[q] = procs[q] /\ Complete(keys[q], q)
          /\ \A o \in Pid : procs[o].pc \in {"start", "first"} /\ procs[q].born < procs[o].born =>
                 Complete(procs[o].list[q], q)
      BY <1>2, <1>5, <2>2, Zenon DEF ListenerInv, ServersListed, Registering
    <3>2. Complete(keys[q], q)'
      BY <1>2, <3>1, Zenon DEF Complete
    <3>3. ASSUME NEW o \in Pid, procs'[o].pc \in {"start", "first"}, procs'[q].born < procs'[o].born
          PROVE  Complete(procs[o].list[q], q)'
      <4>1. CASE o = p
        BY <1>4, <1>5, <3>1, <4>1, Zenon DEF Complete
      <4>2. CASE o # p
        BY <1>5, <3>1, <3>3, <4>2, Zenon DEF Complete
      <4> QED
        BY <4>1, <4>2, Zenon
    <3> QED
      BY <3>2, <3>3, Zenon
  <2> QED
    BY <2>1, <2>2, Zenon
<1>12. \A q \in Pid : Encrypted(q)'
  BY <1>2, <1>4, <1>5, Zenon DEF ListenerInv, Encrypted, On
<1> QED
  BY <1>7, <1>8, <1>9, <1>10, <1>11, <1>12, Zenon DEF ListenerInv

LEMMA OtherInv ==
    ASSUME ListenerInv, NEW p \in Pid, OtherProgram(p)
    PROVE  ListenerInv'
<1> DEFINE t == clock + 1
           n == [Free EXCEPT !.pc = "other", !.born = t]
<1>1. /\ UNCHANGED <<pc, config, keys, lpc, child>> /\ clock' = clock + 1
      /\ procs[p].pc = "free" /\ lpc # "off" /\ (Registering => child.pid # p)
  BY Zenon DEF OtherProgram, cvars, Registering
<1>2. clock \in Nat /\ keys \in [Pid -> Entry] /\ procs \in [Pid -> Process]
  BY DEF ListenerInv, ListenerType
<1>3. /\ n \in Process /\ n.pc = "other" /\ n.born = clock + 1
      /\ \A q \in Pid : n.list[q].time = 0
  <2>1. t \in Nat
    BY <1>2
  <2> HIDE DEF t
  <2>2. n \in Process
    BY <2>1, FreeType, Zenon DEF Process
  <2>3. n.pc = "other" /\ n.born = t /\ \A q \in Pid : n.list[q].time = 0
    BY FreeType, Zenon DEF Process
  <2> QED
    BY <2>2, <2>3, Zenon DEF t
<1>4. procs' = [procs EXCEPT ![p] = n]
  BY Zenon DEF OtherProgram
<1> HIDE DEF n, t
<1>5. /\ procs'[p] = n /\ procs' \in [Pid -> Process]
      /\ \A q \in Pid \ {p} : procs'[q] = procs[q]
  BY <1>2, <1>3, <1>4, Zenon
<1>6. Identity' /\ ListsTrue'
  BY <1>1, <1>3, <1>4, NewStep, Zenon
<1>7. ConfigInv' /\ Running' /\ ListenerType'
  BY <1>1, <1>2, <1>5 DEF ListenerInv, ConfigInv, Running, ListenerType
<1>8. ChildKnown'
  BY <1>1, <1>5, Zenon DEF ListenerInv, ChildKnown, Registering
<1>9. ServersListed'
  <2>1. ASSUME NEW q \in Pid, procs'[q].pc \in Server PROVE procs'[q] = procs[q]
    BY <1>3, <1>5, <2>1, Zenon DEF Server
  <2>2. ASSUME NEW o \in Pid, procs'[o].pc \in {"start", "first"} PROVE procs'[o] = procs[o]
    BY <2>1, <2>2, Zenon DEF Server
  <2> QED
    BY <1>1, <2>1, <2>2 DEF ListenerInv, ServersListed, Complete, Registering
<1>10. \A q \in Pid : Encrypted(q)'
  BY <1>1, <1>3, <1>5, Zenon DEF ListenerInv, Encrypted, On
<1> QED
  BY <1>6, <1>7, <1>8, <1>9, <1>10, Zenon DEF ListenerInv

-----------------------------------------------------------------------------
(* Steps of the listener. *)

\* Steps that only take the listener from one place of its loop to another.
LEMMA QuietStep ==
    ASSUME ListenerInv, UNCHANGED <<cvars, child, keys, procs, clock>>,
           lpc' = lpc \/ (~Registering /\ ~Registering' /\ lpc' # "off" /\ pc = "ready")
    PROVE  ListenerInv'
<1>1. UNCHANGED <<pc, config, child, keys, procs, clock>> /\ Registering' = Registering
  BY SMTT(30) DEF cvars, Registering
<1>2. ConfigInv' /\ ListenerType' /\ Identity' /\ Running'
  BY <1>1, ZenonT(30) DEF ListenerInv, ConfigInv, ListenerType, Identity, Running
<1>3. ListsTrue'
  BY <1>1, SMTT(30) DEF ListenerInv, ListsTrue, TrueEntry
<1>4. ChildKnown'
  BY <1>1, ZenonT(30) DEF ListenerInv, ChildKnown, Registering
<1>5. ServersListed' /\ \A q \in Pid : Encrypted(q)'
  BY <1>1 DEF ListenerInv, ServersListed, Complete, Encrypted, On
<1> QED
  BY <1>2, <1>3, <1>4, <1>5, Zenon DEF ListenerInv

\* A step of the registration changes only the new server's entry in the
\* listener's list, and of the new server only whether it is lost.
SameServer(q) ==
    /\ procs'[q].pc = procs[q].pc /\ procs'[q].born = procs[q].born /\ procs'[q].key = procs[q].key
    /\ procs'[q].tls = procs[q].tls /\ procs'[q].list = procs[q].list
    /\ procs'[q].pc \in Server /\ ~procs'[q].lost => ~procs[q].lost
OnlyChild(p) ==
    /\ keys' \in [Pid -> Entry] /\ \A q \in Pid \ {p} : keys'[q] = keys[q]
    /\ procs' \in [Pid -> Process] /\ \A q \in Pid : SameServer(q)
ChildEnds(p) ==
    /\ lpc' = "head" /\ child' = NoPair
    /\ procs'[p].pc \in Server /\ ~procs'[p].lost => Complete(keys[p], p)'

LEMMA RegisterStep ==
    ASSUME ListenerInv, Registering, NEW p \in Pid, p = child.pid, UNCHANGED <<cvars, clock>>,
           OnlyChild(p), TrueEntry(keys[p], p)',
           (lpc' = "settime" /\ child' = child /\ keys'[p].key = child.key) \/ ChildEnds(p)
    PROVE  ListenerInv'
<1>1. /\ UNCHANGED <<pc, config, clock>> /\ lpc # "off" /\ lpc' # "off"
      /\ child' \in [pid : Nat, key : Nat]
  BY DEF cvars, Registering, NoPair, ListenerInv, ListenerType, ChildEnds
<1>2. \A q \in Pid : SameServer(q)
  BY Zenon DEF OnlyChild
<1>3. ConfigInv' /\ ListenerType' /\ Running'
  BY <1>1, <1>2, Zenon DEF ListenerInv, ConfigInv, ListenerType, Running, OnlyChild
<1>4. Identity'
  BY <1>1, <1>2 DEF ListenerInv, Identity, SameServer
<1>5. ListsTrue'
  <2>1. ASSUME NEW q \in Pid, NEW e, TrueEntry(e, q) PROVE e.time <= clock' /\
            (e.time # 0 /\ e.time = procs'[q].born => e.key = e.time /\ procs'[q].key = e.time)
    BY <1>1, <1>2, <2>1, Zenon DEF TrueEntry, SameServer
  <2>2. ASSUME NEW q \in Pid \ {p} PROVE TrueEntry(keys[q], q)'
    <3>1. TrueEntry(keys[q], q) /\ keys'[q] = keys[q]
      BY ZenonT(30) DEF ListenerInv, ListsTrue, OnlyChild
    <3> QED
      BY <2>1, <3>1, SMTT(30) DEF TrueEntry
  <2>3. ASSUME NEW q \in Pid, NEW o \in Pid PROVE TrueEntry(procs[o].list[q], q)'
    <3>1. TrueEntry(procs[o].list[q], q) /\ procs'[o].list = procs[o].list
      BY <1>2, Zenon DEF ListenerInv, ListsTrue, SameServer
    <3> QED
      BY <2>1, <3>1, SMTT(30) DEF TrueEntry
  <2> QED
    BY <2>2, <2>3, Zenon DEF ListsTrue
<1>6. ChildKnown'
  BY <1>2, Zenon DEF ListenerInv, ChildKnown, Registering, ChildEnds, SameServer
<1>7. ServersListed'
  <2> SUFFICES ASSUME NEW q \in Pid, procs'[q].pc \in Server, ~procs'[q].lost
               PROVE  /\ ~(Registering' /\ child'.pid = q) => Complete(keys[q], q)'
                      /\ \A o \in Pid : procs'[o].pc \in {"start", "first"} /\ procs'[q].born < procs'[o].born =>
                            Complete(procs[o].list[q], q)'
    BY Zenon DEF ServersListed
  <2>1. procs[q].pc \in Server /\ ~procs[q].lost /\ procs'[q].born = procs[q].born
    BY <1>2, Zenon DEF SameServer
  <2>2. ASSUME NEW o \in Pid, procs'[o].pc \in {"start", "first"}, procs'[q].born < procs'[o].born
        PROVE  Complete(procs[o].list[q], q)'
    <3>1. procs[o].pc = procs'[o].pc /\ procs[o].born = procs'[o].born /\ procs'[o].list = procs[o].list
      BY <1>2, Zenon DEF SameServer
    <3>2. Complete(procs[o].list[q], q)
      BY <2>1, <2>2, <3>1, Zenon DEF ListenerInv, ServersListed
    <3> QED
      BY <2>1, <3>1, <3>2, Zenon DEF Complete
  <2>3. CASE q = p
    BY <2>2, <2>3, Zenon DEF Registering, ChildEnds
  <2>4. CASE q # p
    <3>1. Complete(keys[q], q) /\ keys'[q] = keys[q]
      BY <2>1, <2>4, Zenon DEF ListenerInv, ServersListed, OnlyChild
    <3> QED
      BY <2>1, <2>2, <3>1, Zenon DEF Complete
  <2> QED
    BY <2>3, <2>4, Zenon
<1>8. \A q \in Pid : Encrypted(q)'
  BY <1>1, <1>2 DEF ListenerInv, Encrypted, On, SameServer
<1> QED
  BY <1>3, <1>4, <1>5, <1>6, <1>7, <1>8, ZenonT(40) DEF ListenerInv

LEMMA RegisterInv ==
    ASSUME ListenerInv, RegisterKey \/ RegisterTime \/ RegisterFails
    PROVE  ListenerInv'
<1>1. /\ Registering /\ child.pid \in Pid /\ UNCHANGED <<cvars, clock>>
      /\ keys \in [Pid -> Entry] /\ procs \in [Pid -> Process]
      /\ child \in [pid : Nat, key : Nat] /\ clock \in Nat
  BY Zenon DEF RegisterKey, RegisterTime, RegisterFails, Registering, ListenerInv, ChildKnown, ListenerType
<1>2. PICK p \in Pid : p = child.pid
  BY <1>1, Zenon
<1> DEFINE e == keys[p]
           b == procs[p].born
<1>3. e \in Entry /\ procs[p] \in Process /\ b \in Nat /\ b <= clock
  BY <1>1, Zenon DEF Process, ListenerInv, Identity
<1>4. /\ b # 0 => b = child.key /\ procs[p].key = child.key
      /\ procs[p].pc \in Server => b # 0
      /\ TrueEntry(e, p)
  BY <1>1, <1>2, Zenon DEF ListenerInv, ChildKnown, Identity, ListsTrue
<1>5. CASE RegisterKey
  <2>1. keys' = [keys EXCEPT ![p].key = child.key] /\ lpc' = "settime" /\ UNCHANGED <<child, procs>>
    BY <1>2, <1>5, Zenon DEF RegisterKey
  <2>2. keys'[p] = [e EXCEPT !.key = child.key] /\ \A q \in Pid \ {p} : keys'[q] = keys[q]
    BY <1>1, <2>1, Zenon
  <2>3. keys'[p] \in Entry /\ keys'[p].key = child.key /\ keys'[p].time = e.time
    BY <1>1, <1>3, <2>2, Zenon DEF Entry
  <2>4. keys' \in [Pid -> Entry]
    BY <1>1, <2>1, <2>2, <2>3, Zenon
  <2>5. TrueEntry(keys[p], p)'
    BY <1>1, <1>4, <2>1, <2>3, Zenon DEF TrueEntry
  <2>6. OnlyChild(p)
    BY <1>1, <2>1, <2>2, <2>4, Zenon DEF OnlyChild, SameServer
  <2> QED
    BY <1>1, <1>2, <2>1, <2>3, <2>5, <2>6, RegisterStep, Zenon
<1>6. CASE RegisterTime
  <2>1. /\ keys' = IF b = 0 THEN keys ELSE [keys EXCEPT ![p].time = b]
        /\ lpc' = "head" /\ child' = NoPair /\ UNCHANGED procs /\ lpc = "settime"
    BY <1>2, <1>6, Zenon DEF RegisterTime, StartTime
  <2>2. /\ keys' \in [Pid -> Entry] /\ \A q \in Pid \ {p} : keys'[q] = keys[q]
        /\ TrueEntry(keys[p], p)'
        /\ procs'[p].pc \in Server => Complete(keys[p], p)'
    <3>1. CASE b = 0
      BY <1>1, <1>4, <2>1, <3>1, Zenon DEF TrueEntry
    <3>2. CASE b # 0
      <4>1. keys'[p] = [e EXCEPT !.time = b] /\ \A q \in Pid \ {p} : keys'[q] = keys[q]
        BY <1>1, <2>1, <3>2, Zenon
      <4>2. keys'[p] \in Entry /\ keys'[p].time = b /\ keys'[p].key = e.key
        BY <1>3, <4>1, Zenon DEF Entry
      <4>3. e.key = child.key
        BY <1>1, <1>2, <2>1, Zenon DEF ListenerInv, ChildKnown
      <4>4. keys' \in [Pid -> Entry]
        BY <1>1, <2>1, <3>2, <4>1, <4>2, Zenon
      <4> QED
        BY <1>1, <1>3, <1>4, <2>1, <3>2, <4>1, <4>2, <4>3, <4>4, ZenonT(30) DEF TrueEntry, Complete
    <3> QED
      BY <3>1, <3>2, Zenon
  <2>3. OnlyChild(p) /\ ChildEnds(p)
    BY <1>1, <2>1, <2>2, Zenon DEF OnlyChild, SameServer, ChildEnds
  <2> QED
    BY <1>1, <1>2, <2>2, <2>3, RegisterStep, Zenon
<1>7. CASE RegisterFails
  <2> DEFINE l == procs[p].born # 0
  <2>1. /\ procs' = [procs EXCEPT ![p].lost = l] /\ l \in BOOLEAN
        /\ lpc' = "head" /\ child' = NoPair /\ UNCHANGED keys
    BY <1>2, <1>7, Zenon DEF RegisterFails
  <2>2. procs[p].pc \in Server => l
    BY <1>4, Zenon
  <2> HIDE DEF l
  <2>3. procs'[p] = [procs[p] EXCEPT !.lost = l] /\ \A q \in Pid \ {p} : procs'[q] = procs[q]
    BY <1>1, <2>1, Zenon
  <2>4. /\ procs'[p] \in Process /\ procs'[p].lost = l
        /\ procs'[p].pc = procs[p].pc /\ procs'[p].born = procs[p].born /\ procs'[p].key = procs[p].key
        /\ procs'[p].tls = procs[p].tls /\ procs'[p].list = procs[p].list
    BY <1>3, <2>1, <2>3 DEF Process
  <2>5. procs' \in [Pid -> Process]
    BY <1>1, <2>1, <2>3, <2>4, Zenon
  <2>6. TrueEntry(keys[p], p)'
    BY <1>1, <1>4, <2>1, <2>4, Zenon DEF TrueEntry
  <2>7. ~(procs'[p].pc \in Server /\ ~procs'[p].lost)
    BY <2>2, <2>4, Zenon
  <2>8. ASSUME NEW q \in Pid PROVE SameServer(q)
    <3>1. CASE q = p
      BY <2>4, <2>7, <3>1, Zenon DEF SameServer
    <3>2. CASE q # p
      BY <2>3, <3>2, Zenon DEF SameServer
    <3> QED
      BY <3>1, <3>2, Zenon
  <2>9. OnlyChild(p) /\ ChildEnds(p)
    BY <1>1, <2>1, <2>5, <2>7, <2>8, Zenon DEF OnlyChild, ChildEnds
  <2> QED
    BY <1>1, <1>2, <2>6, <2>9, RegisterStep, Zenon
<1> QED
  BY <1>5, <1>6, <1>7, Zenon

\* While the configuration is read there are no servers.
LEMMA ConfigNextInv ==
    ASSUME ListenerInv, ConfigNext, UNCHANGED lvars
    PROVE  ListenerInv'
<1>1. UNCHANGED <<lpc, child, keys, procs, clock>>
  BY Zenon DEF lvars
<1>2. pc # "ready"
  BY Zenon DEF ConfigNext, ParseStartupFlags, MergeConfigFile, FinishConfig
<1>3. lpc = "off" /\ \A q \in Pid : procs[q].pc = "free"
  BY <1>2, Zenon DEF ListenerInv, Running
<1>4. ConfigInv'
  BY ConfigStep, Zenon DEF ListenerInv
<1>5. ListenerType' /\ Running' /\ Identity' /\ ChildKnown'
  BY <1>1, <1>3, Zenon DEF ListenerInv, ListenerType, Running, Identity, ChildKnown, Registering
<1>6. ListsTrue'
  BY <1>1, Zenon DEF ListenerInv, ListsTrue, TrueEntry
<1>7. ServersListed' /\ \A q \in Pid : Encrypted(q)'
  BY <1>1, <1>3, Zenon DEF ServersListed, Encrypted, Server
<1> QED
  BY <1>4, <1>5, <1>6, <1>7, Zenon DEF ListenerInv

LEMMA StepInv == ListenerInv /\ [Next]_vars => ListenerInv'
<1> SUFFICES ASSUME ListenerInv, [Next]_vars PROVE ListenerInv'
  BY Zenon
<1>1. CASE ConfigNext /\ UNCHANGED lvars
  BY <1>1, ConfigNextInv, Zenon
<1>2. CASE StartListening \/ LoopHead \/ Join \/ AcceptFails \/ HandleSigint
  <2>1. UNCHANGED <<cvars, child, keys, procs, clock>>
    BY <1>2, Zenon DEF StartListening, LoopHead, Join, AcceptFails, HandleSigint
  <2>2. lpc' = lpc \/ (~Registering /\ ~Registering' /\ lpc' # "off" /\ pc = "ready")
    BY <1>2, Zenon DEF StartListening, LoopHead, Join, AcceptFails, HandleSigint, Registering, ListenerInv, Running
  <2> QED
    BY <2>1, <2>2, QuietStep, Zenon
<1>3. CASE RegisterKey \/ RegisterTime \/ RegisterFails
  BY <1>3, RegisterInv, Zenon
<1>4. CASE Accept
  BY <1>4, AcceptInv, Zenon
<1>5. CASE HelperWait
  <2>1. CASE UNCHANGED procs
    BY <1>5, <2>1, QuietStep, Zenon DEF HelperWait
  <2>2. CASE \E p \in Pid : procs[p].pc = "zombie" /\ procs' = [procs EXCEPT ![p] = Free]
    BY <1>5, <2>2, GoneStep, Zenon DEF HelperWait
  <2> QED
    BY <1>5, <2>1, <2>2, Zenon DEF HelperWait
<1>6. ASSUME NEW p \in Pid, Sends(p) \/ ServerEnds(p) PROVE ListenerInv'
  BY <1>6, SendsInv, Zenon
<1>7. ASSUME NEW p \in Pid, OtherProgram(p) PROVE ListenerInv'
  BY <1>7, OtherInv, Zenon
<1>8. ASSUME NEW p \in Pid, OtherProgramEnds(p) PROVE ListenerInv'
  BY <1>8, GoneStep, Zenon DEF OtherProgramEnds, Only
<1>9. CASE UNCHANGED vars
  BY <1>9, QuietStep, Zenon DEF vars, lvars
<1> QED
  BY <1>1, <1>2, <1>3, <1>4, <1>5, <1>6, <1>7, <1>8, <1>9, Zenon DEF Next, Listen

-----------------------------------------------------------------------------
(* The theorems *)

\* With rocto.ssl_required nothing that a client sends after the startup message,
\* and no cancel request that is acted on, comes over a connection that is not
\* encrypted, for all files and flags: octo_init refuses ssl_required without ssl_on.
THEOREM TlsHolds == Spec => []TlsWhenRequired
<1>1. ListenerInv => TlsWhenRequired
  BY Zenon DEF ListenerInv, Encrypted, TlsWhenRequired, Servers
<1> QED
  BY ListenerInitInv, StepInv, <1>1, PTL DEF Spec

\* A cancel request is confirmed only for the process whose key it has, and is
\* confirmed for every running session that is older and whose registration did not
\* fail (handle_cancel_request), for any number of processes and however often
\* their pids are used again.
THEOREM CancelOwner == Spec => []CancelReachesOwner
<1>1. ASSUME ListenerInv PROVE CancelConfirmsOwner
  <2> SUFFICES ASSUME NEW p \in Asking, NEW q \in Pid, NEW g \in given, Confirmed(p, q, g.key)
               PROVE  procs[q].key = g.key
    BY Zenon DEF CancelConfirmsOwner
  <2>1. TrueEntry(procs[p].list[q], q)
    BY <1>1, Zenon DEF ListenerInv, ListsTrue, Asking, Servers
  <2> QED
    BY <2>1, Zenon DEF Confirmed, StartTime, TrueEntry
<1>2. ASSUME ListenerInv PROVE CancelFindsSession
  <2> SUFFICES ASSUME NEW p \in Asking, NEW q \in Servers, procs[q].pc = "loop", ~procs[q].lost,
                      procs[q].born < procs[p].born
               PROVE  Confirmed(p, q, procs[q].key)
    BY Zenon DEF CancelFindsSession
  <2>1. Complete(procs[p].list[q], q)
    BY <1>2, Zenon DEF ListenerInv, ServersListed, Asking, Servers
  <2>2. procs[q].born # 0 /\ procs[q].key = procs[q].born
    BY <1>2, Zenon DEF ListenerInv, Identity, Servers
  <2> QED
    BY <2>1, <2>2, Zenon DEF Complete, Confirmed, StartTime
<1>3. ListenerInv => CancelReachesOwner
  BY <1>1, <1>2 DEF CancelReachesOwner
<1> QED
  BY ListenerInitInv, StepInv, <1>3, PTL DEF Spec

-----------------------------------------------------------------------------
(* Induction over the flags and over the paths of $zroutines. *)

\* Every set of natural numbers with a member has a least one.
LEMMA NatMin ==
    ASSUME NEW T, T \subseteq Nat, T # {}
    PROVE  \E m \in T : \A n \in T : m <= n
  <1> DEFINE R == OpToRel(<, Nat)
  <1>1. IsWellFoundedOn(R, Nat)
    BY NatLessThanWellFounded, Zenon
  <1>2. \A x, y \in Nat : x < y => <<x, y>> \in R
    BY SMT DEF OpToRel
  <1> HIDE DEF R
  <1>3. PICK m \in T : \A n \in T : ~(<<n, m>> \in R)
    BY <1>1, WFMin, Zenon
  <1>4. ASSUME NEW n \in T
        PROVE  m <= n
    <2>1. m \in Nat /\ n \in Nat /\ ~(<<n, m>> \in R)
      BY <1>3, Zenon
    <2>2. ~(n < m)
      BY <1>2, <2>1, Zenon
    <2> QED
      BY <2>1, <2>2, SMT
  <1> QED
    BY <1>4, Zenon

\* Induction, for a set in place of a predicate.
LEMMA SetInduction ==
    ASSUME NEW T, 0 \in T, \A n \in Nat : n \in T => n + 1 \in T
    PROVE  \A n \in Nat : n \in T
  <1> SUFFICES ASSUME \E n \in Nat : n \notin T
               PROVE  FALSE
    BY Zenon
  <1> DEFINE F == {n \in Nat : n \notin T}
  <1>1. F \subseteq Nat /\ F # {}
    BY Zenon
  <1> HIDE DEF F
  <1>2. PICK m \in F : \A n \in F : m <= n
    BY <1>1, NatMin, Zenon
  <1>3. m \in Nat /\ m \notin T
    BY Zenon DEF F
  <1>4. m # 0
    BY <1>3, Zenon
  <1>5. m - 1 \in Nat /\ (m - 1) + 1 = m /\ ~(m <= m - 1)
    BY <1>3, <1>4, SMT
  <1>6. m - 1 \in T
    BY <1>2, <1>5, Zenon DEF F
  <1> QED
    BY <1>3, <1>5, <1>6, Zenon

\* What a recursive function on 0 .. n computes, the step given as a function.
Computes(f, a, step, n) == f[0] = a /\ \A i \in 1 .. n : f[i] = step[<<i, f[i - 1]>>]
LEMMA Recursion ==
    ASSUME NEW S, NEW a \in S, NEW step \in [Nat \X S -> S], NEW n \in Nat
    PROVE  \E f \in [0 .. n -> S] : Computes(f, a, step, n)
  <1> DEFINE T == {k \in Nat : \E f \in [0 .. k -> S] : Computes(f, a, step, k)}
  <1>1. 0 \in T
    <2> DEFINE f == [i \in 0 .. 0 |-> a]
    <2>1. 0 \in 0 .. 0 /\ 1 .. 0 = {} /\ 0 \in Nat
      BY SMT
    <2>2. f \in [0 .. 0 -> S] /\ Computes(f, a, step, 0)
      BY <2>1, Zenon DEF Computes
    <2> QED
      BY <2>1, <2>2, Zenon
  <1>2. ASSUME NEW k \in Nat, k \in T
        PROVE  k + 1 \in T
    <2>1. PICK f \in [0 .. k -> S] : Computes(f, a, step, k)
      BY <1>2, Zenon
    <2> DEFINE v == step[<<k + 1, f[k]>>]
               g == [i \in 0 .. (k + 1) |-> IF i = k + 1 THEN v ELSE f[i]]
    <2>2. k + 1 \in Nat /\ k \in 0 .. k /\ 0 \in 0 .. (k + 1) /\ 0 # k + 1 /\ k + 1 - 1 = k
      BY SMT
    <2>3. v \in S
      BY <2>2, Zenon
    <2>4. \A i \in 0 .. (k + 1) : i # k + 1 => i \in 0 .. k
      BY SMT
    <2>5. \A i \in 1 .. (k + 1) : /\ i \in 0 .. (k + 1) /\ i - 1 \in 0 .. (k + 1) /\ i - 1 # k + 1
                                  /\ (i # k + 1 => i \in 1 .. k)
      BY SMT
    <2> HIDE DEF v
    <2>6. g \in [0 .. (k + 1) -> S]
      BY <2>3, <2>4, Zenon
    <2>7. Computes(g, a, step, k + 1)
      <3>1. g[0] = a
        BY <2>1, <2>2, Zenon DEF Computes
      <3>2. ASSUME NEW i \in 1 .. (k + 1)
            PROVE  g[i] = step[<<i, g[i - 1]>>]
        <4>1. g[i - 1] = f[i - 1]
          BY <2>5, Zenon
        <4>2. CASE i = k + 1
          <5>1. i - 1 = k
            BY <4>2, SMT
          <5>2. g[i] = v
            BY <2>5, <4>2, Zenon
          <5> QED
            BY <4>1, <4>2, <5>1, <5>2, Zenon DEF v
        <4>3. CASE i # k + 1
          BY <2>1, <2>5, <4>1, <4>3, Zenon DEF Computes
        <4> QED
          BY <4>2, <4>3, Zenon
      <3> QED
        BY <3>1, <3>2, Zenon DEF Computes
    <2> QED
      BY <2>2, <2>6, <2>7, Zenon
  <1> HIDE DEF T
  <1>3. n \in T
    BY <1>1, <1>2, SetInduction, Zenon
  <1> QED
    BY <1>3, Zenon DEF T

\* What every step of a function on 0 .. n keeps holds of all its values.
LEMMA Follows ==
    ASSUME NEW n \in Nat, NEW St, NEW t, t[0] \in St[0],
           \A i \in 1 .. n : t[i - 1] \in St[i - 1] => t[i] \in St[i]
    PROVE  t[n] \in St[n]
  <1> DEFINE T == {k \in Nat : k \in 0 .. n => t[k] \in St[k]}
  <1>1. 0 \in T
    BY Zenon
  <1>2. ASSUME NEW k \in Nat, k \in T PROVE k + 1 \in T
    <2> DEFINE j == k + 1
    <2>1. j \in Nat /\ j - 1 = k /\ (j \in 0 .. n => j \in 1 .. n /\ k \in 0 .. n)
      BY SMT
    <2> HIDE DEF j
    <2>2. j \in T
      BY <1>2, <2>1, Zenon
    <2> QED
      BY <2>2, Zenon DEF j
  <1> HIDE DEF T
  <1>3. n \in T
    BY <1>1, <1>2, SetInduction, Zenon
  <1>4. n \in 0 .. n
    BY SMT
  <1> QED
    BY <1>3, <1>4, Zenon DEF T

-----------------------------------------------------------------------------
(* The flags: what parse_startup_flags has gathered after the first i of them. *)

Emulations == {"POSTGRES", "MYSQL"}
Ports == {"1337", "1338", "1339"}
FlagState == [verbosity : 1 .. 5, prev : 1 .. 4, emulate : {"unset"} \cup Emulations,
              port : {"unset"} \cup Ports, file : BOOLEAN, schema : BOOLEAN, write : BOOLEAN, bad : BOOLEAN]
FlagStep(t, f, rocto) == IF t.bad THEN t ELSE Flag(t, f, rocto)

\* The last of the first i flags that is one of opts.
LastIn(flags, i, opts) ==
    {k \in 1 .. i : flags[k].opt \in opts /\ \A j \in (k + 1) .. i : flags[j].opt \notin opts}
\* v is what that flag says, none if there is no such flag.
SaidBy(v, none, V, last, arg) ==
    IF last = {} THEN v = none ELSE v \in V /\ \A k \in last : v = arg[k]

\* How low the n-th -v goes.
Vs(flags, i) == {j \in 1 .. i : flags[j].opt = "v"}
Lower(n) == IF n < 4 THEN 4 - n ELSE 1
LevelOf(flags, k) == IF flags[k].opt = "verbose" THEN 4 - flags[k].arg ELSE Lower(Cardinality(Vs(flags, k)))

Heard(t, flags, rocto, i) ==
    /\ t.prev = Lower(Cardinality(Vs(flags, i)))
    /\ SaidBy(t.emulate, "unset", Emulations, LastIn(flags, i, {"e"}), [k \in 1 .. i |-> flags[k].arg])
    /\ IF rocto THEN SaidBy(t.port, "unset", Ports, LastIn(flags, i, {"p"}), [k \in 1 .. i |-> flags[k].arg])
       ELSE t.port = "unset"
    /\ SaidBy(t.verbosity, 5, 1 .. 4, LastIn(flags, i, {"v", "verbose"}), [k \in 1 .. i |-> LevelOf(flags, k)])

LEMMA ValidFlags == Valid["emulate"] = Emulations /\ Valid["rocto.port"] = Ports
  <1>1. "emulate" \in Setting /\ "rocto.port" \in Setting
    BY Zenon DEF Setting, Strict, Lenient, Kept
  <1>2. Valid["emulate"] = Emulations
    BY <1>1, Zenon DEF Valid, Emulations
  <1>3. Valid["rocto.port"] = Ports
    BY <1>1, Zenon DEF Valid, Ports
  <1> QED
    BY <1>2, <1>3, Zenon

\* One more flag: it is the last one of its kind, or the last one stays.
LEMMA LastStep ==
    ASSUME NEW flags, NEW i \in Nat, i # 0, NEW opts
    PROVE  LastIn(flags, i, opts) = IF flags[i].opt \in opts THEN {i} ELSE LastIn(flags, i - 1, opts)
  <1> DEFINE in(k) == flags[k].opt \in opts
  <1>1. \A k \in 1 .. i : k = i \/ k \in 1 .. (i - 1)
    BY SMT
  <1>2. \A k \in 1 .. (i - 1) : k \in 1 .. i /\ k # i /\ i \in (k + 1) .. i
    BY SMT
  <1>3. \A k \in 1 .. (i - 1) : \A j \in (k + 1) .. i : j = i \/ j \in (k + 1) .. (i - 1)
    BY SMT
  <1>4. \A k \in 1 .. (i - 1) : \A j \in (k + 1) .. (i - 1) : j \in (k + 1) .. i
    BY SMT
  <1>5. i \in 1 .. i /\ (i + 1) .. i = {}
    BY SMT
  <1>6. CASE in(i)
    <2>1. \A k \in LastIn(flags, i, opts) : k = i
      BY <1>1, <1>2, <1>6, Zenon DEF LastIn
    <2>2. i \in LastIn(flags, i, opts)
      BY <1>5, <1>6, Zenon DEF LastIn
    <2> QED
      BY <1>6, <2>1, <2>2, Zenon
  <1>7. CASE ~in(i)
    <2>1. \A k \in LastIn(flags, i, opts) : k \in LastIn(flags, i - 1, opts)
      BY <1>1, <1>4, <1>7, Zenon DEF LastIn
    <2>2. \A k \in LastIn(flags, i - 1, opts) : k \in LastIn(flags, i, opts)
      BY <1>2, <1>3, <1>7, Zenon DEF LastIn
    <2> QED
      BY <1>7, <2>1, <2>2, Zenon
  <1> QED
    BY <1>6, <1>7, Zenon

LEMMA LastRange ==
    ASSUME NEW flags, NEW i, NEW opts
    PROVE  \A k \in LastIn(flags, i, opts) : k \in 1 .. i
  BY Zenon DEF LastIn

\* The i-th flag says w, or leaves v.
Speaks(flag, opts, V, x, v, w) == IF flag.opt \in opts THEN w \in V /\ w = x ELSE w = v
SameBefore(i, arg, arg1) == \A k \in 1 .. (i - 1) : arg[k] = arg1[k]
LEMMA SaidStep ==
    ASSUME NEW flags, NEW i \in Nat, i # 0, NEW opts, NEW none, NEW V, NEW arg, NEW arg1, NEW v, NEW w,
           SameBefore(i, arg, arg1),
           SaidBy(v, none, V, LastIn(flags, i - 1, opts), arg1),
           Speaks(flags[i], opts, V, arg[i], v, w)
    PROVE  SaidBy(w, none, V, LastIn(flags, i, opts), arg)
  <1> DEFINE last == LastIn(flags, i, opts)
             prev == LastIn(flags, i - 1, opts)
  <1>1. CASE flags[i].opt \in opts
    <2>1. last = {i}
      BY <1>1, LastStep, Zenon
    <2> QED
      BY <1>1, <2>1, Zenon DEF SaidBy, Speaks
  <1>2. CASE ~(flags[i].opt \in opts)
    <2>1. w = v
      BY <1>2, Zenon DEF Speaks
    <2>0. last = prev
      <3>1. last = IF flags[i].opt \in opts THEN {i} ELSE prev
        BY LastStep, SMT
      <3> HIDE DEF last, prev
      <3> QED
        BY <1>2, <3>1, Zenon
    <2>2. \A k \in prev : arg[k] = arg1[k]
      BY LastRange, Zenon DEF SameBefore
    <2> HIDE DEF last, prev
    <2>3. SaidBy(v, none, V, prev, arg1)
      BY Zenon DEF prev
    <2>4. SaidBy(w, none, V, last, arg)
      BY <2>0, <2>1, <2>2, <2>3, Zenon DEF SaidBy
    <2> QED
      BY <2>4, Zenon DEF last
  <1> QED
    BY <1>1, <1>2, Zenon

\* One more -v goes one level lower.
LEMMA CountStep ==
    ASSUME NEW flags, NEW i \in Nat, i # 0
    PROVE  /\ Cardinality(Vs(flags, i)) \in Nat /\ Cardinality(Vs(flags, i - 1)) \in Nat
           /\ Cardinality(Vs(flags, i)) = Cardinality(Vs(flags, i - 1)) + (IF flags[i].opt = "v" THEN 1 ELSE 0)
  <1> DEFINE W == Vs(flags, i - 1)
  <1>1. i - 1 \in Nat /\ \A k \in 1 .. i : k = i \/ k \in 1 .. (i - 1)
    BY SMT
  <1>2. i \in 1 .. i /\ i \notin 1 .. (i - 1) /\ \A k \in 1 .. (i - 1) : k \in 1 .. i /\ k # i
    BY SMT
  <1>3. IsFiniteSet(1 .. (i - 1))
    BY <1>1, FS_Interval, 1 \in Int, SMT
  <1>4. W \subseteq 1 .. (i - 1) /\ i \notin W
    BY <1>2, Zenon DEF Vs
  <1>5. IsFiniteSet(W)
    BY <1>3, <1>4, FS_Subset, Zenon
  <1>6. Vs(flags, i) = IF flags[i].opt = "v" THEN W \cup {i} ELSE W
    BY <1>1, <1>2, Zenon DEF Vs
  <1> HIDE DEF W
  <1>7. Cardinality(W) \in Nat /\ Cardinality(W \cup {i}) = Cardinality(W) + 1
    BY <1>4, <1>5, FS_AddElement, FS_CardinalityType, Zenon
  <1>8. Cardinality(W) \in Nat /\ Cardinality(Vs(flags, i)) = Cardinality(W) + (IF flags[i].opt = "v" THEN 1 ELSE 0)
    <2>1. CASE flags[i].opt = "v"
      BY <1>6, <1>7, <2>1, Zenon
    <2>2. CASE flags[i].opt # "v"
      <3>1. Vs(flags, i) = W
        BY <1>6, <2>2, Zenon
      <3> QED
        BY <1>7, <2>2, <3>1, SMTT(30)
    <2> QED
      BY <2>1, <2>2, Zenon
  <1> QED
    BY <1>8, SMT DEF W

\* What one flag does, unless it is refused.
Below(n) == IF n > 1 THEN n - 1 ELSE 1
FlagDoes(t, w, f, rocto) ==
    /\ ~t.bad
    /\ IF f.opt = "e" THEN w.emulate \in Emulations /\ w.emulate = f.arg ELSE w.emulate = t.emulate
    /\ IF f.opt = "p" /\ rocto THEN w.port \in Ports /\ w.port = f.arg ELSE w.port = t.port
    /\ IF f.opt = "v" THEN w.prev = Below(t.prev) /\ w.verbosity = Below(t.prev) ELSE w.prev = t.prev
    /\ f.opt = "verbose" => f.arg \in 0 .. 3 /\ w.verbosity = 4 - f.arg
    /\ f.opt \notin {"v", "verbose"} => w.verbosity = t.verbosity

LEMMA FlagResult ==
    ASSUME NEW t \in FlagState, NEW f, NEW rocto \in BOOLEAN
    PROVE  /\ FlagStep(t, f, rocto) \in FlagState
           /\ FlagStep(t, f, rocto).bad \/ FlagDoes(t, FlagStep(t, f, rocto), f, rocto)
  <1> DEFINE w == FlagStep(t, f, rocto)
             bad == [t EXCEPT !.bad = TRUE]
             G == w \in FlagState /\ (w.bad \/ FlagDoes(t, w, f, rocto))
  <1>1. bad \in FlagState /\ bad.bad
    BY Zenon DEF FlagState
  <1>2. CASE t.bad
    BY <1>2, Zenon DEF FlagStep
  <1> SUFFICES ASSUME ~t.bad PROVE G
    BY <1>2, Zenon
  <1>3. w = Flag(t, f, rocto)
    BY Zenon DEF FlagStep
  <1>4. ASSUME w = bad PROVE G
    BY <1>1, <1>4, Zenon
  <1>5. CASE f.opt = "v"
    <2> DEFINE l == Below(t.prev)
    <2>1. l \in 1 .. 4 /\ l \in 1 .. 5
      BY SMT DEF FlagState, Below
    <2>2. w = [t EXCEPT !.verbosity = l, !.prev = l]
      BY <1>3, <1>5, Zenon DEF Flag, Below
    <2> HIDE DEF l, w
    <2> QED
      <3>1. w \in FlagState
        BY <2>1, <2>2, Zenon DEF FlagState
      <3>2. w.emulate = t.emulate /\ w.port = t.port /\ w.prev = l /\ w.verbosity = l
        BY <2>2, Zenon DEF FlagState
      <3> QED
        BY <1>5, <3>1, <3>2, Zenon DEF FlagDoes, l
  <1>6. CASE f.opt = "verbose"
    <2>1. CASE f.arg \in 0 .. 3
      <3>1. w = [t EXCEPT !.verbosity = 4 - f.arg]
        BY <1>3, <1>6, <2>1, Zenon DEF Flag
      <3> HIDE DEF w
      <3> QED
        BY <1>6, <2>1, <3>1, SMTT(30) DEF FlagState, FlagDoes
    <2>2. CASE f.arg \notin 0 .. 3
      BY <1>3, <1>4, <1>6, <2>2, Zenon DEF Flag
    <2> QED
      BY <2>1, <2>2, Zenon
  <1>7. CASE f.opt = "c"
    <2>1. w = [t EXCEPT !.file = TRUE]
      BY <1>3, <1>7, Zenon DEF Flag
    <2> HIDE DEF w
    <2> QED
      <3>1. w \in FlagState
        BY <2>1, Zenon DEF FlagState
      <3>2. w.emulate = t.emulate /\ w.port = t.port /\ w.prev = t.prev /\ w.verbosity = t.verbosity
        BY <2>1, Zenon DEF FlagState
      <3> QED
        BY <1>7, <3>1, <3>2, Zenon DEF FlagDoes
  <1>8. CASE f.opt = "e"
    <2>1. CASE f.arg \in Emulations
      <3>1. w = [t EXCEPT !.emulate = f.arg]
        BY <1>3, <1>8, <2>1, ValidFlags, Zenon DEF Flag
      <3> HIDE DEF w
      <3> QED
        BY <1>8, <2>1, <3>1, SMTT(30) DEF FlagState, FlagDoes
    <2>2. CASE f.arg \notin Emulations
      BY <1>3, <1>4, <1>8, <2>2, ValidFlags, Zenon DEF Flag
    <2> QED
      BY <2>1, <2>2, Zenon
  <1>9. CASE f.opt = "p" /\ rocto
    <2>1. CASE f.arg \in Ports
      <3>1. w = [t EXCEPT !.port = f.arg]
        BY <1>3, <1>9, <2>1, ValidFlags, Zenon DEF Flag
      <3> HIDE DEF w
      <3> QED
        BY <1>9, <2>1, <3>1, SMT DEF FlagState, FlagDoes
    <2>2. CASE f.arg \notin Ports
      BY <1>3, <1>4, <1>9, <2>2, ValidFlags, Zenon DEF Flag
    <2> QED
      BY <2>1, <2>2, Zenon
  <1>10. CASE f.opt = "a" /\ rocto
    <2>1. w = [t EXCEPT !.schema = TRUE]
      BY <1>3, <1>10, Zenon DEF Flag
    <2> HIDE DEF w
    <2> QED
      <3>1. w \in FlagState
        BY <2>1, Zenon DEF FlagState
      <3>2. w.emulate = t.emulate /\ w.port = t.port /\ w.prev = t.prev /\ w.verbosity = t.verbosity
        BY <2>1, Zenon DEF FlagState
      <3> QED
        BY <1>10, <3>1, <3>2, Zenon DEF FlagDoes
  <1>11. CASE f.opt = "w" /\ rocto
    <2>1. w = [t EXCEPT !.write = TRUE]
      BY <1>3, <1>11, Zenon DEF Flag
    <2> HIDE DEF w
    <2> QED
      <3>1. w \in FlagState
        BY <2>1, Zenon DEF FlagState
      <3>2. w.emulate = t.emulate /\ w.port = t.port /\ w.prev = t.prev /\ w.verbosity = t.verbosity
        BY <2>1, Zenon DEF FlagState
      <3> QED
        BY <1>11, <3>1, <3>2, Zenon DEF FlagDoes
  <1>12. CASE f.opt \in {"d", "p"} /\ ~rocto
    <2>1. w = t
      BY <1>3, <1>12, Zenon DEF Flag
    <2> HIDE DEF w
    <2> QED
      BY <1>12, <2>1, SMT DEF FlagState, FlagDoes
  <1>13. CASE /\ f.opt \notin {"v", "verbose", "c", "e"} /\ ~(f.opt \in {"p", "a", "w"} /\ rocto)
              /\ ~(f.opt \in {"d", "p"} /\ ~rocto)
    <2>1. w = bad
      BY <1>3, <1>13, Zenon DEF Flag
    <2> QED
      BY <1>4, <2>1, Zenon
  <1> QED
    BY <1>5, <1>6, <1>7, <1>8, <1>9, <1>10, <1>11, <1>12, <1>13, Zenon

LEMMA HeardStep ==
    ASSUME NEW flags, NEW rocto \in BOOLEAN, NEW i \in Nat, i # 0, NEW t \in FlagState, NEW w \in FlagState,
           FlagDoes(t, w, flags[i], rocto), Heard(t, flags, rocto, i - 1)
    PROVE  Heard(w, flags, rocto, i)
  <1> DEFINE n == Cardinality(Vs(flags, i - 1))
             m == Cardinality(Vs(flags, i))
             args == [k \in 1 .. i |-> flags[k].arg]
             args1 == [k \in 1 .. (i - 1) |-> flags[k].arg]
             levels == [k \in 1 .. i |-> LevelOf(flags, k)]
             levels1 == [k \in 1 .. (i - 1) |-> LevelOf(flags, k)]
  <1>1. n \in Nat /\ m \in Nat /\ m = n + (IF flags[i].opt = "v" THEN 1 ELSE 0)
    BY CountStep, Zenon
  <1>2. i \in 1 .. i /\ \A k \in 1 .. (i - 1) : k \in 1 .. i
    BY SMT
  <1>3. /\ args[i] = flags[i].arg /\ levels[i] = LevelOf(flags, i)
        /\ SameBefore(i, args, args1) /\ SameBefore(i, levels, levels1)
    BY <1>2, Zenon DEF SameBefore
  <1>4. LevelOf(flags, i) = IF flags[i].opt = "verbose" THEN 4 - flags[i].arg ELSE Lower(m)
    BY Zenon DEF LevelOf
  <1>5. /\ t.prev = Lower(n)
        /\ SaidBy(t.emulate, "unset", Emulations, LastIn(flags, i - 1, {"e"}), args1)
        /\ IF rocto THEN SaidBy(t.port, "unset", Ports, LastIn(flags, i - 1, {"p"}), args1) ELSE t.port = "unset"
        /\ SaidBy(t.verbosity, 5, 1 .. 4, LastIn(flags, i - 1, {"v", "verbose"}), levels1)
    BY Zenon DEF Heard
  <1> HIDE DEF n, m, args, args1, levels, levels1
  <1>6. w.prev = Lower(m) /\ (flags[i].opt = "v" => w.verbosity = Lower(m) /\ Lower(m) \in 1 .. 4)
    <2>1. CASE flags[i].opt = "v"
      <3>1. w.prev = Below(t.prev) /\ w.verbosity = Below(t.prev)
        BY <2>1, Zenon DEF FlagDoes
      <3>2. m = n + 1
        BY <1>1, <2>1, Zenon
      <3>3. Below(Lower(n)) = Lower(m) /\ Lower(m) \in 1 .. 4
        BY <1>1, <3>2, SMT DEF Below, Lower
      <3> QED
        BY <1>5, <3>1, <3>3, Zenon
    <2>2. CASE flags[i].opt # "v"
      <3>1. m = n
        BY <1>1, <2>2, SMT
      <3>2. w.prev = t.prev
        BY <2>2, Zenon DEF FlagDoes
      <3> QED
        BY <1>5, <2>2, <3>1, <3>2, Zenon
    <2> QED
      BY <2>1, <2>2, Zenon
  <1>7. SaidBy(w.emulate, "unset", Emulations, LastIn(flags, i, {"e"}), args)
    <2>1. Speaks(flags[i], {"e"}, Emulations, args[i], t.emulate, w.emulate)
      BY <1>3, Zenon DEF FlagDoes, Speaks
    <2> QED
      BY <1>3, <1>5, <2>1, SaidStep, Zenon
  <1>8. IF rocto THEN SaidBy(w.port, "unset", Ports, LastIn(flags, i, {"p"}), args) ELSE w.port = "unset"
    <2>1. CASE rocto
      <3>1. Speaks(flags[i], {"p"}, Ports, args[i], t.port, w.port)
        BY <1>3, <2>1, Zenon DEF FlagDoes, Speaks
      <3>2. SaidBy(t.port, "unset", Ports, LastIn(flags, i - 1, {"p"}), args1)
        BY <1>5, <2>1, Zenon
      <3>3. SaidBy(w.port, "unset", Ports, LastIn(flags, i, {"p"}), args)
        BY <1>3, <3>1, <3>2, SaidStep, Zenon
      <3> QED
        BY <2>1, <3>3, Zenon
    <2>2. CASE ~rocto
      BY <1>5, <2>2, Zenon DEF FlagDoes
    <2> QED
      BY <2>1, <2>2, Zenon
  <1>9. SaidBy(w.verbosity, 5, 1 .. 4, LastIn(flags, i, {"v", "verbose"}), levels)
    <2> DEFINE V == 1 .. 4
               opts == {"v", "verbose"}
    <2>1. Speaks(flags[i], opts, V, levels[i], t.verbosity, w.verbosity)
      <3>1. CASE flags[i].opt = "v"
        BY <1>3, <1>4, <1>6, <3>1, Zenon DEF Speaks
      <3>2. CASE flags[i].opt = "verbose"
        <4>1. flags[i].arg \in 0 .. 3 /\ w.verbosity = 4 - flags[i].arg
          BY <3>2, Zenon DEF FlagDoes
        <4>2. w.verbosity \in V
          BY <4>1, SMT
        <4> HIDE DEF V
        <4> QED
          BY <1>3, <1>4, <3>2, <4>1, <4>2, Zenon DEF Speaks
      <3>3. CASE flags[i].opt \notin opts
        BY <3>3, Zenon DEF FlagDoes, Speaks
      <3> QED
        BY <3>1, <3>2, <3>3, Zenon
    <2>2. SaidBy(t.verbosity, 5, V, LastIn(flags, i - 1, opts), levels1)
      BY <1>5, Zenon
    <2> HIDE DEF V, opts
    <2>3. SaidBy(w.verbosity, 5, V, LastIn(flags, i, opts), levels)
      BY <1>3, <2>1, <2>2, SaidStep, Zenon
    <2> QED
      BY <2>3, Zenon DEF V, opts
  <1> QED
    BY <1>6, <1>7, <1>8, <1>9, Zenon DEF Heard, m, args, levels

\* parse_startup_flags as a whole, for any number of flags.
LEMMA FlagsHeard ==
    ASSUME NEW s \in Starts
    PROVE  /\ FlagsOf(s) \in FlagState
           /\ ~FlagsOf(s).bad => Heard(FlagsOf(s), s.flags, s.rocto, Len(s.flags))
  <1> DEFINE n == Len(s.flags)
             a == [NoFlags EXCEPT !.schema = ~s.rocto, !.write = ~s.rocto]
             step == [x \in Nat \X FlagState |-> FlagStep(x[2], s.flags[x[1]], s.rocto)]
             t[i \in 0 .. Len(s.flags)] ==
                 IF i = 0 THEN [NoFlags EXCEPT !.schema = ~s.rocto, !.write = ~s.rocto]
                 ELSE IF t[i - 1].bad THEN t[i - 1]
                 ELSE Flag(t[i - 1], s.flags[i], s.rocto)
             St == [i \in Nat |-> {x \in FlagState : ~x.bad => Heard(x, s.flags, s.rocto, i)}]
  <1>1. n \in Nat /\ s.rocto \in BOOLEAN
    BY StartAssumption, Zenon
  <1>2. FlagsOf(s) = t[n]
    BY Zenon DEF FlagsOf
  <1>3. a \in FlagState
    <2>1. 5 \in 1 .. 5 /\ 4 \in 1 .. 4
      BY SMT
    <2>2. NoFlags \in FlagState
      BY <2>1, Zenon DEF NoFlags, FlagState
    <2> QED
      BY <2>1, <2>2, Zenon DEF FlagState
  <1>4. step \in [Nat \X FlagState -> FlagState]
    BY <1>1, FlagResult, Zenon
  <1>5. PICK g \in [0 .. n -> FlagState] : Computes(g, a, step, n)
    <2> HIDE DEF a, step, n
    <2> QED
      BY <1>1, <1>3, <1>4, Recursion, Zenon
  <1>6. \A i \in 1 .. n : i \in Nat /\ i # 0 /\ i - 1 \in 0 .. n /\ i \in 0 .. n
    <2> HIDE DEF n
    <2> QED
      BY <1>1, SMTT(30)
  <1>7. 0 \in 0 .. n /\ \A i \in 0 .. n : i # 0 => i \in 1 .. n
    <2> HIDE DEF n
    <2> QED
      BY <1>1, SMTT(30)
  <1>8. \A i \in 1 .. n : g[i] = FlagStep(g[i - 1], s.flags[i], s.rocto)
    <2> TAKE i \in 1 .. n
    <2>1. g[i - 1] \in FlagState /\ i \in Nat /\ g[i] = step[<<i, g[i - 1]>>]
      BY <1>5, <1>6, Zenon DEF Computes
    <2> QED
      BY <2>1, SMTT(30)
  <1> HIDE DEF step
  <1>9. g = [i \in 0 .. n |-> IF i = 0 THEN a ELSE IF g[i - 1].bad THEN g[i - 1]
                                               ELSE Flag(g[i - 1], s.flags[i], s.rocto)]
    BY <1>5, <1>7, <1>8, Zenon DEF Computes, FlagStep
  <1>10. t = [i \in 0 .. n |-> IF i = 0 THEN a ELSE IF t[i - 1].bad THEN t[i - 1]
                                               ELSE Flag(t[i - 1], s.flags[i], s.rocto)]
    BY <1>9, Zenon
  <1> HIDE DEF t, n, a
  <1>11. t[0] = a /\ \A i \in 1 .. n : t[i] = FlagStep(t[i - 1], s.flags[i], s.rocto)
    BY <1>6, <1>7, <1>10, Zenon DEF FlagStep
  <1>12. t[0] \in St[0]
    <2>1. a.prev = 4 /\ a.emulate = "unset" /\ a.port = "unset" /\ a.verbosity = 5
      BY SMT DEF NoFlags, a
    <2>2. 1 .. 0 = {} /\ 0 \in Nat /\ Lower(0) = 4
      BY SMT DEF Lower
    <2>3. \A opts : LastIn(s.flags, 0, opts) = {}
      BY <2>2, Zenon DEF LastIn
    <2>4. Vs(s.flags, 0) = {}
      BY <2>2, Zenon DEF Vs
    <2>5. Cardinality({}) = 0
      BY FS_EmptySet, Zenon
    <2>6. Heard(a, s.flags, s.rocto, 0)
      BY <2>1, <2>2, <2>3, <2>4, <2>5, Zenon DEF Heard, SaidBy
    <2> QED
      BY <1>3, <1>11, <2>2, <2>6, Zenon
  <1>13. ASSUME NEW i \in 1 .. n, t[i - 1] \in St[i - 1]
         PROVE  t[i] \in St[i]
    <2> DEFINE x == t[i - 1]
               w == FlagStep(x, s.flags[i], s.rocto)
    <2>1. i \in Nat /\ i # 0 /\ i - 1 \in Nat
      BY <1>1, SMTT(30)
    <2>2. x \in FlagState /\ (~x.bad => Heard(x, s.flags, s.rocto, i - 1))
      BY <1>13, <2>1, Zenon
    <2> HIDE DEF x
    <2>3. w \in FlagState /\ (w.bad \/ FlagDoes(x, w, s.flags[i], s.rocto))
      BY <1>1, <2>2, FlagResult, Zenon
    <2>4. t[i] = w
      BY <1>11, Zenon DEF x
    <2> HIDE DEF w
    <2>5. ~w.bad => Heard(w, s.flags, s.rocto, i)
      BY <1>1, <2>1, <2>2, <2>3, HeardStep, Zenon DEF FlagDoes
    <2> QED
      BY <2>1, <2>3, <2>4, <2>5, Zenon
  <1> HIDE DEF St
  <1>14. t[n] \in St[n]
    BY <1>1, <1>12, <1>13, Follows, Zenon
  <1> QED
    BY <1>1, <1>2, <1>14, Zenon DEF St, n

-----------------------------------------------------------------------------
(* The scan of $zroutines. *)

Name == DOMAIN Stat \cup {""}
Outcome == [ok : BOOLEAN, src : Name, obj : Name \cup {"none"}]
ScanState == [obj : Name \cup {"none"}, set : BOOLEAN, found : SUBSET Outcome, over : BOOLEAN]

\* The path names a source directory that is there.
Source(path) == ~path.obj /\ path.name # ""
IsDir(path) == Source(path) /\ Stat[path.name] = "dir"

\* What the scan does with one path.
ScanDoes(t, w, path) ==
    \/ w = t /\ (t.over \/ (~path.obj /\ path.name = ""))
    \/ ~t.over /\ path.obj /\ w.obj = path.name /\ w.found = t.found
    \/ ~t.over /\ Source(path) /\ ~IsDir(path) /\ w.obj = t.obj /\ w.found \subseteq t.found \cup {NotFound}
    \/ ~t.over /\ IsDir(path) /\ w.over /\ w.found = t.found \cup {FoundDir(path.name, t.obj)}

LEMMA OutcomeType ==
    ASSUME NEW x \in Name, NEW obj \in Name \cup {"none"}
    PROVE  NotFound \in Outcome /\ FoundDir(x, obj) \in Outcome
  <1>1. TRUE \in BOOLEAN /\ FALSE \in BOOLEAN /\ "" \in Name /\ x \in Name \cup {"none"}
    BY Zenon DEF Name
  <1>2. NotFound \in Outcome
    BY <1>1, Zenon DEF NotFound, Outcome
  <1>3. FoundDir(x, obj) \in Outcome
    BY <1>1, <1>2, Zenon DEF FoundDir, Outcome
  <1> QED
    BY <1>2, <1>3, Zenon

LEMMA ScanResult ==
    ASSUME NEW t \in ScanState, NEW path \in Zpath
    PROVE  ScanPath(t, path) \in ScanState /\ ScanDoes(t, ScanPath(t, path), path)
  <1> DEFINE w == ScanPath(t, path)
             x == path.name
             more == t.found \cup {NotFound}
             found == t.found \cup {FoundDir(x, t.obj)}
  <1>1. /\ t.obj \in Name \cup {"none"} /\ t.set \in BOOLEAN /\ t.over \in BOOLEAN /\ t.found \in SUBSET Outcome
        /\ x \in Name /\ path.obj \in BOOLEAN
    BY Zenon DEF ScanState, Zpath, Name
  <1>2. more \in SUBSET Outcome /\ found \in SUBSET Outcome
    BY <1>1, OutcomeType, Zenon
  <1>3. CASE t.over \/ (~path.obj /\ x = "")
    <2>1. w = t
      BY <1>3, Zenon DEF ScanPath
    <2> QED
      BY <1>3, <2>1, Zenon DEF ScanDoes
  <1>4. CASE ~t.over /\ path.obj
    <2>1. w = [t EXCEPT !.obj = x]
      BY <1>4, Zenon DEF ScanPath
    <2> HIDE DEF w
    <2>2. w \in ScanState /\ w.obj = x /\ w.found = t.found
      BY <1>1, <2>1, Zenon DEF ScanState
    <2>3. ScanDoes(t, w, path)
      BY <1>4, <2>2, Zenon DEF ScanDoes
    <2> QED
      BY <2>2, <2>3, Zenon DEF w
  <1>5. CASE ~t.over /\ Source(path)
    <2>1. Stat[x] \in {"dir", "file", "missing", "notdir"}
      BY <1>1, <1>5, StatAssumption, Zenon DEF Source, Name
    <2> HIDE DEF more, found
    <2>2. ASSUME w \in ScanState, w.obj = t.obj, w.found \subseteq more, Stat[x] # "dir"
          PROVE  ScanDoes(t, w, path)
      BY <1>5, <2>2, Zenon DEF ScanDoes, IsDir, more
    <2>3. CASE Stat[x] = "missing"
      <3>1. w = [t EXCEPT !.found = more, !.over = TRUE]
        BY <1>5, <2>3, Zenon DEF ScanPath, Source, more
      <3> HIDE DEF w
      <3>2. w \in ScanState /\ w.obj = t.obj /\ w.found = more
        BY <1>1, <1>2, <3>1, Zenon DEF ScanState
      <3> QED
        BY <2>2, <2>3, <3>2, Zenon DEF w
    <2>4. CASE Stat[x] = "file"
      <3>1. w = [t EXCEPT !.set = TRUE]
        BY <1>5, <2>4, Zenon DEF ScanPath, Source
      <3> HIDE DEF w
      <3>2. w \in ScanState /\ w.obj = t.obj /\ w.found = t.found
        BY <1>1, <1>2, <3>1, Zenon DEF ScanState
      <3>3. w.found \subseteq more
        BY <3>2, Zenon DEF more
      <3> QED
        BY <2>2, <2>4, <3>2, <3>3, Zenon DEF w
    <2>5. CASE Stat[x] = "notdir"
      <3>1. w = [t EXCEPT !.found = IF t.set THEN t.found ELSE more]
        BY <1>5, <2>5, Zenon DEF ScanPath, Source, more
      <3> HIDE DEF w
      <3>2. w \in ScanState /\ w.obj = t.obj /\ (w.found = t.found \/ w.found = more)
        BY <1>1, <1>2, <3>1, Zenon DEF ScanState
      <3>3. w.found \subseteq more
        BY <3>2, Zenon DEF more
      <3> QED
        BY <2>2, <2>5, <3>2, <3>3, Zenon DEF w
    <2>6. CASE Stat[x] = "dir"
      <3>1. w = [t EXCEPT !.found = found, !.over = TRUE]
        BY <1>5, <2>6, Zenon DEF ScanPath, Source, found
      <3> HIDE DEF w
      <3>2. w \in ScanState /\ w.over /\ w.found = found
        BY <1>1, <1>2, <3>1, Zenon DEF ScanState
      <3>3. ScanDoes(t, w, path)
        BY <1>5, <2>6, <3>2, Zenon DEF ScanDoes, IsDir, found
      <3> QED
        BY <3>2, <3>3, Zenon DEF w
    <2> QED
      BY <2>1, <2>3, <2>4, <2>5, <2>6, Zenon
  <1> QED
    BY <1>1, <1>3, <1>4, <1>5, Zenon DEF Source

\* The directories that a list gives, as PlanDirs states it.
Opens(z, i) == {j \in 1 .. (i - 1) : z[j].obj /\ \A k \in j .. (i - 1) : ~z[k].close}
FirstDir(z, i) == IsDir(z[i]) /\ \A k \in 1 .. (i - 1) : ~IsDir(z[k])
ObjectOf(z, i, obj) ==
    /\ \A j \in Opens(z, i) : obj = z[j].name
    /\ (\A j \in 1 .. (i - 1) : ~z[j].obj) => obj = z[i].name
Dirs(z, src, obj) == \E i \in DOMAIN z : FirstDir(z, i) /\ z[i].name = src /\ ObjectOf(z, i, obj)

\* The object directory that the scan knows after i paths.
LastObject(z, i, obj) ==
    \/ obj = "none" /\ \A j \in 1 .. i : ~z[j].obj
    \/ /\ obj # "none"
       /\ \E j \in 1 .. i : z[j].obj /\ obj = z[j].name /\ \A k \in (j + 1) .. i : ~z[k].obj
ScanInv(t, z, i) ==
    /\ \A r \in t.found : r.ok => Dirs(z, r.src, r.obj)
    /\ ~t.over => LastObject(z, i, t.obj) /\ \A k \in 1 .. i : ~IsDir(z[k])

\* Parentheses that are closed before the next ones are opened have one object
\* directory open at a time.
LEMMA OneOpen ==
    ASSUME NEW z, WellFormed(z), NEW i \in DOMAIN z, NEW obj, LastObject(z, i - 1, obj),
           NEW j \in Opens(z, i)
    PROVE  obj = z[j].name
  <1>1. i \in Nat /\ i # 0 /\ i <= Len(z) /\ Len(z) \in Nat /\ DOMAIN z = 1 .. Len(z)
    BY SMT DEF WellFormed
  <1>2. j \in 1 .. (i - 1) /\ z[j].obj /\ (\A k \in j .. (i - 1) : ~z[k].close) /\ j \in DOMAIN z
    <2>1. j \in 1 .. (i - 1) /\ z[j].obj /\ \A k \in j .. (i - 1) : ~z[k].close
      BY Zenon DEF Opens
    <2>2. j \in DOMAIN z
      BY <1>1, <2>1, SMT
    <2> QED
      BY <2>1, <2>2, Zenon
  <1>3. PICK l \in 1 .. (i - 1) : z[l].obj /\ obj = z[l].name /\ \A k \in (l + 1) .. (i - 1) : ~z[k].obj
    BY <1>2, Zenon DEF LastObject
  <1>4. PICK c \in j .. Len(z) : z[c].close /\ \A k \in (j + 1) .. c : ~z[k].obj
    BY <1>2, Zenon DEF WellFormed
  <1>5. c \notin j .. (i - 1)
    BY <1>2, <1>4, Zenon
  <1>6. j \notin (l + 1) .. (i - 1) /\ l \notin (j + 1) .. c
    BY <1>2, <1>3, <1>4, Zenon
  <1>7. j = l
    BY <1>1, <1>2, <1>3, <1>4, <1>5, <1>6, SMTT(30)
  <1> QED
    BY <1>3, <1>7, Zenon

LEMMA FoundIsRight ==
    ASSUME NEW z, WellFormed(z), NEW i \in DOMAIN z, NEW obj, LastObject(z, i - 1, obj),
           FirstDir(z, i), FoundDir(z[i].name, obj).ok
    PROVE  Dirs(z, FoundDir(z[i].name, obj).src, FoundDir(z[i].name, obj).obj)
  <1> DEFINE x == z[i].name
             r == FoundDir(x, obj)
  <1>1. CASE obj = "none"
    <2>1. \A j \in 1 .. (i - 1) : ~z[j].obj
      BY <1>1, Zenon DEF LastObject
    <2>2. r.src = x /\ r.obj = x
      BY <1>1 DEF FoundDir
    <2>3. Opens(z, i) = {}
      BY <2>1, Zenon DEF Opens
    <2>4. ObjectOf(z, i, x)
      BY <2>3, Zenon DEF ObjectOf
    <2> QED
      BY <2>2, <2>4, Zenon DEF Dirs
  <1>2. CASE obj # "none"
    <2>1. ~(\A j \in 1 .. (i - 1) : ~z[j].obj)
      BY <1>2, Zenon DEF LastObject
    <2>2. NotFound.ok = FALSE
      BY Zenon DEF NotFound
    <2>3. r = [ok |-> TRUE, src |-> x, obj |-> obj]
      <3>1. r = NotFound \/ r = [ok |-> TRUE, src |-> x, obj |-> obj]
        BY <1>2, Zenon DEF FoundDir
      <3> HIDE DEF r
      <3>2. r.ok
        BY Zenon DEF r
      <3> QED
        BY <2>2, <3>1, <3>2, Zenon
    <2>4. r.src = x /\ r.obj = obj
      <3> HIDE DEF r
      <3> QED
        BY <2>3, Zenon
    <2>5. ObjectOf(z, i, obj)
      BY <2>1, OneOpen, Zenon DEF ObjectOf
    <2> QED
      BY <2>4, <2>5, Zenon DEF Dirs
  <1> QED
    BY <1>1, <1>2, Zenon

LEMMA ScanStep ==
    ASSUME NEW z, WellFormed(z), NEW i \in DOMAIN z, NEW t \in ScanState, NEW w \in ScanState,
           ScanInv(t, z, i - 1), ScanDoes(t, w, z[i])
    PROVE  ScanInv(w, z, i)
  <1>1. i \in Nat /\ i # 0 /\ z[i] \in Zpath
    BY SMTT(30) DEF WellFormed
  <1>2. /\ i \in 1 .. i /\ \A k \in 1 .. i : k = i \/ k \in 1 .. (i - 1)
        /\ (i + 1) .. i = {} /\ \A k \in 1 .. (i - 1) : k \in 1 .. i
    BY <1>1, SMTT(30)
  <1>3. \A j \in 1 .. (i - 1) : \A k \in (j + 1) .. i : k = i \/ k \in (j + 1) .. (i - 1)
    BY <1>1, SMT
  <1>4. z[i].name # "none"
    BY <1>1, StatAssumption, Zenon DEF Zpath
  <1>5. NotFound.ok = FALSE
    BY Zenon DEF NotFound
  <1>6. ASSUME LastObject(z, i - 1, t.obj), ~z[i].obj PROVE LastObject(z, i, t.obj)
    <2>1. CASE t.obj = "none"
      BY <1>2, <1>6, <2>1, Zenon DEF LastObject
    <2>2. CASE t.obj # "none"
      BY <1>2, <1>3, <1>6, <2>2, Zenon DEF LastObject
    <2> QED
      BY <2>1, <2>2, Zenon
  <1>7. CASE w = t /\ (t.over \/ (~z[i].obj /\ z[i].name = ""))
    <2>1. ~t.over => ~IsDir(z[i])
      BY <1>7, Zenon DEF IsDir, Source
    <2> QED
      BY <1>2, <1>6, <1>7, <2>1, Zenon DEF ScanInv
  <1>8. CASE ~t.over /\ z[i].obj /\ w.obj = z[i].name /\ w.found = t.found
    <2>1. LastObject(z, i, w.obj)
      BY <1>2, <1>4, <1>8, Zenon DEF LastObject
    <2>2. ~IsDir(z[i])
      BY <1>8, Zenon DEF IsDir, Source
    <2> QED
      BY <1>2, <1>8, <2>1, <2>2, Zenon DEF ScanInv
  <1>9. CASE /\ ~t.over /\ Source(z[i]) /\ ~IsDir(z[i]) /\ w.obj = t.obj
             /\ w.found \subseteq t.found \cup {NotFound}
    <2>1. LastObject(z, i, w.obj)
      BY <1>6, <1>9, Zenon DEF ScanInv, Source
    <2>2. \A r \in w.found : r.ok => r \in t.found
      BY <1>5, <1>9, Zenon
    <2> QED
      BY <1>2, <1>9, <2>1, <2>2, Zenon DEF ScanInv
  <1>10. CASE ~t.over /\ IsDir(z[i]) /\ w.over /\ w.found = t.found \cup {FoundDir(z[i].name, t.obj)}
    <2> DEFINE f == FoundDir(z[i].name, t.obj)
    <2>1. FirstDir(z, i) /\ LastObject(z, i - 1, t.obj)
      BY <1>10, Zenon DEF ScanInv, FirstDir
    <2>2. f.ok => Dirs(z, f.src, f.obj)
      BY <2>1, FoundIsRight, Zenon
    <2> HIDE DEF f
    <2>3. w.found = t.found \cup {f}
      BY <1>10, Zenon DEF f
    <2> QED
      BY <1>10, <2>2, <2>3, Zenon DEF ScanInv
  <1> QED
    BY <1>7, <1>8, <1>9, <1>10, Zenon DEF ScanDoes

\* The scan as a whole, for any number of paths.
LEMMA ScanRight ==
    ASSUME NEW z, WellFormed(z), NEW r \in ScanZroutines(z), r.ok
    PROVE  Dirs(z, r.src, r.obj)
  <1> DEFINE n == Len(z)
             step == [x \in Nat \X ScanState |-> IF x[1] \in DOMAIN z THEN ScanPath(x[2], z[x[1]]) ELSE x[2]]
             t[i \in 0 .. Len(z)] == IF i = 0 THEN StartScan ELSE ScanPath(t[i - 1], z[i])
             St == [i \in Nat |-> {x \in ScanState : ScanInv(x, z, i)}]
  <1>1. n \in Nat /\ DOMAIN z = 1 .. n /\ \A i \in DOMAIN z : z[i] \in Zpath
    BY SMT DEF WellFormed
  <1>2. ScanZroutines(z) = IF t[n].over THEN t[n].found ELSE t[n].found \cup {NotFound}
    BY Zenon DEF ScanZroutines
  <1>3. StartScan \in ScanState
    BY Zenon DEF StartScan, ScanState
  <1>4. step \in [Nat \X ScanState -> ScanState]
    BY <1>1, ScanResult, Zenon
  <1>5. PICK g \in [0 .. n -> ScanState] : Computes(g, StartScan, step, n)
    <2> HIDE DEF step, n
    <2> QED
      BY <1>1, <1>3, <1>4, Recursion, ZenonT(40)
  <1>6. \A i \in 1 .. n : i \in Nat /\ i # 0 /\ i - 1 \in 0 .. n /\ i \in 0 .. n
    <2> HIDE DEF n
    <2> QED
      BY <1>1, SMTT(30)
  <1>7. 0 \in 0 .. n /\ \A i \in 0 .. n : i # 0 => i \in 1 .. n
    <2> HIDE DEF n
    <2> QED
      BY <1>1, SMTT(30)
  <1>8. \A i \in 1 .. n : g[i] = ScanPath(g[i - 1], z[i])
    <2> TAKE i \in 1 .. n
    <2>1. g[i - 1] \in ScanState /\ i \in Nat /\ i \in DOMAIN z /\ g[i] = step[<<i, g[i - 1]>>]
      BY <1>1, <1>5, <1>6, Zenon DEF Computes
    <2> QED
      BY <2>1, SMTT(30)
  <1> HIDE DEF step
  <1>9. g = [i \in 0 .. n |-> IF i = 0 THEN StartScan ELSE ScanPath(g[i - 1], z[i])]
    BY <1>5, <1>7, <1>8, Zenon DEF Computes
  <1>10. t = [i \in 0 .. n |-> IF i = 0 THEN StartScan ELSE ScanPath(t[i - 1], z[i])]
    BY <1>9, Zenon
  <1> HIDE DEF t, n
  <1>11. t[0] = StartScan /\ \A i \in 1 .. n : t[i] = ScanPath(t[i - 1], z[i])
    BY <1>6, <1>7, <1>10, Zenon
  <1>12. t[0] \in St[0]
    <2>1. StartScan.obj = "none" /\ StartScan.found = {} /\ 1 .. 0 = {} /\ 0 \in Nat
      BY SMT DEF StartScan
    <2>2. ScanInv(StartScan, z, 0)
      BY <2>1, Zenon DEF ScanInv, LastObject
    <2> QED
      BY <1>3, <1>11, <2>1, <2>2, Zenon
  <1>13. ASSUME NEW i \in 1 .. n, t[i - 1] \in St[i - 1]
         PROVE  t[i] \in St[i]
    <2> DEFINE x == t[i - 1]
               w == ScanPath(x, z[i])
    <2>1. i \in Nat /\ i - 1 \in Nat /\ i \in DOMAIN z
      BY <1>1, SMTT(30)
    <2>2. x \in ScanState /\ ScanInv(x, z, i - 1)
      BY <1>13, <2>1, Zenon
    <2> HIDE DEF x
    <2>3. w \in ScanState /\ ScanDoes(x, w, z[i])
      BY <1>1, <2>1, <2>2, ScanResult, Zenon
    <2>4. t[i] = w
      BY <1>11, Zenon DEF x
    <2> HIDE DEF w
    <2>5. ScanInv(w, z, i)
      BY <2>1, <2>2, <2>3, ScanStep, Zenon
    <2> QED
      BY <2>1, <2>3, <2>4, <2>5, Zenon
  <1> HIDE DEF St
  <1>14. t[n] \in St[n]
    BY <1>1, <1>12, <1>13, Follows, Zenon
  <1>15. ScanInv(t[n], z, n)
    BY <1>1, <1>14, Zenon DEF St
  <1>16. r \in t[n].found
    <2>1. NotFound.ok = FALSE
      BY Zenon DEF NotFound
    <2> QED
      BY <1>2, <2>1, Zenon
  <1> QED
    BY <1>15, <1>16, Zenon DEF ScanInv

\* octo_zroutines is put before $zroutines.
LEMMA JoinedLists ==
    ASSUME NEW y, NEW z, WellFormed(y), WellFormed(z)
    PROVE  WellFormed(y \o z)
  <1> DEFINE s == y \o z
             m == Len(y)
             n == Len(z)
             Closes(q, j) == \E k \in j .. Len(q) : q[k].close /\ \A l \in (j + 1) .. k : ~q[l].obj
  <1>1. /\ s \in Seq(Zpath) /\ Len(s) = m + n /\ m \in Nat /\ n \in Nat
        /\ DOMAIN s = 1 .. (m + n) /\ DOMAIN y = 1 .. m /\ DOMAIN z = 1 .. n
    BY SMTT(30) DEF WellFormed
  <1>2. \A i \in 1 .. m : s[i] = y[i]
    BY SMT DEF WellFormed
  <1>3. \A i \in 1 .. n : s[i + m] = z[i]
    BY SMT DEF WellFormed
  <1>4. (\A j \in 1 .. m : y[j].obj => Closes(y, j)) /\ (\A j \in 1 .. n : z[j].obj => Closes(z, j))
    BY <1>1, Zenon DEF WellFormed
  <1> HIDE DEF s, m, n
  <1>5. ASSUME NEW j \in 1 .. (m + n), s[j].obj
        PROVE  \E k \in j .. (m + n) : s[k].close /\ \A l \in (j + 1) .. k : ~s[l].obj
    <2>1. CASE j \in 1 .. m
      <3>1. y[j].obj
        BY <1>2, <1>5, <2>1, Zenon
      <3>2. PICK k \in j .. m : y[k].close /\ \A l \in (j + 1) .. k : ~y[l].obj
        BY <1>4, <2>1, <3>1, ZenonT(40) DEF m
      <3>3. k \in 1 .. m /\ k \in j .. (m + n) /\ \A l \in (j + 1) .. k : l \in 1 .. m
        BY <1>1, <2>1, <3>2, SMTT(30)
      <3> QED
        BY <1>2, <3>2, <3>3, Zenon
    <2>2. CASE j \notin 1 .. m
      <3> DEFINE i == j - m
      <3>1. i \in 1 .. n /\ i + m = j
        BY <1>1, <2>2, SMTT(30)
      <3> HIDE DEF i
      <3>2. z[i].obj
        BY <1>3, <1>5, <3>1, Zenon
      <3>3. PICK k \in i .. n : z[k].close /\ \A l \in (i + 1) .. k : ~z[l].obj
        BY <1>4, <3>1, <3>2, Zenon DEF n
      <3>4. k \in 1 .. n /\ k + m \in j .. (m + n)
        BY <1>1, <3>1, <3>3, SMTT(30)
      <3>5. \A l \in (j + 1) .. (k + m) : l - m \in (i + 1) .. k /\ l - m \in 1 .. n /\ (l - m) + m = l
        BY <1>1, <3>1, <3>3, SMTT(30)
      <3>6. \A l \in (j + 1) .. (k + m) : ~s[l].obj
        BY <1>3, <3>3, <3>5, Zenon
      <3> QED
        BY <1>3, <3>3, <3>4, <3>6, Zenon
    <2> QED
      BY <2>1, <2>2, Zenon
  <1>6. \A j \in DOMAIN s : s[j].obj => \E k \in j .. Len(s) : s[k].close /\ \A l \in (j + 1) .. k : ~s[l].obj
    BY <1>1, <1>5, ZenonT(60)
  <1> QED
    BY <1>1, <1>6, Zenon DEF WellFormed, s

-----------------------------------------------------------------------------
(* The files. *)

FilePath == {"cwd", "home", "plugin", "default", "given"}

LEMMA Suffix ==
    ASSUME NEW S, NEW s \in Seq(S), NEW k \in 0 .. Len(s)
    PROVE  /\ SubSeq(s, 1, Len(s)) = s
           /\ k = Len(s) => SubSeq(s, k + 1, Len(s)) = <<>>
           /\ k # Len(s) => /\ SubSeq(s, k + 1, Len(s)) # <<>>
                            /\ Head(SubSeq(s, k + 1, Len(s))) = s[k + 1]
                            /\ Tail(SubSeq(s, k + 1, Len(s))) = SubSeq(s, (k + 1) + 1, Len(s))
                            /\ k + 1 \in 0 .. Len(s)
  <1>1. SubSeq(s, 1, Len(s)) = s
    OBVIOUS
  <1>2. k = Len(s) => SubSeq(s, k + 1, Len(s)) = <<>>
    OBVIOUS
  <1>3. ASSUME k # Len(s)
        PROVE  /\ SubSeq(s, k + 1, Len(s)) # <<>>
               /\ Head(SubSeq(s, k + 1, Len(s))) = s[k + 1]
               /\ Tail(SubSeq(s, k + 1, Len(s))) = SubSeq(s, (k + 1) + 1, Len(s))
               /\ k + 1 \in 0 .. Len(s)
    <2> DEFINE n == Len(s)
               t == SubSeq(s, k + 1, n)
    <2>1. n \in Nat /\ k \in Nat /\ k + 1 <= n
      BY <1>3
    <2>2. t \in Seq(S) /\ Len(t) = n - k /\ \A i \in 1 .. (n - k) : t[i] = s[k + i]
      BY <2>1
    <2>3. t # <<>> /\ Head(t) = s[k + 1]
      <3>1. 1 \in 1 .. (n - k) /\ n - k # 0 /\ n - k \in Nat
        BY <2>1
      <3>2. t[1] = s[k + 1]
        BY <2>2, <3>1, Zenon
      <3> HIDE DEF t, n
      <3>3. t # <<>> /\ Head(t) = t[1]
        BY <2>2, <3>1
      <3> QED
        BY <3>2, <3>3, Zenon
    <2>4. Tail(t) = SubSeq(s, (k + 1) + 1, n)
      <3>1. Tail(t) = [i \in 1 .. (n - k - 1) |-> t[i + 1]]
        BY <2>1, <2>2, SMTT(30)
      <3>2. SubSeq(s, (k + 1) + 1, n) = [i \in 1 .. (n - k - 1) |-> s[k + 1 + i]]
        BY <2>1, SMTT(30)
      <3>3. \A i \in 1 .. (n - k - 1) : t[i + 1] = s[k + 1 + i]
        BY <2>1, <2>2, SMTT(30)
      <3> HIDE DEF t, n
      <3> QED
        BY <3>1, <3>2, <3>3, Zenon
    <2>5. k + 1 \in 0 .. n
      BY <2>1
    <2> QED
      BY <2>3, <2>4, <2>5, Zenon
  <1> QED
    BY <1>1, <1>2, <1>3, Zenon

\* The settings that the first k files have given, the first one for each.
GivenBy(m, files, paths, k) ==
    \A s \in Setting :
        /\ s \in DOMAIN m <=> \E i \in 1 .. k : files[paths[i]].kind = "ok" /\ s \in DOMAIN files[paths[i]].set
        /\ \A i \in 1 .. k :
              /\ files[paths[i]].kind = "ok" /\ s \in DOMAIN files[paths[i]].set
              /\ \A j \in 1 .. (i - 1) : ~(files[paths[j]].kind = "ok" /\ s \in DOMAIN files[paths[j]].set)
              => m[s] = files[paths[i]].set[s]
ListOk(m) == "octo_zroutines" \in DOMAIN m => WellFormed(m["octo_zroutines"])

\* A file that is not there changes nothing.
LEMMA SkipGiven ==
    ASSUME NEW m, NEW files, NEW paths, NEW k \in Nat, GivenBy(m, files, paths, k),
           files[paths[k + 1]].kind # "ok"
    PROVE  GivenBy(m, files, paths, k + 1)
  <1> DEFINE j == k + 1
  <1>1. \A i \in 1 .. j : i = j \/ i \in 1 .. k
    BY SMTT(30)
  <1>2. \A i \in 1 .. k : i \in 1 .. j
    BY SMT
  <1> HIDE DEF j
  <1>3. files[paths[j]].kind # "ok"
    BY Zenon DEF j
  <1>4. GivenBy(m, files, paths, j)
    BY <1>1, <1>2, <1>3, Zenon DEF GivenBy
  <1> QED
    BY <1>4, Zenon DEF j

\* What is there already stays when a file is merged.
LEMMA MergeGiven ==
    ASSUME NEW m, NEW files, NEW paths, NEW k \in Nat, GivenBy(m, files, paths, k),
           files[paths[k + 1]].kind = "ok"
    PROVE  GivenBy(Merge(files[paths[k + 1]].set, m), files, paths, k + 1)
  <1> DEFINE j == k + 1
             new == files[paths[j]].set
             w == Merge(new, m)
             said(i, s) == files[paths[i]].kind = "ok" /\ s \in DOMAIN files[paths[i]].set
  <1>1. (\A i \in 1 .. j : i = j \/ i \in 1 .. k) /\ j \in 1 .. j /\ j - 1 = k
    BY SMT
  <1>2. \A i \in 1 .. k : i \in 1 .. j
    BY SMT
  <1>3. DOMAIN w = DOMAIN m \cup DOMAIN new
    BY Zenon DEF Merge
  <1>4. \A s \in DOMAIN w : w[s] = IF s \in DOMAIN m THEN m[s] ELSE new[s]
    BY Zenon DEF Merge
  <1>5. files[paths[j]].kind = "ok"
    BY Zenon
  <1> HIDE DEF j, w
  <1> SUFFICES ASSUME NEW s \in Setting
               PROVE  /\ s \in DOMAIN w <=> \E i \in 1 .. j : said(i, s)
                      /\ \A i \in 1 .. j : said(i, s) /\ (\A l \in 1 .. (i - 1) : ~said(l, s))
                                             => w[s] = files[paths[i]].set[s]
    BY Zenon DEF GivenBy, j, w
  <1>6. s \in DOMAIN m <=> \E i \in 1 .. k : said(i, s)
    BY Zenon DEF GivenBy
  <1>7. \A i \in 1 .. k : said(i, s) /\ (\A l \in 1 .. (i - 1) : ~said(l, s)) => m[s] = files[paths[i]].set[s]
    BY Zenon DEF GivenBy
  <1>8. said(j, s) <=> s \in DOMAIN new
    BY <1>5, Zenon
  <1>9. s \in DOMAIN w <=> \E i \in 1 .. j : said(i, s)
    <2> HIDE DEF said, new
    <2> QED
      BY <1>1, <1>2, <1>3, <1>6, <1>8, Zenon
  <1>10. ASSUME NEW i \in 1 .. j, said(i, s), \A l \in 1 .. (i - 1) : ~said(l, s)
         PROVE  w[s] = files[paths[i]].set[s]
    <2>1. CASE i \in 1 .. k
      <3>1. m[s] = files[paths[i]].set[s] /\ s \in DOMAIN m
        <4>1. s \in DOMAIN m
          BY <1>6, <1>10, <2>1, Zenon
        <4> QED
          BY <1>7, <1>10, <2>1, <4>1, Zenon
      <3> QED
        BY <1>3, <1>4, <3>1, Zenon
    <2>2. CASE i = j
      <3>1. s \in DOMAIN new /\ files[paths[i]].set = new
        BY <1>8, <1>10, <2>2, Zenon
      <3>2. s \notin DOMAIN m
        <4> HIDE DEF said
        <4> QED
          BY <1>1, <1>6, <1>10, <2>2, Zenon
      <3> HIDE DEF new
      <3> QED
        BY <1>3, <1>4, <3>1, <3>2, Zenon
    <2> QED
      BY <1>1, <2>1, <2>2, Zenon
  <1> QED
    BY <1>9, <1>10, Zenon

LEMMA MergeList ==
    ASSUME NEW m, NEW new, ListOk(m), ListOk(new)
    PROVE  ListOk(Merge(new, m))
  BY Zenon DEF ListOk, Merge

-----------------------------------------------------------------------------
(* The reads. *)

Says1(m, s) == s \in DOMAIN m /\ m[s] \in Valid[s]
\* What a read finds where the merged file says nothing: the port is the one of the flags.
Base(t, s) == IF s = "rocto.port" THEN FlagPort(t) ELSE Unset(s)
SetFrom(t, set, m) == \A s \in Setting : set[s] = IF Says1(m, s) THEN m[s] ELSE Base(t, s)
Known(c) == {"set", "env", "src", "obj", "zroutines"} \subseteq DOMAIN c
ReadDirs(c) == Dirs(c.zroutines, c.src, c.obj)
\* The configuration before the flags are read.
Blank(env, c) ==
    /\ Known(c) /\ c.env = env /\ WellFormed(c.zroutines) /\ c.src = ""
    /\ c.set = [s \in Setting |-> Zero(s)]
\* The configuration before the read of m: a setting that keeps its value between reads
\* has what the flags left unless m says it.
Before(env, t, c, m) ==
    /\ Known(c) /\ (env # "unset" => c.env = env)
    /\ WellFormed(c.zroutines) /\ (c.src = "" \/ ReadDirs(c))
    /\ \A s \in Kept : ~Says1(m, s) => c.set[s] = Base(t, s)
\* And after it.
After(env, t, c, m) ==
    /\ Known(c) /\ (env # "unset" => c.env = env)
    /\ WellFormed(c.zroutines) /\ ReadDirs(c) /\ SetFrom(t, c.set, m)

LEMMA NoPaths == \A S : <<>> \in Seq(S) /\ DOMAIN <<>> = {}
  OBVIOUS

LEMMA UnsetKept ==
    /\ \A s \in Kept : s \in Setting /\ (s # "rocto.port" => Unset(s) = Zero(s))
    /\ \A s \in Setting : s \notin Kept => s # "rocto.port"
  BY Zenon DEF Kept, Setting, Unset

LEMMA ReadAfter ==
    ASSUME NEW e, NEW t, NEW c, NEW m, Before(e, t, c, m), ListOk(m), NEW r \in Reads(c, m), r.ok
    PROVE  After(e, t, r.config, m)
  <1> DEFINE set == [s \in Setting |-> ReadSetting(c, m, s)]
             zro == (IF "octo_zroutines" \in DOMAIN m THEN m["octo_zroutines"] ELSE <<>>) \o c.zroutines
             env == IF c.env = "unset" /\ "yottadb" \in DOMAIN m THEN m["yottadb"] ELSE c.env
             zs == IF c.src = "" THEN zro ELSE c.zroutines
             scans == IF c.src # "" THEN {[ok |-> TRUE, src |-> c.src, obj |-> c.obj]} ELSE ScanZroutines(zro)
             read(x) == [c EXCEPT !.set = set, !.env = env, !.src = x.src, !.obj = x.obj, !.zroutines = zs]
  <1>1. PICK x \in scans : r = [ok |-> x.ok /\ ~BadValue(m) /\ ~TlsRefused(set), config |-> read(x)]
    BY Zenon DEF Reads
  <1>2. r.config = read(x)
    BY <1>1, Zenon
  <1>3. x.ok
    <2>1. r.ok = (x.ok /\ ~BadValue(m) /\ ~TlsRefused(set))
      BY <1>1, Zenon
    <2> QED
      BY <2>1, Zenon
  <1>4. WellFormed(zro)
    <2>1. CASE "octo_zroutines" \in DOMAIN m
      BY <2>1, JoinedLists, Zenon DEF ListOk, Before
    <2>2. CASE "octo_zroutines" \notin DOMAIN m
      <3>1. WellFormed(<<>>)
        <4>1. <<>> \in Seq(Zpath) /\ DOMAIN <<>> = {}
          BY NoPaths, Zenon
        <4> QED
          BY <4>1, Zenon DEF WellFormed
      <3> QED
        BY <2>2, <3>1, JoinedLists, Zenon DEF Before
    <2> QED
      BY <2>1, <2>2, Zenon
  <1>5. WellFormed(zs) /\ Dirs(zs, x.src, x.obj)
    <2> HIDE DEF zro
    <2>1. CASE c.src = ""
      <3>1. x \in ScanZroutines(zro) /\ zs = zro
        BY <1>1, <2>1, Zenon
      <3> QED
        BY <1>3, <1>4, <3>1, ScanRight, Zenon
    <2>2. CASE c.src # ""
      <3>1. x = [ok |-> TRUE, src |-> c.src, obj |-> c.obj] /\ zs = c.zroutines
        BY <1>1, <2>2, Zenon
      <3>2. x.src = c.src /\ x.obj = c.obj
        <4> HIDE DEF zs
        <4> QED
          BY <3>1, Zenon
      <3> QED
        BY <2>2, <3>1, <3>2, Zenon DEF Before, ReadDirs
    <2> QED
      BY <2>1, <2>2, Zenon
  <1>6. e # "unset" => env = e
    BY Zenon DEF Before
  <1>7. SetFrom(t, set, m)
    <2> SUFFICES ASSUME NEW s \in Setting
                 PROVE  ReadSetting(c, m, s) = IF Says1(m, s) THEN m[s] ELSE Base(t, s)
      BY Zenon DEF SetFrom
    <2>1. CASE Says1(m, s)
      BY <2>1, Zenon DEF ReadSetting, Says1
    <2>2. CASE ~Says1(m, s)
      <3>1. CASE s \in Kept
        BY <2>2, <3>1, Zenon DEF ReadSetting, Says1, Before
      <3>2. CASE s \notin Kept
        <4>1. Base(t, s) = Unset(s)
          BY <3>2, UnsetKept, Zenon DEF Base
        <4> QED
          BY <2>2, <3>2, <4>1, Zenon DEF ReadSetting, Says1
      <3> QED
        BY <3>1, <3>2, Zenon
    <2> QED
      BY <2>1, <2>2, Zenon
  <1> HIDE DEF set, zs, env, zro
  <1>8. /\ Known(read(x)) /\ read(x).set = set /\ read(x).env = env /\ read(x).src = x.src
        /\ read(x).obj = x.obj /\ read(x).zroutines = zs
    <2>1. Known(c)
      BY Zenon DEF Before
    <2> QED
      BY <2>1, Zenon DEF Known
  <1>9. After(e, t, read(x), m)
    <2> HIDE DEF read
    <2> QED
      BY <1>5, <1>6, <1>7, <1>8, Zenon DEF After, ReadDirs
  <1> QED
    BY <1>2, <1>9, Zenon

\* After one read and before the next one, which finds more in the merged file but
\* nothing else for what it found.
LEMMA AfterIsBefore ==
    ASSUME NEW e, NEW t, NEW c, NEW m, After(e, t, c, m)
    PROVE  Before(e, t, c, m)
  BY UnsetKept, Zenon DEF After, Before, SetFrom

LEMMA MergeBefore ==
    ASSUME NEW e, NEW t, NEW c, NEW m, NEW new, Before(e, t, c, m)
    PROVE  Before(e, t, c, Merge(new, m))
  <1>1. \A s : Says1(m, s) => Says1(Merge(new, m), s)
    BY Zenon DEF Says1, Merge
  <1> QED
    BY <1>1, Zenon DEF Before

-----------------------------------------------------------------------------
(* The invariant of octo_init. *)

PathsOf(file) == IF file THEN <<"given", "default">> ELSE <<"cwd", "home", "plugin", "default">>
FlagsRead == temp \in FlagState /\ Heard(temp, start.flags, start.rocto, Len(start.flags))
Progressed(rest, m, files, paths) ==
    \E k \in 0 .. Len(paths) : rest = SubSeq(paths, k + 1, Len(paths)) /\ GivenBy(m, files, paths, k)
Applied(t, set) ==
    [s \in Setting |->
        CASE s = "verbosity" /\ t.verbosity <= 4 -> Levels[t.verbosity]
          [] s = "rocto.port" /\ t.port # "unset" -> t.port
          [] s = "emulate" /\ t.emulate # "unset" -> t.emulate
          [] s = "datestyle" /\ t.emulate # "unset" -> DefaultDatestyle
          [] OTHER -> set[s]]
\* When a process is ready, the flags have replaced what the last read left.
Final(env, t, c, m) ==
    /\ (env # "unset" => c.env = env) /\ WellFormed(c.zroutines) /\ ReadDirs(c)
    /\ \E set : SetFrom(t, set, m) /\ c.set = Applied(t, set)
StartInv ==
    /\ start \in Starts /\ pc \in {"flags", "merge", "ready", "failed"}
    /\ pc = "flags" => Blank(start.env, config) /\ DOMAIN merged = {}
    /\ pc = "merge" => Before(start.env, temp, config, merged) /\ ListOk(merged)
    /\ pc \in {"merge", "ready"} => FlagsRead /\ Progressed(todo, merged, start.files, PathsOf(temp.file))
    /\ pc = "ready" => todo = <<>> /\ Final(start.env, temp, config, merged)

LEMMA PathsType ==
    ASSUME NEW file
    PROVE  PathsOf(file) \in Seq(FilePath) /\ Len(PathsOf(file)) \in Nat /\ 0 \in 0 .. Len(PathsOf(file))
  <1>1. <<"given", "default">> \in Seq(FilePath)
    BY DEF FilePath
  <1>2. <<"cwd", "home", "plugin", "default">> \in Seq(FilePath)
    BY DEF FilePath
  <1>3. PathsOf(file) \in Seq(FilePath)
    BY <1>1, <1>2, Zenon DEF PathsOf
  <1> HIDE DEF PathsOf
  <1> QED
    BY <1>3

LEMMA StartInvInit == ConfigInit => StartInv
  <1> SUFFICES ASSUME ConfigInit PROVE StartInv
    BY Zenon
  <1>1. start \in Starts /\ pc = "flags" /\ DOMAIN merged = {}
    BY Zenon DEF ConfigInit
  <1>2. WellFormed(start.zroutines)
    BY <1>1, StartAssumption, Zenon
  <1>3. /\ Known(config) /\ config.env = start.env /\ config.src = "" /\ config.zroutines = start.zroutines
        /\ config.set = [s \in Setting |-> Zero(s)]
    BY Zenon DEF ConfigInit, Known
  <1>4. Blank(start.env, config)
    BY <1>2, <1>3, Zenon DEF Blank
  <1> QED
    BY <1>1, <1>4, Zenon DEF StartInv

LEMMA StartInvStep ==
    ASSUME StartInv, ConfigNext
    PROVE  StartInv'
  <1> DEFINE paths == PathsOf(temp.file)
             e == start.env
  <1>1. start \in Starts
    BY Zenon DEF StartInv
  <1>2. CASE ParseStartupFlags
    <2> DEFINE q == PathsOf(temp'.file)
    <2>1. /\ pc = "flags" /\ start' = start /\ merged' = merged /\ temp' = FlagsOf(start) /\ todo' = q
          /\ (pc' = "failed" \/ (pc' = "merge" /\ ~temp'.bad))
          /\ config' = [config EXCEPT !.allow_schema_changes = temp'.schema, !.readwrite = temp'.write,
                                      !.set["rocto.port"] = FlagPort(temp')]
      BY <1>2, Zenon DEF ParseStartupFlags, PathsOf
    <2>2. FlagsOf(start) \in FlagState /\ (~FlagsOf(start).bad => Heard(FlagsOf(start), start.flags, start.rocto, Len(start.flags)))
      BY <1>1, FlagsHeard, Zenon
    <2>3. Blank(e, config) /\ DOMAIN merged = {}
      BY <2>1, Zenon DEF StartInv
    <2>4. /\ DOMAIN config' = DOMAIN config /\ Known(config)
          /\ config'.set = [config.set EXCEPT !["rocto.port"] = FlagPort(temp')] /\ config'.env = config.env
          /\ config'.src = config.src /\ config'.obj = config.obj /\ config'.zroutines = config.zroutines
      <3>1. Known(config)
        BY <2>3, Zenon DEF Blank
      <3>2. PICK p : p = FlagPort(temp')
        OBVIOUS
      <3>3. PICK t, u : config' = [config EXCEPT !.allow_schema_changes = t, !.readwrite = u, !.set["rocto.port"] = p]
        BY <2>1, <3>2, Zenon
      <3> QED
        BY <3>1, <3>2, <3>3, Zenon DEF Known
    <2>5. Before(e, temp', config', merged) /\ ListOk(merged)
      <3>1. ASSUME NEW s \in Kept PROVE config'.set[s] = Base(temp', s)
        <4>1. s \in Setting /\ (s # "rocto.port" => Unset(s) = Zero(s))
          BY UnsetKept, Zenon
        <4>2. DOMAIN config.set = Setting /\ config.set[s] = Zero(s)
          BY <2>3, <4>1, Zenon DEF Blank
        <4>3. CASE s = "rocto.port"
          BY <2>4, <4>1, <4>2, <4>3, Zenon DEF Base
        <4>4. CASE s # "rocto.port"
          BY <2>4, <4>1, <4>2, <4>4, Zenon DEF Base
        <4> QED
          BY <4>3, <4>4, Zenon
      <3> QED
        BY <2>3, <2>4, <3>1, Zenon DEF Blank, Before, Known, ListOk
    <2>6. CASE pc' = "failed"
      BY <1>1, <2>1, <2>6, Zenon DEF StartInv
    <2>7. CASE pc' = "merge" /\ ~temp'.bad
      <3>1. FlagsRead'
        BY <2>1, <2>2, <2>7, Zenon DEF FlagsRead
      <3>2. 0 \in 0 .. Len(q) /\ SubSeq(q, 0 + 1, Len(q)) = q
        <4>1. q \in Seq(FilePath) /\ 0 \in 0 .. Len(q)
          BY PathsType, Zenon
        <4>2. 0 + 1 = 1
          BY SMT
        <4>3. SubSeq(q, 1, Len(q)) = q
          BY <4>1, Suffix, Zenon
        <4> QED
          BY <4>1, <4>2, <4>3, Zenon
      <3>3. GivenBy(merged, start.files, q, 0)
        <4>1. 1 .. 0 = {}
          BY SMT
        <4> QED
          BY <2>3, <4>1, Zenon DEF GivenBy
      <3> HIDE DEF q
      <3>4. Progressed(todo', merged, start.files, q)
        BY <2>1, <3>2, <3>3, Zenon DEF Progressed
      <3>5. Progressed(todo, merged, start.files, PathsOf(temp.file))'
        BY <2>1, <3>4, Zenon DEF q
      <3> QED
        BY <1>1, <2>1, <2>3, <2>5, <2>7, <3>1, <3>5, Zenon DEF StartInv
    <2> QED
      BY <2>1, <2>6, <2>7, Zenon
  <1>3. CASE MergeConfigFile
    <2>1. pc = "merge" /\ todo # <<>> /\ todo' = Tail(todo) /\ start' = start /\ temp' = temp
      BY <1>3, Zenon DEF MergeConfigFile
    <2>2. FlagsRead /\ Progressed(todo, merged, start.files, paths) /\ Before(e, temp, config, merged) /\ ListOk(merged)
      BY <2>1, Zenon DEF StartInv
    <2>3. PICK k \in 0 .. Len(paths) : todo = SubSeq(paths, k + 1, Len(paths)) /\ GivenBy(merged, start.files, paths, k)
      BY <2>2, Zenon DEF Progressed
    <2>4. paths \in Seq(FilePath) /\ Len(paths) \in Nat
      BY PathsType, Zenon
    <2> HIDE DEF paths
    <2>5. k \in Nat
      BY <2>4, SMT
    <2>6. /\ Head(todo) = paths[k + 1] /\ Tail(todo) = SubSeq(paths, (k + 1) + 1, Len(paths))
          /\ k + 1 \in 0 .. Len(paths)
      <3>1. k # Len(paths)
        BY <2>1, <2>3, <2>4, Suffix, Zenon
      <3> QED
        BY <2>3, <2>4, <3>1, Suffix, Zenon
    <2> DEFINE path == paths[k + 1]
    <2>7. path \in FilePath
      BY <2>4, <2>5, <2>6, SMTT(30)
    <2>8. FlagsRead'
      BY <2>1, <2>2, Zenon DEF FlagsRead
    <2>9. ASSUME GivenBy(merged', start.files, paths, k + 1)
          PROVE  Progressed(todo, merged, start.files, PathsOf(temp.file))'
      <3>1. Progressed(todo', merged', start.files, paths)
        BY <2>1, <2>6, <2>9, Zenon DEF Progressed
      <3> QED
        BY <2>1, <3>1, Zenon DEF paths
    <2>10. CASE start.files[path].kind # "ok" /\ merged' = merged /\ config' = config /\ (pc' = pc \/ pc' = "failed")
      <3>1. GivenBy(merged', start.files, paths, k + 1)
        BY <2>3, <2>5, <2>10, SkipGiven, Zenon
      <3>2. Progressed(todo, merged, start.files, PathsOf(temp.file))'
        BY <2>9, <3>1, Zenon
      <3> QED
        BY <1>1, <2>1, <2>2, <2>8, <2>10, <3>2, Zenon DEF StartInv
    <2>11. CASE /\ start.files[path].kind = "ok" /\ merged' = Merge(start.files[path].set, merged)
                /\ \E r \in Reads(config, merged') : config' = r.config /\ pc' = IF r.ok THEN "merge" ELSE "failed"
      <3>1. GivenBy(merged', start.files, paths, k + 1)
        BY <2>3, <2>5, <2>11, MergeGiven, Zenon
      <3>2. Progressed(todo, merged, start.files, PathsOf(temp.file))'
        BY <2>9, <3>1, Zenon
      <3>3. ListOk(start.files[path].set)
        <4> HIDE DEF path
        <4> QED
          BY <1>1, <2>7, StartAssumption, Zenon DEF ListOk, FilePath
      <3>4. ListOk(merged') /\ Before(e, temp, config, merged')
        BY <2>2, <2>11, <3>3, MergeList, MergeBefore, Zenon
      <3>5. PICK r \in Reads(config, merged') : config' = r.config /\ pc' = IF r.ok THEN "merge" ELSE "failed"
        BY <2>11, Zenon
      <3>6. CASE r.ok
        <4>1. After(e, temp, config', merged')
          BY <3>4, <3>5, <3>6, ReadAfter, Zenon
        <4>2. Before(e, temp, config', merged')
          BY <4>1, AfterIsBefore, Zenon
        <4> QED
          BY <1>1, <2>1, <2>8, <3>2, <3>4, <3>5, <3>6, <4>2, Zenon DEF StartInv
      <3>7. CASE ~r.ok
        BY <1>1, <2>1, <3>5, <3>7, Zenon DEF StartInv
      <3> QED
        BY <3>6, <3>7, Zenon
    <2> QED
      BY <1>3, <2>6, <2>10, <2>11, Zenon DEF MergeConfigFile, Skip, Unreadable
  <1>4. CASE FinishConfig
    <2>1. /\ pc = "merge" /\ todo = <<>> /\ start' = start /\ temp' = temp /\ todo' = todo /\ merged' = merged
      BY <1>4, Zenon DEF FinishConfig
    <2>2. FlagsRead /\ Progressed(todo, merged, start.files, paths) /\ Before(e, temp, config, merged) /\ ListOk(merged)
      BY <2>1, Zenon DEF StartInv
    <2>3. PICK r \in Reads(config, merged) :
              /\ config' = [r.config EXCEPT !.set = ApplyFlags(r.config.set)]
              /\ pc' \in (IF r.ok THEN {"ready", "failed"} ELSE {"failed"})
      BY <1>4, Zenon DEF FinishConfig
    <2>4. CASE pc' = "failed"
      BY <1>1, <2>1, <2>4, Zenon DEF StartInv
    <2>5. CASE pc' = "ready" /\ r.ok
      <3> DEFINE c == r.config
      <3>1. After(e, temp, c, merged)
        BY <2>2, <2>5, ReadAfter, Zenon
      <3>2. ApplyFlags(c.set) = Applied(temp, c.set)
        BY Zenon DEF ApplyFlags, Applied
      <3> HIDE DEF c
      <3>3. config' = [c EXCEPT !.set = Applied(temp, c.set)]
        BY <2>3, <3>2, Zenon DEF c
      <3>4. Known(c) /\ SetFrom(temp, c.set, merged)
        BY <3>1, Zenon DEF After
      <3>5. /\ config'.set = Applied(temp, c.set) /\ config'.env = c.env /\ config'.src = c.src
            /\ config'.obj = c.obj /\ config'.zroutines = c.zroutines
        BY <3>3, <3>4, Zenon DEF Known
      <3>6. Final(e, temp, config', merged)
        BY <3>1, <3>4, <3>5, Zenon DEF After, Final, ReadDirs
      <3>7. FlagsRead' /\ Progressed(todo, merged, start.files, PathsOf(temp.file))'
        BY <2>1, <2>2, Zenon DEF FlagsRead
      <3> QED
        BY <1>1, <2>1, <2>5, <3>6, <3>7, Zenon DEF StartInv
    <2> QED
      BY <2>3, <2>4, <2>5, Zenon
  <1> QED
    BY <1>2, <1>3, <1>4, Zenon DEF ConfigNext

-----------------------------------------------------------------------------
(* What a process that is ready works with. *)

\* What the flags say is what parse_startup_flags has put aside.
LEMMA FlagsApplied ==
    ASSUME start \in Starts, FlagsRead, NEW set, NEW s \in Setting
    PROVE  IF FlagSays(s) # {} THEN Applied(temp, set)[s] \in FlagSays(s) ELSE Applied(temp, set)[s] = set[s]
  <1> DEFINE flags == start.flags
             n == Len(start.flags)
             args == [k \in 1 .. n |-> flags[k].arg]
             levels == [k \in 1 .. n |-> LevelOf(flags, k)]
             E == LastIn(flags, n, {"e"})
             P == LastIn(flags, n, {"p"})
             V == LastIn(flags, n, {"v", "verbose"})
             a == Applied(temp, set)[s]
  <1>1. start.rocto \in BOOLEAN /\ DOMAIN flags = 1 .. n /\ n \in Nat
    BY StartAssumption, Zenon
  <1>2. \A opts : LastFlag(opts) = LastIn(flags, n, opts)
    BY <1>1, Zenon DEF LastFlag, LastIn
  <1>3. /\ SaidBy(temp.emulate, "unset", Emulations, E, args)
        /\ IF start.rocto THEN SaidBy(temp.port, "unset", Ports, P, args) ELSE temp.port = "unset"
        /\ SaidBy(temp.verbosity, 5, 1 .. 4, V, levels)
    BY Zenon DEF FlagsRead, Heard
  <1>4. (\A k \in E : k \in 1 .. n) /\ (\A k \in P : k \in 1 .. n) /\ (\A k \in V : k \in 1 .. n)
    BY LastRange, Zenon
  <1>5. \A k \in 1 .. n : args[k] = flags[k].arg /\ levels[k] = LevelOf(flags, k)
    BY Zenon
  <1> HIDE DEF args, levels, E, P, V, n
  <1>6. CASE s = "emulate"
    <2>1. FlagSays(s) = {flags[k].arg : k \in E}
      BY <1>2, <1>6, Zenon DEF FlagSays, E, n
    <2>2. a = IF temp.emulate # "unset" THEN temp.emulate ELSE set[s]
      BY <1>6, Zenon DEF Applied
    <2>3. CASE E = {}
      BY <1>3, <2>1, <2>2, <2>3, Zenon DEF SaidBy
    <2>4. CASE E # {}
      <3>1. PICK k \in E : TRUE
        BY <2>4, Zenon
      <3>2. temp.emulate \in Emulations /\ temp.emulate = flags[k].arg
        BY <1>3, <1>4, <1>5, <2>4, <3>1, Zenon DEF SaidBy
      <3>3. temp.emulate # "unset"
        BY <3>2, Zenon DEF Emulations
      <3> QED
        BY <2>1, <2>2, <3>1, <3>2, <3>3, Zenon
    <2> QED
      BY <2>3, <2>4, Zenon
  <1>7. CASE s = "datestyle"
    <2>1. FlagSays(s) = {DefaultDatestyle : k \in E}
      BY <1>2, <1>7, Zenon DEF FlagSays, E, n
    <2>2. a = IF temp.emulate # "unset" THEN DefaultDatestyle ELSE set[s]
      BY <1>7, Zenon DEF Applied
    <2>3. CASE E = {}
      BY <1>3, <2>1, <2>2, <2>3, Zenon DEF SaidBy
    <2>4. CASE E # {}
      <3>1. temp.emulate # "unset"
        BY <1>3, <2>4, Zenon DEF SaidBy, Emulations
      <3> QED
        BY <2>1, <2>2, <2>4, <3>1, Zenon
    <2> QED
      BY <2>3, <2>4, Zenon
  <1>8. CASE s = "rocto.port"
    <2>1. FlagSays(s) = IF start.rocto THEN {flags[k].arg : k \in P} ELSE {}
      BY <1>2, <1>8, Zenon DEF FlagSays, P, n
    <2>2. a = IF temp.port # "unset" THEN temp.port ELSE set[s]
      BY <1>8, Zenon DEF Applied
    <2>3. CASE ~start.rocto \/ P = {}
      BY <1>3, <2>1, <2>2, <2>3, Zenon DEF SaidBy
    <2>4. CASE start.rocto /\ P # {}
      <3>1. PICK k \in P : TRUE
        BY <2>4, Zenon
      <3>2. temp.port \in Ports /\ temp.port = flags[k].arg
        BY <1>3, <1>4, <1>5, <2>4, <3>1, Zenon DEF SaidBy
      <3>3. temp.port # "unset"
        BY <3>2, Zenon DEF Ports
      <3> QED
        BY <2>1, <2>2, <2>4, <3>1, <3>2, <3>3, Zenon
    <2> QED
      BY <2>3, <2>4, Zenon
  <1>9. CASE s = "verbosity"
    <2> DEFINE W(k) == IF flags[k].opt = "verbose" THEN Levels[4 - flags[k].arg]
                       ELSE Levels[IF Cardinality(Vs(flags, k)) < 4 THEN 4 - Cardinality(Vs(flags, k)) ELSE 1]
    <2>1. FlagSays(s) = {W(k) : k \in V}
      BY <1>2, <1>9, Zenon DEF FlagSays, V, n, Vs
    <2>2. a = IF temp.verbosity <= 4 THEN Levels[temp.verbosity] ELSE set[s]
      BY <1>9, Zenon DEF Applied
    <2>3. \A k \in V : W(k) = Levels[levels[k]]
      BY <1>4, <1>5, Zenon DEF LevelOf, Lower
    <2> HIDE DEF W
    <2>4. CASE V = {}
      <3>1. temp.verbosity = 5 /\ ~(5 <= 4)
        BY <1>3, <2>4, SMT DEF SaidBy
      <3> QED
        BY <2>1, <2>2, <2>4, <3>1, Zenon
    <2>5. CASE V # {}
      <3>1. PICK k \in V : TRUE
        BY <2>5, Zenon
      <3>2. temp.verbosity \in 1 .. 4 /\ temp.verbosity = levels[k]
        BY <1>3, <2>5, <3>1, Zenon DEF SaidBy
      <3>3. temp.verbosity <= 4
        BY <3>2, SMT
      <3>4. a = W(k)
        BY <2>2, <2>3, <3>1, <3>2, <3>3, Zenon
      <3> QED
        BY <2>1, <3>1, <3>4, Zenon
    <2> QED
      BY <2>4, <2>5, Zenon
  <1>10. CASE s \notin {"emulate", "datestyle", "rocto.port", "verbosity"}
    <2>1. FlagSays(s) = {}
      BY <1>10, Zenon DEF FlagSays
    <2>2. a = set[s]
      BY <1>10, Zenon DEF Applied
    <2> QED
      BY <2>1, <2>2, Zenon
  <1> QED
    BY <1>6, <1>7, <1>8, <1>9, <1>10, Zenon

\* Without a flag for the port, it is marked as not given.
LEMMA NoPortFlag ==
    ASSUME start \in Starts, FlagsRead, FlagSays("rocto.port") = {}
    PROVE  FlagPort(temp) = Unset("rocto.port")
  <1> DEFINE n == Len(start.flags)
             args == [k \in 1 .. n |-> start.flags[k].arg]
             P == LastIn(start.flags, n, {"p"})
  <1>1. start.rocto \in BOOLEAN /\ DOMAIN start.flags = 1 .. n
    BY StartAssumption, Zenon
  <1>2. LastFlag({"p"}) = P
    BY <1>1, Zenon DEF LastFlag, LastIn
  <1>3. IF start.rocto THEN SaidBy(temp.port, "unset", Ports, P, args) ELSE temp.port = "unset"
    BY Zenon DEF FlagsRead, Heard
  <1>4. FlagSays("rocto.port") = IF start.rocto THEN {start.flags[k].arg : k \in LastFlag({"p"})} ELSE {}
    BY Zenon DEF FlagSays
  <1> HIDE DEF P, args, n
  <1>5. ~start.rocto \/ P = {}
    BY <1>1, <1>2, <1>4, Zenon
  <1>6. temp.port = "unset"
    BY <1>3, <1>5, Zenon DEF SaidBy
  <1> QED
    BY <1>6, Zenon DEF FlagPort, Unset

\* What is read from the merged file is what the first file says.
LEMMA FirstFileWins ==
    ASSUME GivenBy(merged, start.files, Paths, Len(Paths)), NEW t, NEW set, SetFrom(t, set, merged), NEW s \in Setting,
           Len(Paths) \in Nat, DOMAIN Paths = 1 .. Len(Paths)
    PROVE  LET said == {start.files[Paths[i]].set[s] : i \in FirstSaying(s)} \cap Valid[s]
           IN  IF said # {} THEN set[s] \in said ELSE set[s] = Base(t, s)
  <1> DEFINE n == Len(Paths)
             val(i) == start.files[Paths[i]].set[s]
             said == {val(i) : i \in FirstSaying(s)} \cap Valid[s]
             who == {i \in 1 .. n : Says(Paths[i], s)}
  <1>1. s \in DOMAIN merged <=> who # {}
    BY Zenon DEF GivenBy, Says
  <1>2. \A i \in FirstSaying(s) : merged[s] = val(i)
    BY Zenon DEF GivenBy, Says, FirstSaying
  <1>3. who # {} => FirstSaying(s) # {}
    <2> SUFFICES ASSUME who # {} PROVE FirstSaying(s) # {}
      BY Zenon
    <2>1. who \subseteq Nat
      BY SMT
    <2>2. PICK i \in who : \A j \in who : i <= j
      BY <2>1, NatMin, Zenon
    <2>3. i \in 1 .. n /\ Says(Paths[i], s)
      BY Zenon
    <2>4. \A j \in 1 .. (i - 1) : j \in 1 .. n /\ ~(i <= j)
      BY <2>3, SMT
    <2>5. i \in FirstSaying(s)
      BY <2>2, <2>3, <2>4, Zenon DEF FirstSaying
    <2> QED
      BY <2>5, Zenon
  <1>4. FirstSaying(s) # {} => who # {}
    BY Zenon DEF FirstSaying
  <1>5. set[s] = IF s \in DOMAIN merged /\ merged[s] \in Valid[s] THEN merged[s] ELSE Base(t, s)
    BY Zenon DEF SetFrom, Says1
  <1>6. IF said # {} THEN set[s] \in said ELSE set[s] = Base(t, s)
    <2> HIDE DEF val, who
    <2>1. CASE s \in DOMAIN merged /\ merged[s] \in Valid[s]
      <3>1. PICK i \in FirstSaying(s) : TRUE
        BY <1>1, <1>3, <2>1, Zenon
      <3>2. merged[s] \in said
        BY <1>2, <2>1, <3>1, Zenon
      <3> QED
        BY <1>5, <2>1, <3>2, Zenon
    <2>2. CASE ~(s \in DOMAIN merged /\ merged[s] \in Valid[s])
      <3>1. said = {}
        BY <1>1, <1>2, <1>4, <2>2, Zenon
      <3> QED
        BY <1>5, <2>2, <3>1, Zenon
    <2> QED
      BY <2>1, <2>2, Zenon
  <1> QED
    BY <1>6, Zenon

LEMMA Configured == StartInv => StartsAsConfigured
  <1> SUFFICES ASSUME StartInv, pc = "ready"
               PROVE  StartsAsConfigured
    BY Zenon DEF StartsAsConfigured, SettingsPrecedence, PlanDirs
  <1>1. start \in Starts /\ FlagsRead /\ todo = <<>> /\ Final(start.env, temp, config, merged)
    BY Zenon DEF StartInv
  <1>2. Paths = PathsOf(temp.file)
    BY Zenon DEF Paths, PathsOf
  <1>3. Paths \in Seq(FilePath) /\ Len(Paths) \in Nat
    BY <1>2, PathsType, Zenon
  <1>4. DOMAIN Paths = 1 .. Len(Paths)
    BY <1>3
  <1>5. GivenBy(merged, start.files, Paths, Len(Paths))
    <2>1. PICK k \in 0 .. Len(Paths) : todo = SubSeq(Paths, k + 1, Len(Paths)) /\ GivenBy(merged, start.files, Paths, k)
      BY <1>2, Zenon DEF StartInv, Progressed
    <2>2. k = Len(Paths)
      BY <1>1, <1>3, <2>1, Suffix, Zenon
    <2> QED
      BY <2>1, <2>2, Zenon
  <1>6. PICK set : SetFrom(temp, set, merged) /\ config.set = Applied(temp, set)
    BY <1>1, Zenon DEF Final
  <1>7. ASSUME NEW s \in Setting
        PROVE  LET said == {start.files[Paths[i]].set[s] : i \in FirstSaying(s)} \cap Valid[s]
               IN  config.set[s] \in (IF FlagSays(s) # {} THEN FlagSays(s) ELSE IF said # {} THEN said ELSE {Unset(s)})
    <2> DEFINE said == {start.files[Paths[i]].set[s] : i \in FirstSaying(s)} \cap Valid[s]
    <2>1. IF FlagSays(s) # {} THEN config.set[s] \in FlagSays(s) ELSE config.set[s] = set[s]
      BY <1>1, <1>6, FlagsApplied, Zenon
    <2>2. IF said # {} THEN set[s] \in said ELSE set[s] = Base(temp, s)
      BY <1>3, <1>4, <1>5, <1>6, FirstFileWins, Zenon
    <2> HIDE DEF said
    <2>3. FlagSays(s) = {} => Base(temp, s) = Unset(s)
      BY <1>1, NoPortFlag, Zenon DEF Base
    <2>4. config.set[s] \in (IF FlagSays(s) # {} THEN FlagSays(s) ELSE IF said # {} THEN said ELSE {Unset(s)})
      BY <2>1, <2>2, <2>3, Zenon
    <2> QED
      BY <2>4, Zenon DEF said
  <1>8. SettingsPrecedence
    BY <1>1, <1>7, Zenon DEF SettingsPrecedence, Final
  <1>9. PlanDirs
    <2> DEFINE z == config.zroutines
    <2>1. PICK i \in DOMAIN z : FirstDir(z, i) /\ z[i].name = config.src /\ ObjectOf(z, i, config.obj)
      BY <1>1, Zenon DEF Final, ReadDirs, Dirs
    <2>2. /\ Stat[config.src] = "dir" /\ ~z[i].obj
          /\ \A k \in 1 .. (i - 1) : z[k].obj \/ z[k].name = "" \/ Stat[z[k].name] # "dir"
      BY <2>1, Zenon DEF FirstDir, IsDir, Source
    <2>3. /\ \A j \in {j \in 1 .. (i - 1) : z[j].obj /\ \A k \in j .. (i - 1) : ~z[k].close} : config.obj = z[j].name
          /\ (\A j \in 1 .. (i - 1) : ~z[j].obj) => config.obj = config.src
      BY <2>1, Zenon DEF ObjectOf, Opens
    <2> QED
      BY <2>1, <2>2, <2>3, Zenon DEF PlanDirs
  <1> QED
    BY <1>8, <1>9, Zenon DEF StartsAsConfigured

\* Whatever flags and files octo and rocto are started with, and however many, a
\* process that is ready has the settings they say and the first directory of
\* $zroutines for its plans (octo_init, parse_startup_flags).
THEOREM StartsConfigured == Spec => []StartsAsConfigured
<1>1. Init => StartInv
  BY StartInvInit, Zenon DEF Init
<1>2. StartInv /\ [Next]_vars => StartInv'
  <2> SUFFICES ASSUME StartInv, [Next]_vars PROVE StartInv'
    BY Zenon
  <2>1. ASSUME UNCHANGED cvars PROVE StartInv'
    BY <2>1, Zenon DEF cvars, StartInv, FlagsRead
  <2>2. ConfigNext \/ UNCHANGED cvars
    <3>1. ASSUME Listen PROVE UNCHANGED cvars
      BY <3>1, Zenon DEF Listen, StartListening, LoopHead, RegisterKey, RegisterTime, Join
    <3>2. ASSUME Accept \/ AcceptFails \/ RegisterFails \/ HandleSigint \/ HelperWait PROVE UNCHANGED cvars
      BY <3>2, Zenon DEF Accept, AcceptFails, RegisterFails, HandleSigint, HelperWait
    <3>3. ASSUME NEW p \in Pid, Sends(p) PROVE Only
      BY <3>3, Zenon DEF Sends, SslRequest, NoSslRequest, Kill, Startup, BadStartup, Password, BadPasswordMessage,
                         PasswordRefused, GetUserPermissions, CancelRequest
    <3>4. ASSUME NEW p \in Pid, ServerEnds(p) \/ OtherProgram(p) \/ OtherProgramEnds(p) PROVE UNCHANGED cvars
      BY <3>4, Zenon DEF ServerEnds, OtherProgram, OtherProgramEnds, Only
    <3>5. Only => UNCHANGED cvars
      BY Zenon DEF Only
    <3>6. UNCHANGED vars => UNCHANGED cvars
      BY Zenon DEF vars
    <3> QED
      BY <3>1, <3>2, <3>3, <3>4, <3>5, <3>6, Zenon DEF Next
  <2> QED
    BY <2>1, <2>2, StartInvStep, Zenon
<1> QED
  BY <1>1, <1>2, Configured, PTL DEF Spec
=============================================================================
