------------------------------ MODULE Listener ------------------------------
(***************************************************************************)
(* rocto after octo_init: main() of rocto.c, the helper thread of          *)
(* rocto_helper_waitpid.c, handle_cancel_request.c, get_pid_start_time.c   *)
(* and the readers of the first messages of a connection.                  *)
(*                                                                         *)
(* The listener forks a server for every connection and then registers it  *)
(* in %ydboctoSecretKeyList: the key under the pid, the start time under   *)
(* (pid,"timestamp").  A server has the list as it was when it was forked. *)
(* A connection is a session or a cancel request, which names a pid and a  *)
(* key; the server of a cancel request signals that pid when the list and  *)
(* the start time of the process say that it is the server with that key.  *)
(* Entries are never removed from the listener's list, and pids are reused *)
(* by other servers and by other programs.                                 *)
(***************************************************************************)
EXTENDS Config

CONSTANTS
    Pid,          \* the process ids
    MaxTime,      \* how many processes are started (start times are 1, 2, ...)
    MaxFaults     \* how many system or database calls fail

ASSUME ListenerAssumption ==
    Pid \subseteq Nat \ {0} /\ MaxTime \in Nat /\ MaxFaults \in Nat

VARIABLES
    lpc,       \* the listener: "off", "head", "accept", "setkey", "settime", "join", "exited"
    child,     \* child_id and secret_key
    ending,    \* session_ending
    helper,    \* the thread that waits for the servers: "off", "wait" or "done"
    keys,      \* the listener's %ydboctoSecretKeyList
    procs,     \* the processes by pid
    given,     \* the pairs of pid and key sent in BackendKeyData messages
    clock,     \* the last start time
    faults

lvars == <<lpc, child, ending, helper, keys, procs, given, clock, faults>>
vars == <<cvars, lvars>>

\* No node under a pid, or only its key: $DATA is not 11.
NoEntry == [key |-> 0, time |-> 0]
NoPair == [pid |-> 0, key |-> 0]
Free == [pc |-> "free", born |-> 0, key |-> 0, tls |-> "off", list |-> [q \in Pid |-> NoEntry],
         target |-> 0, lost |-> FALSE]
Server == {"start", "first", "password", "permissions", "loop", "kill"}
Servers == {p \in Pid : procs[p].pc \in Server}

On(s) == config.set[s] = "true"
Fault == faults < MaxFaults /\ faults' = faults + 1

ListenerInit ==
    /\ lpc = "off" /\ child = NoPair /\ ending = FALSE /\ helper = "off"
    /\ keys = [p \in Pid |-> NoEntry]
    /\ procs = [p \in Pid |-> Free]
    /\ given = {} /\ clock = 0 /\ faults = 0

Init == ConfigInit /\ ListenerInit

-----------------------------------------------------------------------------
(* The listener *)

\* Signal handlers, the address, the socket, the helper thread and listen();
\* FATAL ends the process when one of them fails.
StartListening ==
    /\ pc = "ready" /\ start.rocto /\ lpc = "off"
    /\ \/ lpc' = "head" /\ helper' = "wait" /\ UNCHANGED faults
       \/ lpc' = "exited" /\ Fault /\ UNCHANGED helper
    /\ UNCHANGED <<cvars, child, ending, keys, procs, given, clock>>

LoopHead ==
    /\ lpc = "head"
    /\ lpc' = IF ending THEN "join" ELSE "accept"
    /\ UNCHANGED <<cvars, child, ending, helper, keys, procs, given, clock, faults>>

NewServer(list) ==
    [Free EXCEPT !.pc = "start", !.born = clock + 1, !.key = clock + 1, !.list = list]

\* accept(), getrandom() and fork().  The key is random; no two are the same.
Accept ==
    /\ lpc = "accept" /\ clock < MaxTime
    /\ clock' = clock + 1
    /\ \E p \in Pid :
          /\ procs[p].pc = "free"
          /\ child' = [pid |-> p, key |-> clock + 1]
          /\ procs' = [procs EXCEPT ![p] = NewServer(keys)]
    /\ lpc' = "setkey"
    /\ UNCHANGED <<cvars, ending, helper, keys, given, faults>>

\* accept() or fork() fails: the loop ends, session_ending is not set.
AcceptFails ==
    /\ lpc = "accept" /\ Fault
    /\ lpc' = "join"
    /\ UNCHANGED <<cvars, child, ending, helper, keys, procs, given, clock>>

RegisterKey ==
    /\ lpc = "setkey"
    /\ keys' = [keys EXCEPT ![child.pid].key = child.key]
    /\ lpc' = "settime"
    /\ UNCHANGED <<cvars, child, ending, helper, procs, given, clock, faults>>

\* get_pid_start_time: 0 when the helper thread has reaped the process.
StartTime(p) == procs[p].born

RegisterTime_skips ==
    /\ lpc = "settime"
    /\ lpc' = "head" /\ child' = NoPair
    /\ UNCHANGED <<cvars, ending, helper, keys, procs, given, clock, faults>>
RegisterTime ==
    /\ lpc = "settime"
    /\ keys' = IF StartTime(child.pid) = 0 THEN keys
               ELSE [keys EXCEPT ![child.pid].time = StartTime(child.pid)]
    /\ lpc' = "head" /\ child' = NoPair
    /\ UNCHANGED <<cvars, ending, helper, procs, given, clock, faults>>

\* ydb_set_s() of the key or of the time, or get_pid_start_time(), fails.
RegisterFails ==
    /\ lpc \in {"setkey", "settime"} /\ Fault
    /\ procs' = [procs EXCEPT ![child.pid].lost = procs[child.pid].born # 0]
    /\ lpc' = "head" /\ child' = NoPair
    /\ UNCHANGED <<cvars, ending, helper, keys, given, clock>>

\* SIGINT: accept() fails with EINTR and the loop ends, unless the signal
\* comes before the call, which then waits for the next connection.
HandleSigint ==
    /\ lpc \in {"head", "accept", "setkey", "settime"} /\ ~ending
    /\ ending' = TRUE
    /\ lpc' \in (IF lpc = "accept" THEN {"accept", "join"} ELSE {lpc})
    /\ UNCHANGED <<cvars, child, helper, keys, procs, given, clock, faults>>

\* close() and pthread_join().
Join ==
    /\ lpc = "join" /\ helper = "done"
    /\ lpc' = "exited"
    /\ UNCHANGED <<cvars, child, ending, helper, keys, procs, given, clock, faults>>

HelperWait_forever ==
    /\ helper = "wait"
    /\ \E p \in Pid : procs[p].pc = "zombie" /\ procs' = [procs EXCEPT ![p] = Free]
    /\ UNCHANGED <<cvars, lpc, child, ending, helper, keys, given, clock, faults>>
\* wait() returns a server that ended, or there is no server; then the loop
\* looks at session_ending.
HelperWait ==
    /\ helper = "wait"
    /\ \/ \E p \in Pid : procs[p].pc = "zombie" /\ procs' = [procs EXCEPT ![p] = Free]
       \/ (\A p \in Pid : procs[p].pc \in {"free", "other"}) /\ UNCHANGED procs
    /\ helper' = IF ending THEN "done" ELSE "wait"
    /\ UNCHANGED <<cvars, lpc, child, ending, keys, given, clock, faults>>

-----------------------------------------------------------------------------
(* A server *)

\* What is left of a server that ended, until the helper thread reaps it.
Ended(p) == [Free EXCEPT !.pc = "zombie", !.born = procs[p].born, !.key = procs[p].key]
Only == UNCHANGED <<cvars, lpc, child, ending, helper, keys, clock, faults>>

\* A client asks for TLS: "S" and the handshake, which may go wrong without
\* the server noticing, or "N" and no encryption.
SslRequest(p) ==
    /\ procs[p].pc = "start"
    /\ \E t \in (IF On("rocto.ssl_on") THEN {"on", "broken"} ELSE {"off"}) :
          procs' = [procs EXCEPT ![p].tls = t, ![p].pc = "first"]
    /\ Only /\ UNCHANGED given

NoSslRequest(p) ==
    /\ procs[p].pc = "start"
    /\ procs' = [procs EXCEPT ![p] = IF On("rocto.ssl_required") THEN Ended(p) ELSE [@ EXCEPT !.pc = "first"]]
    /\ Only /\ UNCHANGED given

Confirmed_no_time(p, q, key) ==
    LET e == procs[p].list[q]
    IN  e.key # 0 /\ e.time # 0 /\ procs[q].born # 0 /\ key = e.key
\* The checks of handle_cancel_request.
Confirmed(p, q, key) ==
    LET e == procs[p].list[q]
    IN  /\ e.key # 0 /\ e.time # 0                               \* $DATA is 11
        /\ StartTime(q) # 0 /\ StartTime(q) = e.time
        /\ key = e.key

CancelRequest(p, q, key) ==
    /\ procs[p].pc = "first" /\ procs[p].tls # "broken"
    /\ procs' = [procs EXCEPT ![p] = IF Confirmed(p, q, key) THEN [@ EXCEPT !.pc = "kill", !.target = q]
                                     ELSE Ended(p)]
    /\ Only /\ UNCHANGED given

\* kill(), shutdown() and the end of the server.
Kill(p) ==
    /\ procs[p].pc = "kill"
    /\ procs' = [procs EXCEPT ![p] = Ended(p)]
    /\ Only /\ UNCHANGED given

\* The list is cleared but for the server's own key; a startup message with a
\* parameter list is answered by AuthenticationMD5Password.
Startup(p) ==
    /\ procs[p].pc = "first" /\ procs[p].tls # "broken"
    /\ procs' = [procs EXCEPT ![p].list = [q \in Pid |-> IF q = p THEN [key |-> procs[p].key, time |-> 0]
                                                         ELSE NoEntry],
                              ![p].pc = "password"]
    /\ Only /\ UNCHANGED given

\* read_startup_message finds another version, no user or a message that is
\* cut off; so it does with what is in the buffer after a broken handshake.
BadStartup(p) ==
    /\ procs[p].pc = "first"
    /\ procs' = [procs EXCEPT ![p] = Ended(p)]
    /\ Only /\ UNCHANGED given

\* read_password_message and handle_password_message refuse: no md5 password,
\* no user, a user that is not there or another hash.
BadPasswordMessage(p) ==
    /\ procs[p].pc = "password"
    /\ procs' = [procs EXCEPT ![p] = Ended(p)]
    /\ Only /\ UNCHANGED given
PasswordRefused(p) == BadPasswordMessage(p)

\* The password is right: AuthenticationOk, the parameters of the startup
\* message and all others, BackendKeyData.
Password(p) ==
    /\ procs[p].pc = "password"
    /\ given' = given \cup {[pid |-> p, key |-> procs[p].key]}
    /\ procs' = [procs EXCEPT ![p].pc = "permissions"]
    /\ Only

\* get_user_permissions finds no permissions of the user, or the session
\* starts: rocto_main_loop.
GetUserPermissions(p) ==
    /\ procs[p].pc = "permissions"
    /\ procs' = [procs EXCEPT ![p] = Ended(p)] \/ procs' = [procs EXCEPT ![p].pc = "loop"]
    /\ Only /\ UNCHANGED given

\* The client leaves, or a call fails: the server ends.
ServerEnds(p) ==
    /\ procs[p].pc \in Server
    /\ procs' = [procs EXCEPT ![p] = Ended(p)]
    /\ Only /\ UNCHANGED given

-----------------------------------------------------------------------------
(* Around rocto *)

\* Another program gets a free pid.  The kernel goes through all the other
\* pids before it uses one again, so it is not the pid that the listener is
\* just registering, nor the one that a server is about to signal.
OtherProgram(p) ==
    /\ procs[p].pc = "free" /\ clock < MaxTime /\ lpc \notin {"off", "join", "exited"}
    /\ lpc \in {"setkey", "settime"} => child.pid # p
    /\ \A q \in Pid : procs[q].pc = "kill" => procs[q].target # p
    /\ clock' = clock + 1
    /\ procs' = [procs EXCEPT ![p] = [Free EXCEPT !.pc = "other", !.born = clock + 1]]
    /\ UNCHANGED <<cvars, lpc, child, ending, helper, keys, given, faults>>

OtherProgramEnds(p) ==
    /\ procs[p].pc = "other"
    /\ procs' = [procs EXCEPT ![p] = Free]
    /\ Only /\ UNCHANGED given

-----------------------------------------------------------------------------
Sends(p) ==
    \/ SslRequest(p) \/ NoSslRequest(p) \/ Kill(p)
    \/ Startup(p) \/ BadStartup(p) \/ Password(p) \/ BadPasswordMessage(p) \/ PasswordRefused(p)
    \/ GetUserPermissions(p)
    \/ \E g \in given, q \in Pid : CancelRequest(p, q, g.key)

Listen ==
    \/ StartListening \/ LoopHead \/ RegisterKey \/ RegisterTime \/ Join

Next ==
    \/ ConfigNext /\ UNCHANGED lvars
    \/ Listen \/ Accept \/ AcceptFails \/ RegisterFails \/ HandleSigint \/ HelperWait
    \/ \E p \in Pid : Sends(p) \/ ServerEnds(p) \/ OtherProgram(p) \/ OtherProgramEnds(p)

\* The listener and the helper thread go on as long as they are not blocked.
\* Nothing is assumed of the clients: there may be no connection to accept,
\* and a server may wait for ever.
Spec == Init /\ [][Next]_vars /\ WF_vars(Listen) /\ WF_vars(HelperWait)

-----------------------------------------------------------------------------
(* Properties *)

\* With rocto.ssl_required no password, no session and no cancel request goes
\* over a connection that is not encrypted, whatever the files that said so
\* and whatever the client asks for: octo_init refuses ssl_required without
\* ssl_on, so that the answer "N" of main() cannot be given.
TlsWhenRequired ==
    \A p \in Servers :
        (procs[p].pc \in {"password", "permissions", "loop", "kill"} /\ On("rocto.ssl_required")) => procs[p].tls = "on"

Asking == {p \in Servers : procs[p].pc = "first" /\ procs[p].tls # "broken"}

\* handle_cancel_request goes on to kill() only if, at that moment, the pid is
\* that of the server to which the key belongs: not of an earlier or a later
\* server, nor of another program that has the pid by now.
CancelConfirmsOwner ==
    \A p \in Asking, q \in Pid, g \in given : Confirmed(p, q, g.key) => procs[q].key = g.key

\* A cancel request with the pair that a running session was sent reaches it,
\* if its connection was accepted after that of the session (a cancel request
\* on an older connection does not: its server has an older list).  The list
\* that the server was forked with has the session's key and start time
\* unless the calls that register them failed.
CancelFindsSession ==
    \A p \in Asking, q \in Servers :
        (procs[q].pc = "loop" /\ ~procs[q].lost /\ procs[q].born < procs[p].born) =>
            Confirmed(p, q, procs[q].key)

\* A cancel request signals the server of the session it was sent to, and no
\* other process (handle_cancel_request).
CancelReachesOwner == CancelConfirmsOwner /\ CancelFindsSession

\* After SIGINT the listener ends once no server is left, unless the signal
\* came before accept(), which then waits for a connection.
ListenerStops ==
    <>[](Servers = {}) => (ending ~> lpc \in {"exited", "accept"})
=============================================================================
