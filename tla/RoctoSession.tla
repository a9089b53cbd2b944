---------------------------- MODULE RoctoSession -----------------------------
(***************************************************************************)
(* One client connection of rocto: the loop of rocto_main_loop.c and the   *)
(* handlers it calls (handle_query.c, handle_parse.c, handle_bind.c,       *)
(* handle_describe.c, handle_execute.c, send_result_rows.c), with prepared *)
(* statements, portals, cursors, row limits, pipelined messages and cancel *)
(* requests.                                                               *)
(*                                                                         *)
(* A result is the sequence of its row numbers 1..n.  Statements, portals  *)
(* and queries are names; what a handler tells apart of a query is its     *)
(* Kind.  Cursor numbers are reused once nothing refers to them.           *)
(***************************************************************************)
EXTENDS Integers, Sequences, FiniteSets

CONSTANTS
    Stmt,       \* names of prepared statements
    Portal,     \* names of portals
    NoPortal,
    Query,      \* SQL texts
    NoQuery,
    Kind,       \* what run_query makes of each
    Clients,    \* what a client may do: the queries it sends, the row limits in its
                \* Execute messages (0 for no limit), whether cancel requests
                \* arrive, and a bound on the rows of its results
    MaxRows,    \* bound: rows of a result
    MaxCursor,  \* bound: cursors at a time
    MaxInbox    \* bound: messages sent and not yet read

\* "limited" SELECT: the parser has added a LIMIT parameter
\* "rows"    VALUES and set operations: select_STATEMENT without that parameter
\* "update"  INSERT, UPDATE, DELETE
\* "set"     SET and SHOW: no plan, done by Execute
\* "ddl"     no plan, done by Parse; DROP and DISCARD run M code
Kinds == {"limited", "rows", "update", "set", "ddl"}
HasPlan(q) == Kind[q] \in {"limited", "rows", "update"}

ASSUME SessionAssumption ==
    /\ NoPortal \notin Portal /\ NoQuery \notin Query
    /\ Kind \in [Query -> Kinds]
    /\ Clients \subseteq [queries : SUBSET Query, limits : SUBSET Nat,
                     cancels : BOOLEAN, rows : 0..MaxRows]
    /\ MaxRows \in Nat /\ MaxCursor \in Nat \ {0} /\ MaxInbox \in Nat \ {0}

Cursor == 1..MaxCursor
NoCursor == 0    \* cursorId is -1
Unset == -2      \* rows_remaining of a portal is undefined

Messages(c) ==
    [type : {"Parse"}, stmt : Stmt, query : c.queries]
    \cup [type : {"Bind"}, portal : Portal, stmt : Stmt]
    \cup [type : {"DescribeStmt"}, stmt : Stmt]
    \cup [type : {"DescribePortal"}, portal : Portal]
    \cup [type : {"Execute"}, portal : Portal, limit : c.limits]
    \cup [type : {"Query"}, query : c.queries]
    \cup [type : {"Sync", "Flush", "Terminate"}]

VARIABLES
    client,       \* which of Clients is connected
    inbox,        \* messages on the socket
    pc,           \* "select": about to look for input, "read", "closed"
    sendReady,    \* send_ready_for_query
    extError,     \* extended_query_error
    cursorId,
    prepared,     \* the query of each prepared statement
    portal,       \* [query, remaining] of each portal
    cursor,       \* of each cursor: the portal that ran the plan, the query, the
                  \* number of rows of its result and (history) the last one sent
    signal,       \* a SIGUSR2 waits for M code to run
    canceled,     \* %ydboctoCancel is set
    reply,        \* the message sent; for an Execute also its portal and what
                  \* it has sent of which result
    exchange,     \* history: in an extended query exchange that Sync has not ended
    owed          \* history: the last Sync has not been answered by ReadyForQuery

loopVars == <<sendReady, extError, cursorId>>
stmtVars == <<prepared, portal>>
cancelVars == <<signal, canceled>>
vars == <<client, inbox, pc, loopVars, stmtVars, cursor, cancelVars, reply, exchange, owed>>

Free == [owner |-> NoPortal, query |-> NoQuery, rows |-> 0, sent |-> 0]
Unbound == [query |-> NoQuery, remaining |-> Unset]
Live == {c \in Cursor : cursor[c].owner # NoPortal}
Plain(t) == [type |-> t, portal |-> NoPortal, result |-> Free, first |-> 0]

Init ==
    /\ client \in Clients
    /\ inbox = <<>> /\ pc = "select"
    /\ sendReady = TRUE /\ extError = FALSE /\ cursorId = NoCursor
    /\ prepared = [s \in Stmt |-> NoQuery]
    /\ portal = [p \in Portal |-> Unbound]
    /\ cursor = [c \in Cursor |-> Free]
    /\ signal = FALSE /\ canceled = FALSE
    /\ reply = Plain("none") /\ exchange = FALSE /\ owed = FALSE

-----------------------------------------------------------------------------
(* The client.                                                               *)

Send(m) ==
    /\ pc # "closed" /\ Len(inbox) < MaxInbox
    /\ inbox' = Append(inbox, m)
    /\ UNCHANGED <<pc, loopVars, stmtVars, cursor, cancelVars, reply, exchange, owed>>

\* A cancel request on another connection ends in a SIGUSR2 to this process.
CancelRequest ==
    /\ client.cancels /\ pc # "closed" /\ ~signal
    /\ signal' = TRUE
    /\ UNCHANGED <<inbox, pc, loopVars, stmtVars, cursor, canceled, reply, exchange, owed>>

-----------------------------------------------------------------------------
(* The top of the loop: ReadyForQuery is sent when select() finds no input.  *)

SelectInput ==
    /\ pc = "select"
    /\ pc' = "read"
    /\ IF inbox = <<>> /\ sendReady
       THEN reply' = Plain("ready") /\ owed' = FALSE
       ELSE reply' = Plain("none") /\ owed' = owed
    /\ UNCHANGED <<inbox, loopVars, stmtVars, cursor, cancelVars, exchange>>

\* read_message finds the socket closed
Disconnect ==
    /\ pc = "read" /\ inbox = <<>>
    /\ pc' = "closed"
    /\ UNCHANGED <<inbox, loopVars, stmtVars, cursor, cancelVars, reply, exchange, owed>>

\* One turn of the loop: read message m, answer with reply r.
Turn(m, r) ==
    /\ pc = "read" /\ inbox # <<>> /\ m = Head(inbox)
    /\ pc' = "select"
    /\ inbox' = Tail(inbox)
    /\ reply' = r
    /\ exchange' = IF m.type = "Sync" THEN FALSE
                   ELSE exchange \/ m.type \in {"Parse", "Bind", "DescribeStmt",
                                                "DescribePortal", "Execute"}
    /\ owed' = (owed \/ m.type = "Sync")

\* After an error in an extended query exchange everything but Sync is dropped.
Discard(m) ==
    /\ Turn(m, Plain("none"))
    /\ extError /\ m.type # "Sync"
    /\ UNCHANGED <<loopVars, stmtVars, cursor, cancelVars>>

\* Mutant: Sync leaves the cursor.
SyncKeepsCursor(m) ==
    /\ Turn(m, Plain("none")) /\ m.type = "Sync"
    /\ sendReady' = TRUE /\ extError' = FALSE
    /\ UNCHANGED <<cursorId, stmtVars, cursor, cancelVars>>

\* Mutant: Sync ends the error state only.
SyncNotReady(m) ==
    /\ Turn(m, Plain("none")) /\ m.type = "Sync"
    /\ cursorId' = NoCursor /\ extError' = FALSE
    /\ UNCHANGED <<sendReady, stmtVars, cursor, cancelVars>>

\* A suspended cursor is forgotten here, not deleted.
Sync(m) ==
    /\ Turn(m, Plain("none")) /\ m.type = "Sync"
    /\ cursorId' = NoCursor /\ sendReady' = TRUE /\ extError' = FALSE
    /\ UNCHANGED <<stmtVars, cursor, cancelVars>>

Flush(m) ==
    /\ Turn(m, Plain("none")) /\ m.type = "Flush" /\ ~extError
    /\ UNCHANGED <<loopVars, stmtVars, cursor, cancelVars>>

Terminate ==
    /\ pc = "read" /\ inbox # <<>> /\ Head(inbox).type = "Terminate" /\ ~extError
    /\ pc' = "closed"
    /\ inbox' = Tail(inbox)
    /\ UNCHANGED <<loopVars, stmtVars, cursor, cancelVars, reply, exchange, owed>>

-----------------------------------------------------------------------------
(* Running M code.  SIGUSR2 is acted on when M code runs: the M code is      *)
(* abandoned and %ydboctoCancel set.                                         *)

\* What DDL, which is_query_canceled does not follow, leaves behind.
DDLStep ==
    \/ UNCHANGED cancelVars
    \/ signal /\ signal' = FALSE /\ canceled' = TRUE

\* is_query_canceled after a plan has run
Interrupted == signal \/ canceled
PlanStep == signal' = FALSE /\ canceled' = FALSE

\* A simple Query, which run_query parses and runs with a cursor of its own.
HandleQuery(m) ==
    /\ m.type = "Query" /\ ~extError
    /\ \/ Turn(m, Plain("error")) /\ UNCHANGED cancelVars
       \/ /\ HasPlan(m.query)
          /\ Turn(m, Plain(IF Interrupted THEN "canceled" ELSE "complete"))
          /\ PlanStep
       \/ /\ ~HasPlan(m.query)
          /\ Turn(m, Plain("complete"))
          /\ IF Kind[m.query] = "ddl" THEN DDLStep ELSE UNCHANGED cancelVars
    /\ UNCHANGED <<loopVars, stmtVars, cursor>>

-----------------------------------------------------------------------------
(* Parse, Bind and Describe.                                                 *)

Failed == extError' = TRUE

\* The old statement of that name is deleted first.  One that fails leaves only
\* its text, which no other handler accepts.
HandleParse(m) ==
    /\ m.type = "Parse" /\ ~extError
    /\ sendReady' = FALSE
    /\ \/ /\ Turn(m, Plain("error")) /\ Failed
          /\ prepared' = [prepared EXCEPT ![m.stmt] = NoQuery]
          /\ UNCHANGED cancelVars
       \/ /\ Turn(m, Plain("parsed")) /\ UNCHANGED extError
          /\ prepared' = [prepared EXCEPT ![m.stmt] = m.query]
          /\ IF Kind[m.query] = "ddl" THEN DDLStep ELSE UNCHANGED cancelVars
    /\ UNCHANGED <<cursorId, portal, cursor>>

\* The old portal of that name is deleted first; parameters that do not fit the
\* statement delete the new one.
HandleBind(m) ==
    /\ m.type = "Bind" /\ ~extError
    /\ \/ /\ Turn(m, Plain("error")) /\ Failed
          /\ portal' = [portal EXCEPT ![m.portal] = Unbound]
       \/ /\ prepared[m.stmt] # NoQuery
          /\ Turn(m, Plain("bound")) /\ UNCHANGED extError
          /\ portal' = [portal EXCEPT ![m.portal] =
                            [query |-> prepared[m.stmt], remaining |-> Unset]]
    /\ UNCHANGED <<sendReady, cursorId, prepared, cursor, cancelVars>>

\* A portal that does not exist is an error without an ErrorResponse.
HandleDescribe(m) ==
    /\ m.type \in {"DescribeStmt", "DescribePortal"} /\ ~extError
    /\ LET found == IF m.type = "DescribeStmt" THEN prepared[m.stmt] # NoQuery
                    ELSE portal[m.portal].query # NoQuery
       IN IF found
          THEN Turn(m, Plain("described")) /\ UNCHANGED extError
          ELSE Turn(m, Plain(IF m.type = "DescribeStmt" THEN "error" ELSE "none")) /\ Failed
    /\ UNCHANGED <<sendReady, cursorId, stmtVars, cursor, cancelVars>>

-----------------------------------------------------------------------------
(* Execute and send_result_rows.                                             *)

\* Mutant: a resumed result starts one row too late.
SendResultRowsSkips(total, rem, limit) ==
    LET max == IF limit = 0 THEN total ELSE limit
        remaining == IF rem = Unset THEN total ELSE rem
        first == IF rem = Unset THEN 1 ELSE total - rem + 2
        last == IF remaining <= max THEN total ELSE first + max - 1
        left == remaining - (last - first + 1)
    IN IF total = 0 THEN [status |-> "complete", first |-> 0, last |-> 0, left |-> rem]
       ELSE IF rem = -1 \/ first < 1   \* no such row on the cursor
       THEN [status |-> "error", first |-> 0, last |-> 0, left |-> rem]
       ELSE [status |-> IF left = 0 THEN "complete" ELSE "suspended",
             first |-> first, last |-> last, left |-> IF left = 0 THEN rem ELSE left]

\* Rows first..last of a result of total rows go to the client; rem is
\* rows_remaining of the portal.  left is what send_result_rows makes of it.
SendResultRows(total, rem, limit) ==
    LET max == IF limit = 0 THEN total ELSE limit
        remaining == IF rem = Unset THEN total ELSE rem
        first == IF rem = Unset THEN 1 ELSE total - rem
        last == IF remaining <= max THEN total ELSE first + max - 1
        left == remaining - (last - first + 1)
    IN IF total = 0 THEN [status |-> "complete", first |-> 0, last |-> 0, left |-> rem]
       ELSE IF rem = -1 \/ first < 1   \* no such row on the cursor
       THEN [status |-> "error", first |-> 0, last |-> 0, left |-> rem]
       ELSE [status |-> IF left = 0 THEN "complete" ELSE "suspended",
             first |-> first, last |-> last, left |-> IF left = 0 THEN rem ELSE left]

\* handle_query_response when a plan has run: only a SELECT sends rows.
FirstRows(q, total, rem, limit) ==
    IF Kind[q] = "update" THEN [status |-> "complete", first |-> 0, last |-> 0, left |-> rem]
    ELSE SendResultRows(total, rem, limit)

\* Mutant: missing column metadata is not an error.
MoreRowsAnyPlan(q, total, rem, limit) == SendResultRows(total, rem, limit)

\* send_result_rows on an active cursor: only a SELECT has the column metadata.
MoreRows(q, total, rem, limit) ==
    IF Kind[q] \in {"limited", "rows"} THEN SendResultRows(total, rem, limit)
    ELSE [status |-> "error", first |-> 0, last |-> 0, left |-> rem]

Answer(p, result, s) ==
    [type |-> s.status, portal |-> p, first |-> s.first,
     result |-> [result EXCEPT !.sent = IF s.last > @ THEN s.last ELSE @]]

\* Mutant: the limit of the Execute is not passed to the plan.
RowCountsUnlimited(q, limit) == IF Kind[q] = "update" THEN {0} ELSE 0..client.rows

\* The portal's LIMIT parameter, if it has one, is lowered to the limit of the Execute.
RowCounts(q, limit) ==
    IF Kind[q] = "update" THEN {0}
    ELSE {n \in 0..client.rows : Kind[q] = "limited" /\ limit > 0 => n <= limit}

\* The portal does not exist.
ExecuteUnbound(m) ==
    /\ m.type = "Execute" /\ ~extError
    /\ portal[m.portal].query = NoQuery
    /\ Turn(m, Plain("error")) /\ Failed
    /\ UNCHANGED <<sendReady, cursorId, stmtVars, cursor, cancelVars>>

\* There is a plan and no active cursor: run the plan with a new cursor.
ExecutePlan(m) ==
    /\ m.type = "Execute" /\ ~extError
    /\ portal[m.portal].query # NoQuery /\ HasPlan(portal[m.portal].query)
    /\ cursorId = NoCursor
    /\ \E c \in Cursor \ Live, n \in RowCounts(portal[m.portal].query, m.limit) :
         LET q == portal[m.portal].query
             run == [owner |-> m.portal, query |-> q, rows |-> n, sent |-> 0]
             s == FirstRows(q, n, portal[m.portal].remaining, m.limit)
         IN /\ c = CHOOSE d \in Cursor \ Live : \A e \in Cursor \ Live : d <= e
            /\ \/ \* ydb_ci fails
                  /\ Turn(m, Plain("error")) /\ Failed
                  /\ cursorId' = c
                  /\ UNCHANGED <<portal, cursor, cancelVars>>
               \/ /\ Interrupted /\ PlanStep
                  /\ Turn(m, Plain("canceled"))
                  /\ cursorId' = c
                  /\ UNCHANGED <<extError, portal, cursor>>
               \/ /\ ~Interrupted /\ UNCHANGED cancelVars
                  /\ Turn(m, Answer(m.portal, run, s))
                  /\ extError' = (s.status = "error")
                  /\ cursorId' = IF s.status = "suspended" THEN c ELSE NoCursor
                  /\ portal' = [portal EXCEPT ![m.portal].remaining = s.left]
                  /\ cursor' = IF s.status = "suspended"
                               THEN [cursor EXCEPT ![c] = reply'.result] ELSE cursor
    /\ UNCHANGED <<sendReady, prepared>>

\* There is an active cursor, of whichever portal: send more of its rows.  The
\* plan of another query may keep its rows under another output key.
ExecuteSuspended(m) ==
    /\ m.type = "Execute" /\ ~extError
    /\ portal[m.portal].query # NoQuery /\ cursorId # NoCursor
    /\ LET q == portal[m.portal].query
           cur == cursor[cursorId]
       IN \E total \in IF cur.query = q THEN {cur.rows} ELSE {0, cur.rows} :
            LET s == MoreRows(q, total, portal[m.portal].remaining, m.limit)
            IN /\ Turn(m, Answer(m.portal, cur, s))
               /\ extError' = (s.status = "error")
               /\ cursorId' = IF s.status = "suspended" THEN cursorId ELSE NoCursor
               /\ portal' = [portal EXCEPT ![m.portal].remaining = s.left]
               /\ cursor' = [cursor EXCEPT ![cursorId] =
                                IF s.status = "complete" /\ total > 0 THEN Free
                                ELSE IF s.status = "suspended" THEN reply'.result ELSE @]
    /\ UNCHANGED <<sendReady, prepared, cancelVars>>

\* No plan and no active cursor: SET and SHOW act now and may fail, DDL has acted.
ExecuteNoPlan(m) ==
    /\ m.type = "Execute" /\ ~extError
    /\ portal[m.portal].query # NoQuery /\ ~HasPlan(portal[m.portal].query)
    /\ cursorId = NoCursor
    /\ \/ Turn(m, [Plain("complete") EXCEPT !.portal = m.portal]) /\ UNCHANGED extError
       \/ Kind[portal[m.portal].query] = "set" /\ Turn(m, Plain("error")) /\ Failed
    /\ UNCHANGED <<sendReady, cursorId, stmtVars, cursor, cancelVars>>

-----------------------------------------------------------------------------
Handler(m) ==
    \/ Discard(m) \/ Sync(m) \/ Flush(m)
    \/ HandleQuery(m) \/ HandleParse(m) \/ HandleBind(m) \/ HandleDescribe(m)
    \/ ExecuteUnbound(m) \/ ExecutePlan(m) \/ ExecuteSuspended(m) \/ ExecuteNoPlan(m)

Server ==
    /\ SelectInput \/ Terminate \/ (inbox # <<>> /\ Handler(Head(inbox)))
    /\ UNCHANGED client

Next ==
    \/ \E m \in Messages(client) : Send(m) /\ UNCHANGED client
    \/ CancelRequest /\ UNCHANGED client
    \/ Disconnect /\ UNCHANGED client
    \/ Server

Spec == Init /\ [][Next]_vars
\* The server process is scheduled; neither clients nor cancel requests need come.
FairSpec == Spec /\ WF_vars(Server)

-----------------------------------------------------------------------------
(* Properties.                                                               *)

IsSelect(p) == portal[p].query # NoQuery /\ Kind[portal[p].query] \in {"limited", "rows"}
Answered(p, types) == reply.portal = p /\ reply.type \in types

\* Every query of the client is a SELECT that the parser has limited or none at
\* all, and nobody cancels: what an ordinary driver does.
Orderly == ~client.cancels /\ \A q \in client.queries : Kind[q] # "rows"

\* What CommandComplete says is true.  For INSERT, UPDATE and DELETE: this Execute
\* has run the plan, whatever cursor the connection was left at.  For a SELECT
\* ("No errors, all rows sent", handle_execute.c): a plan run for this portal has
\* had all its rows sent.  The latter holds for orderly clients only: after a
\* cancel, and with two portals over VALUES or set operations, the next Execute
\* takes the cursor of the connection for its own.
CompletionTrue ==
    \A p \in Portal : (portal[p].query # NoQuery /\ Answered(p, {"complete"})) =>
        /\ Kind[portal[p].query] = "update" => reply.result.owner = p
        /\ (IsSelect(p) /\ Orderly) => reply.result.owner = p /\ reply.result.sent = reply.result.rows

\* No result outlives the Execute that computed it, so nothing is left on disk
\* when an exchange ends: what the LIMIT parameter added by the parser achieves.
CursorsReleased == (\A q \in client.queries : Kind[q] # "rows") => Live = {}

\* When a portal resumes its own result, no row between the last one sent and the
\* next one is left out.
NoRowSkipped ==
    [][(cursorId # NoCursor /\ reply'.first > 0 /\ reply' # reply
        /\ reply'.portal = cursor[cursorId].owner)
       => reply'.first <= cursor[cursorId].sent + 1]_vars

\* A client that waits after Sync gets its ReadyForQuery, errors included.
SyncAnswered ==
    (owed /\ ~exchange /\ inbox = <<>>) ~> (~owed \/ inbox # <<>> \/ pc = "closed")
=============================================================================
