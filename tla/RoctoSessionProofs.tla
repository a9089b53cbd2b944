------------------------- MODULE RoctoSessionProofs -------------------------
(***************************************************************************)
(* Proofs about RoctoSession, for every client: any number of statements,  *)
(* portals, queries, cursors and rows.                                     *)
(***************************************************************************)
EXTENDS RoctoSession, SequenceTheorems, TLAPS

NoRowsQuery == \A q \in client.queries : Kind[q] # "rows"

Asked == client.queries \cup {NoQuery}
Result == [owner : Portal \cup {NoPortal}, query : Query \cup {NoQuery}, rows : Nat, sent : Nat]
ReplyType == {"none", "ready", "error", "parsed", "bound", "described", "complete",
              "suspended", "canceled"}
Reply == [type : ReplyType, portal : Portal \cup {NoPortal}, result : Result, first : Int]

SessionType ==
    /\ client \in Clients
    /\ inbox \in Seq(Messages(client))
    /\ cursorId \in Cursor \cup {NoCursor}
    /\ extError \in BOOLEAN /\ signal \in BOOLEAN /\ canceled \in BOOLEAN
    /\ prepared \in [Stmt -> Asked]
    /\ portal \in [Portal -> [query : Asked, remaining : Int]]
    /\ cursor \in [Cursor -> Result]
    /\ reply \in Reply

\* Without VALUES and set operations no Execute is suspended: the result has no more
\* rows than the limit, so all cursors stay free and no portal has rows remaining.
NeverSuspended ==
    NoRowsQuery =>
        /\ \A c \in Cursor : cursor[c] = Free
        /\ \A p \in Portal : portal[p].remaining = Unset

\* Cancel flags come from cancel requests only.
NotCanceled == ~client.cancels => ~signal /\ ~canceled

\* The connection of an orderly client is at a cursor only after a failed plan, and
\* then in the error state, which Sync ends together with the cursor.
CursorIsError == Orderly /\ cursorId # NoCursor => extError

\* What the portal that owns the active cursor has left reaches back to the last row
\* that was sent.
RemainingReachesBack ==
    cursorId # NoCursor =>
        LET cur == cursor[cursorId]
        IN  (cur.owner # NoPortal /\ portal[cur.owner].remaining # Unset) =>
                cur.rows - portal[cur.owner].remaining <= cur.sent + 1

SessionInv ==
    /\ SessionType /\ NeverSuspended /\ NotCanceled /\ CursorIsError
    /\ RemainingReachesBack /\ CompletionTrue

-----------------------------------------------------------------------------
(* The rows of one Execute. *)

\* All of a result that fits the limit is sent at once to a portal with nothing
\* remaining.
LEMMA FitsLimit ==
    ASSUME NEW n \in Nat, NEW limit \in Nat, limit = 0 \/ n <= limit
    PROVE  /\ SendResultRows(n, Unset, limit).status = "complete"
           /\ SendResultRows(n, Unset, limit).last = n
           /\ SendResultRows(n, Unset, limit).left = Unset
BY DEF SendResultRows, Unset

\* What is left after some rows were sent reaches back to the last of them, whether
\* the portal had rows remaining of this result, of an earlier one or none.
LEMMA LeftReachesBack ==
    ASSUME NEW total \in Nat, NEW rem \in Int, NEW limit \in Nat,
           SendResultRows(total, rem, limit).status = "suspended"
    PROVE  total - SendResultRows(total, rem, limit).left <= SendResultRows(total, rem, limit).last + 1
BY DEF SendResultRows, Unset

-----------------------------------------------------------------------------
(* What a turn of the loop leaves alone. *)

\* A message of a client has the fields its handler reads.
LEMMA MessageFields ==
    ASSUME NEW c \in Clients, NEW m \in Messages(c)
    PROVE  /\ m.type = "Parse" => m.stmt \in Stmt /\ m.query \in c.queries
           /\ m.type = "Bind" => m.portal \in Portal /\ m.stmt \in Stmt
           /\ m.type = "Execute" => m.portal \in Portal /\ m.limit \in Nat
BY SessionAssumption, Zenon DEF Messages

LEMMA PlainType ==
    ASSUME NEW t \in ReplyType
    PROVE  Plain(t) \in Reply /\ Plain(t).portal = NoPortal /\ Plain(t).first = 0
BY DEF Plain, Reply, Result, Free

\* A plain answer sends no row.
LEMMA PlainSendsNoRow ==
    ASSUME NEW m, NEW t, Turn(m, Plain(t))
    PROVE  reply'.first = 0
BY Zenon DEF Turn, Plain

\* The message read is one the client has sent, and the rest stay on the socket.
LEMMA TurnType ==
    ASSUME SessionType, client' = client, inbox # <<>>, NEW r \in Reply,
           Turn(Head(inbox), r)
    PROVE  /\ Head(inbox) \in Messages(client)
           /\ inbox' \in Seq(Messages(client')) /\ reply' = r
<1>1. inbox \in Seq(Messages(client))
  BY Zenon DEF SessionType
<1>2. Head(inbox) \in Messages(client) /\ Tail(inbox) \in Seq(Messages(client))
  BY <1>1, HeadTailProperties, Zenon
<1>3. Messages(client') = Messages(client)
  BY Zenon
<1> QED
  BY <1>2, <1>3, Zenon DEF Turn

\* An answer that names no portal claims nothing.
LEMMA NoClaim ==
    ASSUME reply'.portal = NoPortal
    PROVE  CompletionTrue'
BY SessionAssumption, Zenon DEF CompletionTrue, Answered

\* A step that leaves results and portals alone keeps what is known of them.
LEMMA ResultsKept ==
    ASSUME SessionInv, client' = client, portal' = portal, cursor' = cursor,
           cursorId' = cursorId \/ cursorId' = NoCursor,
           extError' \/ extError' = extError \/ cursorId' = NoCursor
    PROVE  NeverSuspended' /\ CursorIsError' /\ RemainingReachesBack'
BY Zenon DEF SessionInv, NeverSuspended, NoRowsQuery, CursorIsError, Orderly, RemainingReachesBack,
       NoCursor

-----------------------------------------------------------------------------
(* Every step keeps SessionInv. *)

LEMMA InitInv == Init => SessionInv
<1> SUFFICES ASSUME Init PROVE SessionInv
  BY Zenon
<1>1. <<>> \in Seq(Messages(client))
  OBVIOUS
<1>2. SessionType
  <2>1. Free \in Result /\ reply \in Reply
    BY PlainType, Zenon DEF Init, Free, Result, ReplyType
  <2>2. Unbound \in [query : Asked, remaining : Int]
    BY DEF Unbound, Unset, Asked
  <2>3. prepared \in [Stmt -> Asked]
    BY Zenon DEF Init, Asked
  <2> QED
    BY <1>1, <2>1, <2>2, <2>3, Zenon DEF Init, SessionType
<1>3. NeverSuspended /\ NotCanceled /\ CursorIsError /\ RemainingReachesBack
  BY Zenon DEF Init, NeverSuspended, NotCanceled, CursorIsError, RemainingReachesBack, Unbound
<1>4. CompletionTrue
  BY SessionAssumption, PlainType, Zenon DEF Init, CompletionTrue, Answered, ReplyType
<1> QED
  BY <1>2, <1>3, <1>4, Zenon DEF SessionInv

\* Steps that neither read a message nor run anything.
LEMMA OutsideTurns ==
    ASSUME SessionInv, client' = client,
           \/ \E m \in Messages(client) : Send(m)
           \/ CancelRequest \/ Disconnect \/ SelectInput \/ Terminate
    PROVE  SessionInv'
<1> USE DEF loopVars, stmtVars, cancelVars
<1>1. inbox \in Seq(Messages(client)) /\ Messages(client') = Messages(client)
  BY DEF SessionInv, SessionType
<1>2. inbox' \in Seq(Messages(client'))
  <2>1. CASE \E m \in Messages(client) : Send(m)
    BY <1>1, <2>1, AppendProperties DEF Send
  <2>2. CASE Terminate
    BY <1>1, <2>2, HeadTailProperties, Zenon DEF Terminate
  <2>3. CASE CancelRequest \/ Disconnect \/ SelectInput
    BY <1>1, <2>3, Zenon DEF CancelRequest, Disconnect, SelectInput
  <2> QED
    BY <2>1, <2>2, <2>3, Zenon
<1>3. UNCHANGED <<loopVars, stmtVars, cursor, canceled>>
  BY Zenon DEF Send, CancelRequest, Disconnect, SelectInput, Terminate
<1>4. reply' = reply \/ reply' = Plain("ready") \/ reply' = Plain("none")
  BY Zenon DEF Send, CancelRequest, Disconnect, SelectInput, Terminate
<1>5. signal' = signal \/ (client.cancels /\ signal' = TRUE)
  BY DEF Send, CancelRequest, Disconnect, SelectInput, Terminate
<1>6. SessionType'
  BY <1>2, <1>3, <1>4, <1>5, PlainType, Zenon DEF SessionInv, SessionType, Asked, ReplyType
<1>7. NotCanceled'
  BY <1>3, <1>5, Zenon DEF SessionInv, NotCanceled
<1>8. NeverSuspended' /\ CursorIsError' /\ RemainingReachesBack'
  BY <1>3, ResultsKept, Zenon
<1>9. CompletionTrue'
  <2>1. CASE reply' = reply
    BY <1>3, <2>1, Zenon DEF SessionInv, CompletionTrue, Answered, IsSelect, Orderly
  <2>2. CASE reply' = Plain("ready") \/ reply' = Plain("none")
    BY <2>2, PlainType, NoClaim, Zenon DEF ReplyType
  <2> QED
    BY <1>4, <2>1, <2>2, Zenon
<1> QED
  BY <1>6, <1>7, <1>8, <1>9, Zenon DEF SessionInv

\* What running M code does to the cancel flags.
LEMMA CancelFlags ==
    ASSUME SessionInv, client' = client, DDLStep \/ PlanStep \/ UNCHANGED cancelVars
    PROVE  NotCanceled' /\ signal' \in BOOLEAN /\ canceled' \in BOOLEAN
<1>1. /\ signal \in BOOLEAN /\ canceled \in BOOLEAN
      /\ ~client.cancels => ~signal /\ ~canceled
  BY Zenon DEF SessionInv, SessionType, NotCanceled
<1>2. \/ signal' = FALSE /\ canceled' = FALSE
      \/ signal /\ signal' = FALSE /\ canceled' = TRUE
      \/ signal' = signal /\ canceled' = canceled
  BY Zenon DEF DDLStep, PlanStep, cancelVars
<1>3. signal' \in BOOLEAN /\ canceled' \in BOOLEAN
  BY <1>1, <1>2, Zenon
<1>4. ~client.cancels => ~signal' /\ ~canceled'
  BY <1>1, <1>2, Zenon
<1> QED
  BY <1>3, <1>4, Zenon DEF NotCanceled

\* Handlers that neither bind nor execute.
LEMMA OtherHandlers ==
    ASSUME SessionInv, client' = client, inbox # <<>>, NEW m, m = Head(inbox),
           \/ Discard(m) \/ Sync(m) \/ Flush(m)
           \/ HandleQuery(m) \/ HandleParse(m) \/ HandleDescribe(m)
           \/ ExecuteUnbound(m)
    PROVE  SessionInv'
<1> USE DEF loopVars, stmtVars
<1>1. PICK t \in ReplyType : Turn(m, Plain(t))
  <2>1. CASE Discard(m) \/ Sync(m) \/ Flush(m)
    BY <2>1, Zenon DEF Discard, Sync, Flush, ReplyType
  <2>2. CASE HandleQuery(m)
    <3>1. (IF Interrupted THEN "canceled" ELSE "complete") \in ReplyType
      BY Zenon DEF ReplyType
    <3> QED
      BY <2>2, <3>1, Zenon DEF HandleQuery, ReplyType
  <2>3. CASE HandleParse(m) \/ ExecuteUnbound(m)
    BY <2>3, Zenon DEF HandleParse, ExecuteUnbound, ReplyType
  <2>4. CASE HandleDescribe(m)
    <3>1. (IF m.type = "DescribeStmt" THEN "error" ELSE "none") \in ReplyType
      BY Zenon DEF ReplyType
    <3> QED
      BY <2>4, <3>1, Zenon DEF HandleDescribe, ReplyType
  <2> QED
    BY <2>1, <2>2, <2>3, <2>4, Zenon
<1>2. /\ m \in Messages(client) /\ inbox' \in Seq(Messages(client'))
      /\ reply' \in Reply /\ reply'.portal = NoPortal
  BY <1>1, PlainType, TurnType, Zenon DEF SessionInv
<1>3. portal' = portal /\ cursor' = cursor
  BY Zenon DEF Discard, Sync, Flush, HandleQuery, HandleParse, HandleDescribe, ExecuteUnbound
<1>4. DDLStep \/ PlanStep \/ UNCHANGED cancelVars
  BY Zenon DEF Discard, Sync, Flush, HandleQuery, HandleParse, HandleDescribe, ExecuteUnbound
<1>5. /\ cursorId' = cursorId \/ cursorId' = NoCursor
      /\ extError' = TRUE \/ extError' = extError \/ (cursorId' = NoCursor /\ extError' = FALSE)
  BY Zenon DEF Discard, Sync, Flush, HandleQuery, HandleParse, HandleDescribe, ExecuteUnbound, Failed
<1>6. prepared' \in [Stmt -> Asked']
  <2>1. CASE HandleParse(m)
    <3>1. m.stmt \in Stmt /\ m.query \in Asked
      <4>1. client \in Clients /\ m.type = "Parse"
        BY <2>1, Zenon DEF SessionInv, SessionType, HandleParse
      <4> QED
        BY <1>2, <4>1, MessageFields, Zenon DEF Asked
    <3>2. prepared \in [Stmt -> Asked] /\ Asked' = Asked /\ NoQuery \in Asked
      BY DEF SessionInv, SessionType, Asked
    <3>3. \E q \in Asked : prepared' = [prepared EXCEPT ![m.stmt] = q]
      BY <2>1, <3>1, <3>2, Zenon DEF HandleParse
    <3> QED
      BY <3>1, <3>2, <3>3, Zenon
  <2>2. CASE ~HandleParse(m)
    BY <2>2, Zenon DEF Discard, Sync, Flush, HandleQuery, HandleDescribe, ExecuteUnbound,
                SessionInv, SessionType, Asked
  <2> QED
    BY <2>1, <2>2, Zenon
<1>7. SessionType'
  BY <1>2, <1>3, <1>4, <1>5, <1>6, CancelFlags, Zenon DEF SessionInv, SessionType, Asked
<1>8. NeverSuspended' /\ CursorIsError' /\ RemainingReachesBack'
  BY <1>3, <1>5, ResultsKept, Zenon
<1> QED
  BY <1>2, <1>4, <1>7, <1>8, CancelFlags, NoClaim, Zenon DEF SessionInv

\* A portal is replaced: what it had left of a result is forgotten.
LEMMA BindInv ==
    ASSUME SessionInv, client' = client, inbox # <<>>, NEW m, m = Head(inbox), HandleBind(m)
    PROVE  SessionInv'
<1> USE DEF loopVars, stmtVars
<1>1. PICK t \in ReplyType : Turn(m, Plain(t))
  BY Zenon DEF HandleBind, ReplyType
<1>2. /\ m \in Messages(client) /\ inbox' \in Seq(Messages(client'))
      /\ reply' \in Reply /\ reply'.portal = NoPortal
  BY <1>1, PlainType, TurnType, Zenon DEF SessionInv
<1>3. m.portal \in Portal /\ m.stmt \in Stmt /\ client \in Clients
  BY <1>2, MessageFields, Zenon DEF HandleBind, SessionInv, SessionType
<1>4. PICK q \in Asked : portal' = [portal EXCEPT ![m.portal] = [query |-> q, remaining |-> Unset]]
  BY <1>3, Zenon DEF HandleBind, Unbound, SessionInv, SessionType, Asked
<1>5. UNCHANGED <<cursorId, prepared, cursor, cancelVars>> /\ (extError' = TRUE \/ extError' = extError)
  BY Zenon DEF HandleBind, Failed
<1>6. portal' \in [Portal -> [query : Asked, remaining : Int]]
  BY <1>3, <1>4 DEF SessionInv, SessionType, Unset
<1>7. SessionType'
  BY <1>2, <1>5, <1>6, CancelFlags, Zenon DEF SessionInv, SessionType, Asked
<1>8. NeverSuspended' /\ RemainingReachesBack'
  BY <1>3, <1>4, <1>5, Zenon DEF SessionInv, SessionType, NeverSuspended, NoRowsQuery, RemainingReachesBack, Result
<1>9. CursorIsError' /\ NotCanceled'
  BY <1>5, CancelFlags, Zenon DEF SessionInv, CursorIsError, Orderly
<1> QED
  BY <1>2, <1>7, <1>8, <1>9, NoClaim, Zenon DEF SessionInv

\* SET, SHOW and DDL are neither SELECT nor an update.
LEMMA NoPlanInv ==
    ASSUME SessionInv, client' = client, inbox # <<>>, NEW m, m = Head(inbox), ExecuteNoPlan(m)
    PROVE  SessionInv'
<1> USE DEF loopVars, stmtVars
<1> DEFINE done == [Plain("complete") EXCEPT !.portal = m.portal]
<1>1. Turn(m, done) \/ Turn(m, Plain("error"))
  BY Zenon DEF ExecuteNoPlan
<1>2. m \in Messages(client) /\ m.portal \in Portal
  <2>1. m \in Messages(client)
    BY HeadTailProperties, Zenon DEF SessionInv, SessionType
  <2> QED
    BY <2>1, MessageFields, Zenon DEF ExecuteNoPlan, SessionInv, SessionType
<1>3. done \in Reply /\ Plain("error") \in Reply /\ Plain("error").portal = NoPortal
  BY <1>2, PlainType DEF Plain, Reply, ReplyType, Result, Free
<1>4. inbox' \in Seq(Messages(client')) /\ (reply' = done \/ reply' = Plain("error"))
  BY <1>1, <1>3, TurnType, Zenon DEF SessionInv
<1>5. UNCHANGED <<cursorId, prepared, portal, cursor, cancelVars>> /\ (extError' = TRUE \/ extError' = extError)
  BY DEF ExecuteNoPlan, Failed
<1>6. SessionType'
  BY <1>3, <1>4, <1>5, CancelFlags, Zenon DEF SessionInv, SessionType, Asked
<1>7. NeverSuspended' /\ CursorIsError' /\ RemainingReachesBack' /\ NotCanceled'
  BY <1>5, ResultsKept, CancelFlags, Zenon
<1>8. CompletionTrue'
  <2>1. CASE reply' = Plain("error")
    BY <1>3, <2>1, NoClaim, Zenon
  <2>2. CASE reply' = done
    <3>1. done.portal = m.portal /\ ~HasPlan(portal[m.portal].query)
      BY Zenon DEF ExecuteNoPlan, Plain
    <3> QED
      BY <1>5, <2>2, <3>1, Zenon DEF CompletionTrue, Answered, IsSelect, HasPlan
  <2> QED
    BY <1>4, <2>1, <2>2, Zenon
<1> QED
  BY <1>6, <1>7, <1>8, Zenon DEF SessionInv

-----------------------------------------------------------------------------
(* Executes that answer with rows. *)

Rows == [status : {"complete", "suspended", "error"}, first : Int, last : Int, left : Int]

LEMMA AnswerType ==
    ASSUME NEW p \in Portal, NEW res \in Result, NEW s \in Rows
    PROVE  LET a == Answer(p, res, s)
           IN  /\ a \in Reply /\ a.portal = p /\ a.type = s.status /\ a.first = s.first
               /\ a.result \in Result /\ a.result.owner = res.owner /\ a.result.rows = res.rows
               /\ a.result.sent = IF s.last > res.sent THEN s.last ELSE res.sent
<1>1. /\ s.status \in ReplyType /\ s.first \in Int /\ s.last \in Int
      /\ res.sent \in Nat
  BY Zenon DEF Rows, Result, ReplyType
<1>2. (IF s.last > res.sent THEN s.last ELSE res.sent) \in Nat
  BY <1>1
<1> DEFINE sent == [res EXCEPT !.sent = IF s.last > @ THEN s.last ELSE @]
<1>3. /\ sent \in Result /\ sent.owner = res.owner /\ sent.rows = res.rows
      /\ sent.sent = IF s.last > res.sent THEN s.last ELSE res.sent
  BY <1>2, Zenon DEF Result
<1> HIDE DEF sent
<1>4. Answer(p, res, s) = [type |-> s.status, portal |-> p, first |-> s.first, result |-> sent]
  BY Zenon DEF Answer, sent
<1> QED
  BY <1>1, <1>3, <1>4 DEF Reply

LEMMA SendRows ==
    ASSUME NEW total \in Nat, NEW rem \in Int, NEW limit \in Nat
    PROVE  SendResultRows(total, rem, limit) \in Rows
BY DEF SendResultRows, Unset, Rows

WellSent(s, total, rem, limit) ==
    /\ s \in Rows
    /\ s.status = "suspended" =>
         s = SendResultRows(total, rem, limit) /\ total - s.left <= s.last + 1
    /\ \/ s.first = 0
       \/ rem = Unset /\ s.first = 1
       \/ rem # Unset /\ total # 0 /\ s.first = total - rem
    /\ total = 0 => s.status # "suspended" /\ s.left = rem

\* Only the rows of a SELECT are ever suspended.
LEMMA AnswerRows ==
    ASSUME NEW q, NEW total \in Nat, NEW rem \in Int, NEW limit \in Nat
    PROVE  /\ WellSent(FirstRows(q, total, rem, limit), total, rem, limit)
           /\ WellSent(MoreRows(q, total, rem, limit), total, rem, limit)
<1>1. WellSent(SendResultRows(total, rem, limit), total, rem, limit)
  <2> DEFINE s == SendResultRows(total, rem, limit)
  <2>1. \/ s.first = 0
        \/ rem = Unset /\ s.first = 1
        \/ rem # Unset /\ total # 0 /\ s.first = total - rem
    BY Zenon DEF SendResultRows
  <2>2. total = 0 => s.status # "suspended" /\ s.left = rem
    BY Zenon DEF SendResultRows
  <2> QED
    BY <2>1, <2>2, SendRows, LeftReachesBack, Zenon DEF WellSent
<1>2. ASSUME NEW t \in {"complete", "error"}
      PROVE  WellSent([status |-> t, first |-> 0, last |-> 0, left |-> rem], total, rem, limit)
  BY DEF WellSent, Rows
<1> QED
  BY <1>1, <1>2, Zenon DEF FirstRows, MoreRows

\* The message of an Execute and the portal it names.
LEMMA ExecuteMessage ==
    ASSUME SessionInv, inbox # <<>>, NEW m, m = Head(inbox), m.type = "Execute",
           portal[m.portal].query # NoQuery
    PROVE  /\ m \in Messages(client) /\ m.portal \in Portal /\ m.limit \in Nat
           /\ portal[m.portal].query \in client.queries /\ portal[m.portal].remaining \in Int
           /\ client.queries \subseteq Query
           /\ client.rows \in Nat
<1>1. m \in Messages(client)
  BY HeadTailProperties, Zenon DEF SessionInv, SessionType
<1>2. m.portal \in Portal /\ m.limit \in Nat /\ client \in Clients
  BY <1>1, MessageFields, Zenon DEF SessionInv, SessionType
<1>3. portal[m.portal] \in [query : Asked, remaining : Int]
  BY <1>2, Zenon DEF SessionInv, SessionType
<1>4. client.queries \subseteq Query /\ client.rows \in Nat
  BY <1>2, SessionAssumption
<1> QED
  BY <1>1, <1>2, <1>3, <1>4, Zenon DEF Asked

\* A plan that fails or is canceled leaves the connection at a cursor without rows.
LEMMA PlanFailedInv ==
    ASSUME SessionInv, client' = client, inbox # <<>>, NEW m, m = Head(inbox),
           NEW c \in Cursor \ Live, cursorId' = c, NEW t \in ReplyType, Turn(m, Plain(t)),
           UNCHANGED <<prepared, portal, cursor>>,
           DDLStep \/ PlanStep \/ UNCHANGED cancelVars,
           extError' = TRUE \/ (Interrupted /\ extError' = extError)
    PROVE  SessionInv'
<1>1. inbox' \in Seq(Messages(client')) /\ reply' \in Reply /\ reply'.portal = NoPortal
  BY PlainType, TurnType, Zenon DEF SessionInv
<1>2. SessionType'
  <2>1. signal' \in BOOLEAN /\ canceled' \in BOOLEAN /\ cursorId' \in Cursor /\ extError' \in BOOLEAN
    BY CancelFlags, ZenonT(30) DEF SessionInv, SessionType
  <2>2. Asked' = Asked
    BY Zenon DEF Asked
  <2> QED
    BY <1>1, <2>1, <2>2, Zenon DEF SessionInv, SessionType
<1>3. NeverSuspended' /\ RemainingReachesBack'
  BY Zenon DEF SessionInv, NeverSuspended, NoRowsQuery, RemainingReachesBack, Live
<1>4. CursorIsError'
  BY Zenon DEF SessionInv, CursorIsError, Orderly, NotCanceled, Interrupted
<1> QED
  BY <1>1, <1>2, <1>3, <1>4, CancelFlags, NoClaim, Zenon DEF SessionInv

\* A plan runs with a cursor of its own.
LEMMA PlanInv ==
    ASSUME SessionInv, client' = client, inbox # <<>>, NEW m, m = Head(inbox), ExecutePlan(m)
    PROVE  SessionInv'
<1> USE DEF loopVars, stmtVars
<1> DEFINE p == m.portal
           q == portal[p].query
           rem == portal[p].remaining
<1>1. /\ p \in Portal /\ m.limit \in Nat /\ rem \in Int
      /\ q \in client.queries /\ q \in Query /\ client.rows \in Nat
  BY ExecuteMessage, ZenonT(40) DEF ExecutePlan
<1>2. PICK c \in Cursor \ Live, n \in RowCounts(q, m.limit) :
        LET run == [owner |-> p, query |-> q, rows |-> n, sent |-> 0]
            s == FirstRows(q, n, rem, m.limit)
        IN \/ /\ Turn(m, Plain("error")) /\ Failed
              /\ cursorId' = c
              /\ UNCHANGED <<portal, cursor, cancelVars>>
           \/ /\ Interrupted /\ PlanStep
              /\ Turn(m, Plain("canceled"))
              /\ cursorId' = c
              /\ UNCHANGED <<extError, portal, cursor>>
           \/ /\ ~Interrupted /\ UNCHANGED cancelVars
              /\ Turn(m, Answer(p, run, s))
              /\ extError' = (s.status = "error")
              /\ cursorId' = IF s.status = "suspended" THEN c ELSE NoCursor
              /\ portal' = [portal EXCEPT ![p].remaining = s.left]
              /\ cursor' = IF s.status = "suspended"
                           THEN [cursor EXCEPT ![c] = reply'.result] ELSE cursor
  BY ZenonT(30) DEF ExecutePlan
<1> DEFINE run == [owner |-> p, query |-> q, rows |-> n, sent |-> 0]
           s == FirstRows(q, n, rem, m.limit)
<1>3. prepared' = prepared
  BY Zenon DEF ExecutePlan
<1>4. CASE Turn(m, Plain("error")) /\ Failed /\ cursorId' = c /\ UNCHANGED <<portal, cursor, cancelVars>>
  <2>1. "error" \in ReplyType /\ extError' = TRUE
    BY <1>4, Zenon DEF ReplyType, Failed
  <2> QED
    BY <1>3, <1>4, <2>1, PlanFailedInv, Zenon
<1>5. CASE /\ Interrupted /\ PlanStep /\ Turn(m, Plain("canceled")) /\ cursorId' = c
           /\ UNCHANGED <<extError, portal, cursor>>
  <2>1. "canceled" \in ReplyType
    BY Zenon DEF ReplyType
  <2> QED
    BY <1>3, <1>5, <2>1, PlanFailedInv, Zenon
<1>6. CASE /\ ~Interrupted /\ UNCHANGED cancelVars
           /\ Turn(m, Answer(p, run, s))
           /\ extError' = (s.status = "error")
           /\ cursorId' = IF s.status = "suspended" THEN c ELSE NoCursor
           /\ portal' = [portal EXCEPT ![p].remaining = s.left]
           /\ cursor' = IF s.status = "suspended" THEN [cursor EXCEPT ![c] = reply'.result] ELSE cursor
  <2>1. n \in Nat /\ (Kind[q] = "limited" /\ m.limit > 0 => n <= m.limit) /\ (Kind[q] = "update" => n = 0)
    BY <1>1 DEF RowCounts
  <2>2. run \in Result
    BY <1>1, <2>1, Zenon DEF Result
  <2>3. s \in Rows /\ (s.status = "suspended" => s = SendResultRows(n, rem, m.limit) /\ n - s.left <= s.last + 1)
    <3>1. WellSent(s, n, rem, m.limit)
      BY <1>1, <2>1, AnswerRows, Zenon
    <3> HIDE DEF s, rem
    <3> QED
      BY <3>1, Zenon DEF WellSent
  <2>4. s.status \in {"complete", "suspended", "error"} /\ s.first \in Int /\ s.last \in Int /\ s.left \in Int
    BY <2>3, ZenonT(30) DEF Rows
  <2> HIDE DEF run, s, p, q, rem
  <2>5. /\ Answer(p, run, s) \in Reply /\ Answer(p, run, s).portal = p /\ Answer(p, run, s).type = s.status
        /\ Answer(p, run, s).result \in Result
        /\ Answer(p, run, s).result.owner = run.owner /\ Answer(p, run, s).result.rows = run.rows
        /\ Answer(p, run, s).result.sent = IF s.last > run.sent THEN s.last ELSE run.sent
    BY <1>1, <2>2, <2>3, AnswerType
  <2>6. run.owner = p /\ run.rows = n /\ run.sent = 0
    BY Zenon DEF run
  <2>7. inbox' \in Seq(Messages(client')) /\ reply' = Answer(p, run, s)
    BY <1>6, <2>5, TurnType, Zenon DEF SessionInv
  <2>8. /\ portal' \in [Portal -> [query : Asked, remaining : Int]]
        /\ portal'[p].remaining = s.left
        /\ \A o \in Portal : portal'[o].query = portal[o].query
        /\ \A o \in Portal \ {p} : portal'[o].remaining = portal[o].remaining
    BY <1>1, <1>6, <2>4, Zenon DEF SessionInv, SessionType
  <2>9. SessionType'
    <3>1. cursor' \in [Cursor -> Result] /\ cursorId' \in Cursor \cup {NoCursor}
      BY <1>6, <2>5, <2>7, Zenon DEF SessionInv, SessionType
    <3>2. extError' \in BOOLEAN
      BY <1>6, Zenon
    <3> QED
      BY <1>3, <1>6, <2>5, <2>7, <2>8, <3>1, <3>2, CancelFlags, ZenonT(30) DEF SessionInv, SessionType, Asked
  <2>10. NoRowsQuery => s.status = "complete" /\ s.left = Unset /\ (Kind[q] # "update" => s.last = n)
    <3> SUFFICES ASSUME NoRowsQuery
                 PROVE  s.status = "complete" /\ s.left = Unset /\ (Kind[q] # "update" => s.last = n)
      BY Zenon
    <3>1. rem = Unset
      BY <1>1, Zenon DEF rem, SessionInv, NeverSuspended
    <3>2. Kind[q] = "limited" \/ Kind[q] = "update"
      BY <1>1, ZenonT(30) DEF NoRowsQuery, ExecutePlan, HasPlan, q, p
    <3>3. CASE Kind[q] = "update"
      BY <3>1, <3>3, Zenon DEF s, FirstRows
    <3>4. CASE Kind[q] = "limited"
      <4>1. m.limit = 0 \/ n <= m.limit
        BY <1>1, <2>1, <3>4
      <4> QED
        BY <1>1, <2>1, <3>1, <3>4, <4>1, FitsLimit, SMTT(30) DEF s, FirstRows
    <3> QED
      BY <3>2, <3>3, <3>4, Zenon
  <2>11. NeverSuspended'
    BY <1>1, <1>6, <2>8, <2>10, Zenon DEF SessionInv, NeverSuspended, NoRowsQuery
  <2>12. CursorIsError'
    BY <1>6, <2>10, Zenon DEF CursorIsError, Orderly, NoRowsQuery
  <2>13. RemainingReachesBack'
    <3>1. CASE s.status # "suspended"
      BY <1>6, <3>1, Zenon DEF RemainingReachesBack
    <3>2. CASE s.status = "suspended"
      <4>1. cursorId' = c /\ cursor'[c] = reply'.result
        BY <1>6, <3>2, Zenon DEF SessionInv, SessionType
      <4>2. cursor'[c].owner = p /\ cursor'[c].rows = n /\ cursor'[c].sent >= s.last
        BY <2>4, <2>5, <2>6, <2>7, <4>1, SMTT(30)
      <4>3. cursor'[c].sent \in Nat
        BY <2>5, <2>7, <4>1, Zenon DEF Result
      <4>4. n - s.left <= cursor'[c].sent + 1
        BY <2>1, <2>3, <2>4, <3>2, <4>2, <4>3, SMTT(30)
      <4> QED
        BY <2>8, <4>1, <4>2, <4>4, Zenon DEF RemainingReachesBack
    <3> QED
      BY <3>1, <3>2, Zenon
  <2>14. CompletionTrue'
    <3> SUFFICES ASSUME NEW o \in Portal, reply'.portal = o,
                        Orderly'
                 PROVE  /\ reply'.result.owner = o
                        /\ Kind[portal'[o].query] # "update" => reply'.result.sent = reply'.result.rows
      <4>1. \A o \in Portal : reply'.portal = o => reply'.result.owner = o
        BY <2>5, <2>6, <2>7, Zenon
      <4> QED
        BY <4>1, Zenon DEF CompletionTrue, Answered, IsSelect
    <3>1. o = p /\ reply'.result.owner = p
      BY <2>5, <2>6, <2>7, Zenon
    <3>2. NoRowsQuery
      BY Zenon DEF Orderly, NoRowsQuery
    <3>3. portal'[o].query = q
      BY <1>1, <2>8, <3>1, Zenon DEF q
    <3> QED
      BY <2>1, <2>4, <2>5, <2>6, <2>7, <2>10, <3>1, <3>2, <3>3, SMTT(30)
  <2> QED
    BY <1>6, <2>9, <2>11, <2>12, <2>13, <2>14, CancelFlags, ZenonT(30) DEF SessionInv
<1> QED
  BY <1>2, <1>4, <1>5, <1>6, Zenon

\* More rows of the active cursor, which may be that of another portal.
LEMMA SuspendedInv ==
    ASSUME SessionInv, client' = client, inbox # <<>>, NEW m, m = Head(inbox), ExecuteSuspended(m)
    PROVE  /\ SessionInv'
           /\ (reply'.first > 0 /\ reply'.portal = cursor[cursorId].owner) =>
                reply'.first <= cursor[cursorId].sent + 1
<1> USE DEF loopVars, stmtVars
<1> DEFINE p == m.portal
           q == portal[p].query
           rem == portal[p].remaining
           cur == cursor[cursorId]
<1>0. m.type = "Execute" /\ ~extError /\ q # NoQuery /\ cursorId # NoCursor /\ UNCHANGED <<prepared, cancelVars>>
  BY Zenon DEF ExecuteSuspended
<1>1. p \in Portal /\ m.limit \in Nat /\ rem \in Int /\ q \in client.queries /\ q \in Query
  BY <1>0, ExecuteMessage, Zenon
<1>2. cursorId \in Cursor /\ cur \in Result
  BY <1>0, Zenon DEF SessionInv, SessionType
<1>3. cur.rows \in Nat /\ cur.sent \in Nat
  BY <1>2, Zenon DEF Result
<1>4. PICK total \in IF cur.query = q THEN {cur.rows} ELSE {0, cur.rows} :
        LET s == MoreRows(q, total, rem, m.limit)
        IN /\ Turn(m, Answer(p, cur, s))
           /\ extError' = (s.status = "error")
           /\ cursorId' = IF s.status = "suspended" THEN cursorId ELSE NoCursor
           /\ portal' = [portal EXCEPT ![p].remaining = s.left]
           /\ cursor' = [cursor EXCEPT ![cursorId] =
                            IF s.status = "complete" /\ total > 0 THEN Free
                            ELSE IF s.status = "suspended" THEN reply'.result ELSE @]
  BY Zenon DEF ExecuteSuspended
<1> DEFINE s == MoreRows(q, total, rem, m.limit)
<1>5. total \in Nat /\ (total = 0 \/ total = cur.rows)
  BY <1>3
<1>51. WellSent(s, total, rem, m.limit)
  BY <1>1, <1>5, AnswerRows, Zenon
<1> HIDE DEF s, q, rem, p, cur
<1>6. s \in Rows /\ (s.status = "suspended" => s = SendResultRows(total, rem, m.limit) /\ total - s.left <= s.last + 1)
  BY <1>51, Zenon DEF WellSent
<1>7. s.status \in {"complete", "suspended", "error"} /\ s.first \in Int /\ s.last \in Int /\ s.left \in Int
  BY <1>6, Zenon DEF Rows
<1>8. (cur.owner # NoPortal /\ portal[cur.owner].remaining # Unset) =>
        cur.rows - portal[cur.owner].remaining <= cur.sent + 1
  BY <1>0, Zenon DEF SessionInv, RemainingReachesBack, cur
<1>9. ~Orderly
  BY <1>0, Zenon DEF SessionInv, CursorIsError
<1>10. Kind[q] = "update" => s.status = "error"
  BY Zenon DEF MoreRows, s
<1>11. \/ s.first = 0
       \/ rem = Unset /\ s.first = 1
       \/ rem # Unset /\ total # 0 /\ s.first = total - rem
  BY <1>51, Zenon DEF WellSent
<1>12. total = 0 => s.status # "suspended" /\ s.left = rem
  BY <1>51, Zenon DEF WellSent
<1>13. /\ Answer(p, cur, s) \in Reply /\ Answer(p, cur, s).portal = p
       /\ Answer(p, cur, s).type = s.status /\ Answer(p, cur, s).first = s.first
       /\ Answer(p, cur, s).result \in Result
       /\ Answer(p, cur, s).result.owner = cur.owner /\ Answer(p, cur, s).result.rows = cur.rows
       /\ Answer(p, cur, s).result.sent = IF s.last > cur.sent THEN s.last ELSE cur.sent
  BY <1>1, <1>2, <1>6, AnswerType
<1>14. inbox' \in Seq(Messages(client')) /\ reply' = Answer(p, cur, s)
  BY <1>4, <1>13, TurnType, Zenon DEF SessionInv, s
<1>15. /\ portal' \in [Portal -> [query : Asked, remaining : Int]]
       /\ portal'[p].remaining = s.left
       /\ \A o \in Portal : portal'[o].query = portal[o].query
       /\ \A o \in Portal \ {p} : portal'[o].remaining = portal[o].remaining
  BY <1>1, <1>4, <1>7, ZenonT(30) DEF SessionInv, SessionType, s
<1>16. SessionType'
  <2>1. Free \in Result
    BY Zenon DEF Free, Result
  <2>2. cursor' \in [Cursor -> Result] /\ cursorId' \in Cursor \cup {NoCursor}
    BY <1>2, <1>4, <1>13, <1>14, <2>1, Zenon DEF SessionInv, SessionType, s
  <2>3. extError' \in BOOLEAN
    BY <1>4, Zenon DEF s
  <2> QED
    BY <1>0, <1>13, <1>14, <1>15, <2>2, <2>3, CancelFlags, Zenon DEF SessionInv, SessionType, Asked
<1>17. NeverSuspended'
  <2> SUFFICES ASSUME NoRowsQuery
               PROVE  /\ \A c \in Cursor : cursor'[c] = Free
                      /\ \A o \in Portal : portal'[o].remaining = Unset
    BY Zenon DEF NeverSuspended, NoRowsQuery
  <2>1. (\A c \in Cursor : cursor[c] = Free) /\ (\A o \in Portal : portal[o].remaining = Unset)
    BY Zenon DEF SessionInv, NeverSuspended
  <2>2. total = 0
    BY <1>2, <1>5, <2>1 DEF Free, cur
  <2>3. s.status # "suspended" /\ s.left = Unset
    BY <1>1, <1>12, <2>1, <2>2, Zenon DEF rem
  <2>4. \A c \in Cursor : cursor'[c] = cursor[c]
    BY <1>2, <1>4, <2>2, <2>3 DEF SessionInv, SessionType, s
  <2> QED
    BY <1>15, <2>1, <2>3, <2>4, Zenon
<1>18. CursorIsError'
  BY <1>9, Zenon DEF CursorIsError, Orderly
<1>19. RemainingReachesBack'
  <2>1. CASE s.status # "suspended"
    BY <1>4, <2>1, Zenon DEF RemainingReachesBack, s
  <2>2. CASE s.status = "suspended"
    <3>1. cursorId' = cursorId /\ cursor'[cursorId] = reply'.result
      BY <1>2, <1>4, <2>2, Zenon DEF SessionInv, SessionType, s
    <3>2. /\ cursor'[cursorId].owner = cur.owner /\ cursor'[cursorId].rows = cur.rows
          /\ cursor'[cursorId].sent \in Nat
          /\ cursor'[cursorId].sent >= s.last /\ cursor'[cursorId].sent >= cur.sent
      BY <1>3, <1>7, <1>13, <1>14, <3>1, SMTT(30)
    <3>3. CASE cur.owner = p
      BY <1>3, <1>5, <1>6, <1>7, <1>12, <1>15, <2>2, <3>1, <3>2, <3>3, SMTT(30) DEF RemainingReachesBack
    <3>4. CASE cur.owner # p
      <4>1. cur.owner \in Portal \cup {NoPortal}
        BY <1>2 DEF Result
      <4>2. CASE cur.owner = NoPortal
        BY <3>1, <3>2, <4>2, Zenon DEF RemainingReachesBack
      <4>3. CASE cur.owner \in Portal
        <5>1. portal'[cur.owner].remaining = portal[cur.owner].remaining /\ portal[cur.owner].remaining \in Int
          BY <1>15, <3>4, <4>3 DEF SessionInv, SessionType
        <5>2. portal[cur.owner].remaining # Unset =>
                cur.rows - portal[cur.owner].remaining <= cur.sent + 1
          BY <1>8, <4>3, SessionAssumption, Zenon
        <5> QED
          BY <1>3, <3>1, <3>2, <5>1, <5>2, SMTT(30) DEF RemainingReachesBack
      <4> QED
        BY <4>1, <4>2, <4>3
    <3> QED
      BY <3>3, <3>4, Zenon
  <2> QED
    BY <2>1, <2>2, Zenon
<1>20. CompletionTrue'
  <2>1. ~Orderly'
    BY <1>9, Zenon DEF Orderly
  <2>2. \A o \in Portal : reply'.portal = o /\ reply'.type = "complete" => Kind[portal'[o].query] # "update"
    BY <1>1, <1>10, <1>13, <1>14, <1>15, ZenonT(30) DEF q
  <2> QED
    BY <2>1, <2>2, Zenon DEF CompletionTrue, Answered
<1>21. ASSUME reply'.first > 0, reply'.portal = cursor[cursorId].owner
       PROVE  reply'.first <= cursor[cursorId].sent + 1
  <2>1. cur.owner = p /\ s.first > 0 /\ reply'.first = s.first
    BY <1>13, <1>14, <1>21, Zenon DEF cur
  <2>2. rem # Unset => cur.rows - rem <= cur.sent + 1
    BY <1>1, <1>8, <2>1, SessionAssumption, Zenon DEF rem
  <2>3. s.first <= cur.sent + 1
    BY <1>1, <1>3, <1>5, <1>7, <1>11, <2>1, <2>2, SMTT(30)
  <2> QED
    BY <2>1, <2>3, Zenon DEF cur
<1> QED
  BY <1>0, <1>16, <1>17, <1>18, <1>19, <1>20, <1>21, CancelFlags, Zenon DEF SessionInv

-----------------------------------------------------------------------------
(* The theorems. *)

\* The subject of NoRowSkipped.
Resumed == cursorId # NoCursor /\ reply'.first > 0 /\ reply' # reply
           /\ reply'.portal = cursor[cursorId].owner

\* Every step of Next keeps SessionInv and resumes a result where it was suspended.
LEMMA StepInv ==
    ASSUME SessionInv, [Next]_vars
    PROVE  SessionInv' /\ (Resumed => reply'.first <= cursor[cursorId].sent + 1)
<1>1. CASE UNCHANGED vars
  <2>1. UNCHANGED <<client, inbox, extError, cursorId, prepared, portal, cursor, signal, canceled, reply>>
    BY <1>1, Zenon DEF vars, loopVars, stmtVars, cancelVars
  <2>2. SessionType'
    BY <2>1, Zenon DEF SessionInv, SessionType, Asked
  <2>3. NeverSuspended' /\ CursorIsError' /\ RemainingReachesBack'
    BY <2>1, ResultsKept, Zenon
  <2>4. NotCanceled'
    BY <2>1, Zenon DEF SessionInv, NotCanceled
  <2>5. CompletionTrue'
    BY <2>1, Zenon DEF SessionInv, CompletionTrue, Answered, IsSelect, Orderly
  <2> QED
    BY <2>1, <2>2, <2>3, <2>4, <2>5, Zenon DEF SessionInv, Resumed
<1>2. CASE /\ client' = client
           /\ \/ \E m \in Messages(client) : Send(m)
              \/ CancelRequest \/ Disconnect \/ SelectInput \/ Terminate
  <2>1. reply' = reply \/ reply'.first = 0
    BY <1>2, SMTT(30) DEF Send, CancelRequest, Disconnect, SelectInput, Terminate, Plain
  <2> QED
    BY <1>2, <2>1, OutsideTurns, SMTT(30) DEF Resumed
<1>3. CASE client' = client /\ inbox # <<>> /\ Handler(Head(inbox))
  <2> DEFINE m == Head(inbox)
  <2>1. CASE \/ Discard(m) \/ Sync(m) \/ Flush(m)
             \/ HandleQuery(m) \/ HandleParse(m) \/ HandleDescribe(m) \/ ExecuteUnbound(m)
    <3>1. reply'.first = 0
      <4>1. \E t : Turn(m, Plain(t))
        BY <2>1, Zenon DEF Discard, Sync, Flush, HandleQuery, HandleParse, HandleDescribe, ExecuteUnbound
      <4> QED
        BY <4>1, PlainSendsNoRow, Zenon
    <3> QED
      BY <1>3, <2>1, <3>1, OtherHandlers DEF Resumed
  <2>2. CASE HandleBind(m)
    <3>1. reply'.first = 0
      <4>1. Turn(m, Plain("error")) \/ Turn(m, Plain("bound"))
        BY <2>2, Zenon DEF HandleBind
      <4> QED
        BY <4>1, PlainSendsNoRow, Zenon
    <3> QED
      BY <1>3, <2>2, <3>1, BindInv DEF Resumed
  <2>3. CASE ExecutePlan(m)
    <3>1. cursorId = NoCursor
      BY <2>3, Zenon DEF ExecutePlan
    <3> QED
      BY <1>3, <2>3, <3>1, PlanInv, Zenon DEF Resumed
  <2>4. CASE ExecuteSuspended(m)
    BY <1>3, <2>4, SuspendedInv, Zenon DEF Resumed
  <2>5. CASE ExecuteNoPlan(m)
    <3>1. cursorId = NoCursor
      BY <2>5, Zenon DEF ExecuteNoPlan
    <3> QED
      BY <1>3, <2>5, <3>1, NoPlanInv, SMTT(30) DEF Resumed
  <2> QED
    BY <1>3, <2>1, <2>2, <2>3, <2>4, <2>5, ZenonT(30) DEF Handler
<1> QED
  BY <1>1, <1>2, <1>3, Zenon DEF Next, Server

LEMMA Invariance == Spec => []SessionInv
<1>1. SessionInv /\ [Next]_vars => SessionInv'
  BY StepInv, Zenon
<1> QED
  BY InitInv, <1>1, PTL DEF Spec

\* A client that sends neither VALUES nor set operations leaves no result behind:
\* what the LIMIT parameter that the parser adds, lowered by handle_execute.c to the
\* limit of the Execute, achieves for any limits, portals and numbers of rows.
THEOREM Released == Spec => []CursorsReleased
<1>1. SessionInv => CursorsReleased
  BY DEF SessionInv, NeverSuspended, NoRowsQuery, CursorsReleased, Live, Free
<1> QED
  BY Invariance, <1>1, PTL

\* CommandComplete is never sent for an INSERT, UPDATE or DELETE that did not run
\* (handle_execute.c with an active cursor), nor, to an orderly client, for a SELECT
\* whose rows were not all sent.
THEOREM Completion == Spec => []CompletionTrue
<1>1. SessionInv => CompletionTrue
  BY DEF SessionInv
<1> QED
  BY Invariance, <1>1, PTL

\* send_result_rows resumes a result at a row no later than the one after the last
\* it has sent, whichever other portals and limits were used in between.
THEOREM NoSkip == Spec => NoRowSkipped
<1>1. SessionInv /\ [Next]_vars =>
        [(cursorId # NoCursor /\ reply'.first > 0 /\ reply' # reply
          /\ reply'.portal = cursor[cursorId].owner)
         => reply'.first <= cursor[cursorId].sent + 1]_vars
  BY StepInv DEF Resumed
<1> QED
  BY Invariance, <1>1, PTL DEF Spec, NoRowSkipped
=============================================================================
