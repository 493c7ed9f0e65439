------------------------------- MODULE Session -------------------------------
(***************************************************************************)
(* One dbc_core::Connection as the runner uses it, with the database       *)
(* sessions behind it: what execute() and query() of the four drivers do,  *)
(* what is left behind when a caller drops their future on a timeout, and  *)
(* what the server does with it.  WriteTx and Script EXTEND this module    *)
(* with their own control.                                                 *)
(*                                                                         *)
(* Postgres has one session; execute() hands the statement to a detached   *)
(* task, so a dropped future leaves it in the session's pipeline, and a    *)
(* watcher per statement turns its token into a CancelRequest, which names *)
(* the session and not the statement.  SQLite, DuckDB and SQL Server move  *)
(* the session (exec_conn) into a blocking closure; a dropped future       *)
(* orphans it, and the next execute() opens another.  Their query() always *)
(* runs on a session of its own.                                           *)
(*                                                                         *)
(* A write is abstracted to an id, a session to its transaction state, the *)
(* ids staged in it and its pipeline.  Servers are external: what they do  *)
(* to a transaction is what the drivers' docs and tests rely on.           *)
(***************************************************************************)
EXTENDS Integers, Sequences, FiniteSets

CONSTANTS
    Engines,       \* the engines a connection may be to
    Stmts,         \* the ids of the caller's statements
    MaxSessions,   \* bound: sessions one Connection may open
    LinkMayFail    \* the network connection to the server may be lost

ASSUME SessionAssumption ==
    /\ Engines \subseteq {"Postgres", "Sqlite", "Duckdb", "Mssql"}
    /\ Stmts \subseteq Nat \ {0}
    /\ MaxSessions \in Nat \ {0}
    /\ LinkMayFail \in BOOLEAN

VARIABLES
    engine,    \* the engine of this connection (never changes)
    sess,      \* the database sessions
    conn,      \* the session the Connection owns, 0 if none
    awaiting,  \* the session whose last statement the caller awaits, or 0
    answer,    \* the answer the caller has not taken yet, or "none"
    fired,     \* the cancelled tokens
    creqs,     \* CancelRequests on their way to the Postgres server
    durable,   \* the writes that are committed
    view,      \* the writes the last read saw
    lost       \* the network failed while the caller used the connection

sessionVars == <<engine, sess, conn, awaiting, answer, fired, creqs, durable, view, lost>>

OneSession == engine = "Postgres"
Networked  == engine \in {"Postgres", "Mssql"}

Sessions == 1 .. MaxSessions
Aside == MaxSessions + 1   \* the session of a query() that has its own
NoStatement == 0

(* A statement: what it does, its id, the token it was given (the run's, a *)
(* fresh one, or a child of the run's that bears its own id), whether its  *)
(* watcher has sent a CancelRequest, whether one has hit it.               *)
Ops     == {"BEGIN", "WRITE", "READ", "COMMIT", "ROLLBACK"}
RunToken   == 0
FreshToken == -1
Tokens  == {RunToken, FreshToken} \cup Stmts
Answers == {"none", "ok", "mismatch", "error", "cancelled"}

Statement(op, id, tok) ==
    [op |-> op, id |-> id, tok |-> tok, asked |-> FALSE, hit |-> FALSE]

Statements == [op : Ops, id : Stmts \cup {NoStatement}, tok : Tokens,
               asked : BOOLEAN, hit : BOOLEAN]

SessionStates == [state : {"unopened", "open", "closed"},
                  tx : {"none", "open", "aborted"},
                  staged : SUBSET Stmts,
                  queue : Seq(Statements)]

SessionTypeOK ==
    /\ engine \in Engines
    /\ sess \in [Sessions -> SessionStates]
    /\ conn \in 0 .. MaxSessions
    /\ awaiting \in 0 .. Aside
    /\ answer \in Answers
    /\ fired \in SUBSET Tokens
    /\ creqs \in Nat
    /\ durable \in SUBSET Stmts
    /\ view \in SUBSET Stmts
    /\ lost \in BOOLEAN

Fresh(state) == [state |-> state, tx |-> "none", staged |-> {}, queue |-> <<>>]

SessionInit ==
    /\ engine \in Engines
    /\ sess = [s \in Sessions |-> Fresh("unopened")]
    /\ conn = 0
    /\ awaiting = 0
    /\ answer = "none"
    /\ fired = {}
    /\ creqs = 0
    /\ durable = {}
    /\ view = {}
    /\ lost = FALSE

-----------------------------------------------------------------------------
(* The driver *)

(* open_spec: Postgres connects here, the others open at the first         *)
(* execute().                                                              *)
Opened == IF OneSession THEN 1 ELSE 0

(* execute(): refused on a cancelled token, else sent on session c, which  *)
(* is opened first if there is none (and opening may fail).  The answer    *)
(* the caller was holding is consumed.                                     *)
Unopened == {s \in Sessions : sess[s].state = "unopened"}

SendOn(s, st) ==
    /\ sess' = [sess EXCEPT ![s].state = "open", ![s].queue = Append(@, st)]
    /\ conn' = s
    /\ awaiting' = s
    /\ answer' = "none"

Refuse(c, a) ==
    /\ conn' = c
    /\ awaiting' = 0
    /\ answer' = a
    /\ UNCHANGED sess

Execute(c, cancelled, st) ==
    IF st.tok \in cancelled THEN Refuse(c, "cancelled")
    ELSE IF c = 0
         THEN \/ \E s \in Unopened : (\A r \in Unopened : s <= r) /\ SendOn(s, st)
              \/ Refuse(c, "error")
         ELSE IF sess[c].state = "closed" THEN Refuse(c, "error")
              ELSE SendOn(c, st)

(* query(): on Postgres the read joins the session's pipeline (its token   *)
(* is looked at by the watcher only); elsewhere it gets a session of its   *)
(* own, or fails to.                                                       *)
Query(st) ==
    IF OneSession
    THEN IF sess[conn].state = "closed" THEN Refuse(conn, "error") ELSE SendOn(conn, st)
    ELSE \/ /\ awaiting' = Aside
            /\ answer' = "none"
            /\ UNCHANGED <<sess, conn>>
         \/ Refuse(conn, "error")

(* The session the Connection still owns after an execute() future was     *)
(* dropped: the closure took exec_conn with it.                            *)
AfterDrop == IF OneSession THEN conn ELSE 0

(* Mutant: the connection goes back to a pool with its transaction.        *)
DropConnection_Pooled ==
    /\ awaiting' = 0
    /\ answer' = "none"
    /\ UNCHANGED <<engine, sess, conn, fired, creqs, durable, view, lost>>

(* The caller drops the Connection, with whatever it awaits.               *)
DropConnection ==
    /\ conn' = 0
    /\ awaiting' = 0
    /\ answer' = "none"
    /\ UNCHANGED <<engine, sess, fired, creqs, durable, view, lost>>

-----------------------------------------------------------------------------
(* The server *)

(* A statement that fails inside a transaction leaves it usable (SQLite),  *)
(* aborts it until ROLLBACK (Postgres, DuckDB) or rolls it back at once    *)
(* (SQL Server under XACT_ABORT ON).                                       *)
AfterError(t) ==
    IF t.tx # "open" THEN t
    ELSE CASE engine = "Sqlite" -> t
           [] engine = "Mssql"  -> [t EXCEPT !.tx = "none", !.staged = {}]
           [] OTHER             -> [t EXCEPT !.tx = "aborted", !.staged = {}]

(* A COMMIT that fails ends the transaction, except on SQLite (busy).      *)
AfterFailedCommit(t) ==
    IF engine = "Sqlite" THEN t ELSE [t EXCEPT !.tx = "none", !.staged = {}]

(* SQLite has one writer: while another session holds its lock, this one   *)
(* cannot write.                                                           *)
LockedOut(s) ==
    engine = "Sqlite" /\ \E r \in Sessions \ {s} : sess[r].staged # {}

Ended(t) == [t EXCEPT !.tx = "none", !.staged = {}]

(* The ways statement st may end on session s in state t: the answer, the  *)
(* session afterwards and the writes it makes durable.                     *)
Ends(s, st, t) ==
    LET failed == {<<"error", AfterError(t), {}>>}
                  \cup (IF st.hit THEN {<<"cancelled", AfterError(t), {}>>} ELSE {})
    IN CASE st.op = "BEGIN" ->
              failed \cup (IF t.tx = "none" \/ (engine = "Postgres" /\ t.tx = "open")
                           THEN {<<"ok", [t EXCEPT !.tx = "open"], {}>>} ELSE {})
         [] st.op = "READ" ->
              failed \cup (IF t.tx = "aborted" THEN {} ELSE {<<"ok", t, {}>>})
         [] st.op = "WRITE" ->
              failed \cup (IF t.tx = "aborted" \/ LockedOut(s) THEN {}
                           ELSE IF t.tx = "open"
                           THEN {<<a, [t EXCEPT !.staged = @ \cup {st.id}], {}>> : a \in {"ok", "mismatch"}}
                           ELSE {<<a, t, {st.id}>> : a \in {"ok", "mismatch"}})
         [] st.op = "COMMIT" ->
              (IF t.tx = "open"
               THEN {<<"ok", Ended(t), t.staged>>}
                    \cup {<<e[1], AfterFailedCommit(t), {}>> : e \in failed}
               ELSE IF engine = "Postgres" THEN {<<"ok", Ended(t), {}>>}
               ELSE failed)
         [] st.op = "ROLLBACK" ->
              failed \cup (IF t.tx # "none" \/ engine = "Postgres"
                           THEN {<<"ok", Ended(t), {}>>} ELSE {})

(* The statement at the head of session s ends.  Its answer is delivered   *)
(* if the caller still awaits it.  A watcher whose token has fired may     *)
(* still send its CancelRequest although the statement is over: the select *)
(* between the token and the end of the task is not ordered.               *)
Serve(s) ==
    /\ sess[s].state = "open"
    /\ sess[s].queue # <<>>
    /\ LET st == Head(sess[s].queue)
           rest == Tail(sess[s].queue)
           late == OneSession /\ st.tok \in fired /\ ~st.asked
       IN \E end \in Ends(s, st, sess[s]) :
            /\ sess' = [sess EXCEPT ![s] = [end[2] EXCEPT !.queue = rest]]
            /\ durable' = durable \cup end[3]
            /\ IF awaiting = s /\ rest = <<>>
               THEN awaiting' = 0 /\ answer' = end[1]
               ELSE UNCHANGED <<awaiting, answer>>
            /\ view' = IF st.op = "READ" THEN durable \cup sess[s].staged ELSE view
            /\ \/ creqs' = creqs
               \/ late /\ creqs' = creqs + 1
    /\ UNCHANGED <<engine, conn, fired, lost>>

(* The read on a session of its own is answered: it sees what is           *)
(* committed.  It reads what the writes wrote, so on SQL Server it waits   *)
(* for the locks of an open transaction.                                   *)
ServeAside ==
    /\ awaiting = Aside
    /\ engine = "Mssql" => \A s \in Sessions : sess[s].staged = {}
    /\ awaiting' = 0
    /\ \/ answer' = "ok" /\ view' = durable
       \/ answer' = "error" /\ UNCHANGED view
    /\ UNCHANGED <<engine, sess, conn, fired, creqs, durable, lost>>

(* A watcher sees its token cancelled while its statement is in the        *)
(* session's pipeline, and sends a CancelRequest over another connection.  *)
Watch(s) ==
    /\ OneSession
    /\ \E j \in 1 .. Len(sess[s].queue) :
         /\ sess[s].queue[j].tok \in fired
         /\ ~sess[s].queue[j].asked
         /\ sess' = [sess EXCEPT ![s].queue[j].asked = TRUE]
    /\ creqs' = creqs + 1
    /\ UNCHANGED <<engine, conn, awaiting, answer, fired, durable, view, lost>>

(* The CancelRequest reaches the server: it hits whatever the session is   *)
(* executing at that moment, if anything.                                  *)
CancelLands ==
    /\ creqs > 0
    /\ creqs' = creqs - 1
    /\ sess' = [s \in Sessions |->
                  IF s = 1 /\ sess[s].state = "open" /\ sess[s].queue # <<>>
                  THEN [sess[s] EXCEPT !.queue[1].hit = TRUE]
                  ELSE sess[s]]
    /\ UNCHANGED <<engine, conn, awaiting, answer, fired, durable, view, lost>>

(* A session nobody owns or awaits any more closes once its pipeline is    *)
(* empty; an open transaction is rolled back.                              *)
Close(s) ==
    /\ sess[s].state = "open"
    /\ conn # s
    /\ awaiting # s
    /\ sess[s].queue = <<>>
    /\ sess' = [sess EXCEPT ![s] = Fresh("closed")]
    /\ UNCHANGED <<engine, conn, awaiting, answer, fired, creqs, durable, view, lost>>

(* The network connection is lost, before or after the server has carried  *)
(* out the statement it was working on; the answer is lost with it.  (When *)
(* nobody uses the session any more, this is no different from Close.)     *)
LinkLost(s) ==
    /\ LinkMayFail /\ Networked
    /\ sess[s].state = "open"
    /\ conn = s \/ awaiting = s
    /\ lost' = TRUE
    /\ \/ UNCHANGED durable
       \/ /\ sess[s].queue # <<>>
          /\ \E end \in Ends(s, Head(sess[s].queue), sess[s]) :
                durable' = durable \cup end[3]
    /\ sess' = [sess EXCEPT ![s] = Fresh("closed")]
    /\ IF awaiting = s
       THEN awaiting' = 0 /\ answer' = "error"
       ELSE UNCHANGED <<awaiting, answer>>
    /\ UNCHANGED <<engine, conn, fired, creqs, view>>

Server ==
    \/ \E s \in Sessions : Serve(s) \/ Watch(s) \/ Close(s) \/ LinkLost(s)
    \/ ServeAside
    \/ CancelLands

(* The server works on what it has been given, and notices dead clients.   *)
ServerFairness ==
    /\ \A s \in Sessions : WF_sessionVars(Serve(s)) /\ WF_sessionVars(Close(s))
    /\ WF_sessionVars(ServeAside)
=============================================================================
