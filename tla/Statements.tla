----------------------------- MODULE Statements -----------------------------
(***************************************************************************)
(* The statements of one SQL text run in order over one connection of      *)
(* their own: connect_and_run_many_inner and run_one_multi_statement       *)
(* (dbc-ui/src/runner.rs).  RunMany runs them once, MultiRun once for each *)
(* target.                                                                 *)
(*                                                                         *)
(* A job <<r, t>> is run r on target t.  A statement reads or writes; a    *)
(* read yields rows in batches of one, a write touches one row.  What the  *)
(* driver answers is external; `truth` is what really became of each       *)
(* statement, for the properties only.                                     *)
(***************************************************************************)
EXTENDS Integers, Sequences, FiniteSets

CONSTANTS
    MaxRuns,     \* bound: runs started
    MaxTargets,  \* bound: databases a run goes to
    MaxStmts,    \* bound: statements of a text
    MaxRows,     \* bound: rows of a result
    ChanCap      \* capacity of the channel between a job and its event loop

ASSUME StatementsAssumption ==
    /\ {MaxRuns, MaxTargets, MaxStmts, ChanCap} \subseteq Nat \ {0}
    /\ MaxRows \in Nat

Runs == 1 .. MaxRuns
NoRun == 0
Targets == 1 .. MaxTargets
Jobs == Runs \X Targets
Texts == UNION {[1 .. n -> {"read", "write"}] : n \in 1 .. MaxStmts}

VARIABLES
    text,   \* the statements of each run
    guard,  \* the jobs whose connection was read-only when it was opened
    task,   \* where each job stands, and the statement it is at
    chan,   \* the events on their way to the loop
    fired,  \* the runs whose token is cancelled
    loop,   \* the event loop of each run: it receives until it is done
    truth   \* what became of each statement: a history variable

jobVars == <<text, guard, task, chan, fired, loop, truth>>

Event(ev, stmt, rows, code) == [ev |-> ev, stmt |-> stmt, rows |-> rows, code |-> code]
Plain(ev) == Event(ev, 0, 0, "")
(* columns: Some and None *)
ReadStarted(s) == Event("ReadStarted", s, 0, "")
WriteStarted(s) == Event("WriteStarted", s, 0, "")
Batch(s) == Event("Batch", s, 1, "")
(* affected: None, and Some(n) *)
ReadFinished(s) == Event("ReadFinished", s, 0, "")
WriteFinished(s, n) == Event("WriteFinished", s, n, "")
StatementFailed(s, code) == Event("StatementFailed", s, 0, code)

(* The places with a statement under way.                                  *)
InStatement == {"query", "stream", "exec"}
Idle == [at |-> "none", stmt |-> 0]
Unknown == [state |-> "none", rows |-> 0]

StatementsType ==
    /\ \A r \in Runs : text[r] \in Texts \cup {<<>>}
    /\ guard \subseteq Jobs
    /\ \A j \in Jobs :
         /\ task[j].at \in {"none", "pending", "start", "next", "good", "bad",
                            "done"} \cup InStatement
         /\ task[j].stmt \in 0 .. MaxStmts
         /\ Len(chan[j]) <= ChanCap
         /\ \A s \in 1 .. MaxStmts :
              truth[j][s].state \in {"none", "running", "ok", "failed", "cancelled", "refused"}
    /\ fired \subseteq Runs
    /\ loop \in [Runs -> {"none", "recv", "done"}]

StatementsInit ==
    /\ text = [r \in Runs |-> <<>>]
    /\ guard = {}
    /\ task = [j \in Jobs |-> Idle]
    /\ chan = [j \in Jobs |-> <<>>]
    /\ fired = {}
    /\ loop = [r \in Runs |-> "none"]
    /\ truth = [j \in Jobs |-> [s \in 1 .. MaxStmts |-> Unknown]]

Started(r) == loop[r] # "none"

Go(j, place) == task' = [task EXCEPT ![j].at = place]

(* tx.send, the wait for room included; or it fails because the receiver   *)
(* is gone, which nobody looks at.                                         *)
Send(j, ev) ==
    \/ loop[j[1]] = "done" /\ UNCHANGED chan
    \/ loop[j[1]] # "done" /\ Len(chan[j]) < ChanCap /\ chan' = [chan EXCEPT ![j] = Append(@, ev)]

Becomes(j, s, state, n) ==
    truth' = [truth EXCEPT ![j][s] = [state |-> state, rows |-> @.rows + n]]

(* The statement has failed: the caller stops.                             *)
Fail(j, s, state, code) ==
    /\ Send(j, StatementFailed(s, code))
    /\ Becomes(j, s, state, 0)
    /\ Go(j, "bad")

-----------------------------------------------------------------------------
(* Mutant: a connection that cannot be opened is not reported.             *)
Open_Silent(j) ==
    /\ task[j].at = "start"
    /\ \/ Go(j, IF j[1] \in fired THEN "bad" ELSE "next")
       \/ Go(j, "bad")
    /\ UNCHANGED <<chan, truth, text, guard, fired, loop>>

(* The token is looked at, and the connection opened: a cancel during the  *)
(* opening is seen by the next look.  A connection that cannot be opened   *)
(* is reported as the first statement.                                     *)
Open(j) ==
    /\ task[j].at = "start"
    /\ \/ Go(j, IF j[1] \in fired THEN "bad" ELSE "next") /\ UNCHANGED <<chan, truth>>
       \/ Fail(j, 1, "failed", "")
    /\ UNCHANGED <<text, guard, fired, loop>>

(* The head of the loop over the statements; the token is not looked at    *)
(* once the last one is through.                                           *)
NextStatement(j) ==
    LET s == task[j].stmt + 1
        Begin(place) == task' = [task EXCEPT ![j] = [at |-> place, stmt |-> s]]
    IN /\ task[j].at = "next"
       /\ \/ /\ s > Len(text[j[1]])
             /\ Send(j, Plain("RunFinished")) /\ Go(j, "good") /\ UNCHANGED truth
          \/ /\ s <= Len(text[j[1]]) /\ j[1] \in fired
             /\ Go(j, "bad") /\ UNCHANGED <<chan, truth>>
          \/ /\ s <= Len(text[j[1]]) /\ j[1] \notin fired
             /\ \/ /\ text[j[1]][s] = "read"
                   /\ Begin("query") /\ Becomes(j, s, "running", 0) /\ UNCHANGED chan
                \/ /\ text[j[1]][s] = "write" /\ j \notin guard
                   /\ Send(j, WriteStarted(s)) /\ Begin("exec") /\ Becomes(j, s, "running", 0)
                \/ /\ text[j[1]][s] = "write" /\ j \in guard
                   /\ Fail(j, s, "refused", "")
       /\ UNCHANGED <<text, guard, fired, loop>>

(* The driver: query() gives a stream or an error; the stream a row, an    *)
(* error or its end; execute() a count or an error.  A timeout drops the   *)
(* statement and is an error like others; it cancels a token of its own,   *)
(* not the run's.                                                          *)
Answer(j) ==
    LET s == task[j].stmt IN
    /\ \/ task[j].at = "query" /\ Send(j, ReadStarted(s)) /\ Go(j, "stream") /\ UNCHANGED truth
       \/ /\ task[j].at = "stream" /\ truth[j][s].rows < MaxRows
          /\ Send(j, Batch(s)) /\ Becomes(j, s, "running", 1) /\ UNCHANGED task
       \/ task[j].at = "stream" /\ Send(j, ReadFinished(s)) /\ Becomes(j, s, "ok", 0) /\ Go(j, "next")
       \/ task[j].at = "exec" /\ Send(j, WriteFinished(s, 1)) /\ Becomes(j, s, "ok", 1) /\ Go(j, "next")
       \/ task[j].at \in InStatement /\ Fail(j, s, "failed", "")
       \/ task[j].at \in InStatement /\ j[1] \in fired /\ Fail(j, s, "cancelled", "cancelled")
    /\ UNCHANGED <<text, guard, fired, loop>>

Job(j) == Open(j) \/ NextStatement(j) \/ Answer(j)

(* The event loop of run r has the event ev of job j in hand.              *)
Ready(j, ev) == loop[j[1]] = "recv" /\ chan[j] # <<>> /\ Head(chan[j]).ev = ev

JobsOf(r) == {r} \X Targets

(* It takes it and goes on, or it ends and drops the receiver.             *)
Continue(j) ==
    /\ chan' = [chan EXCEPT ![j] = Tail(@)]
    /\ UNCHANGED loop

Leave(r) ==
    /\ loop' = [loop EXCEPT ![r] = "done"]
    /\ chan' = [j \in Jobs |-> IF j[1] = r THEN <<>> ELSE chan[j]]

(* Everything a run has counted, and everything there was.                 *)
RowsThere(j) ==
    LET count[s \in 0 .. MaxStmts] == IF s = 0 THEN 0 ELSE count[s - 1] + truth[j][s].rows
    IN count[MaxStmts]

AllOk(j) == \A s \in DOMAIN text[j[1]] : truth[j][s].state = "ok"
=============================================================================
