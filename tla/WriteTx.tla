------------------------------- MODULE WriteTx -------------------------------
(***************************************************************************)
(* dbc-ui/src/runner.rs: run_write_transaction, the only path by which the *)
(* Apply dialog and the admin panel write.  BEGIN, the statements in order *)
(* with their affected-row checks, COMMIT; ROLLBACK after the first        *)
(* failure; all of it bounded by a timeout, which cancels the token, drops *)
(* the sequence and tries a ROLLBACK of its own under a grace period.      *)
(* Every execute() is one step of Session; a step here is what the future  *)
(* does between two awaits.                                                *)
(***************************************************************************)
EXTENDS Session

CONSTANTS
    NStmts,    \* number of statements; statement k makes write k
    Bounded    \* timeout_secs is Some

ASSUME WriteTxAssumption ==
    /\ NStmts \in Nat \ {0}
    /\ Stmts = 1 .. NStmts
    /\ Bounded \in BOOLEAN

VARIABLES
    checked,  \* the statements with an expected row count (never changes)
    at,       \* the await the future is suspended at
    k,        \* the statement it is at
    reply     \* what the caller was told

control == <<checked, at, k, reply>>
txVars == <<sessionVars, control>>

Steps == {"start", "begin", "stmt", "commit", "rollback", "grace", "done"}

TxTypeOK ==
    /\ SessionTypeOK
    /\ checked \in SUBSET Stmts
    /\ at \in Steps
    /\ k \in 0 .. NStmts
    /\ reply \in {"none", "ok", "error", "timeout"}

TxInit ==
    /\ SessionInit
    /\ checked \in SUBSET Stmts
    /\ at = "start"
    /\ k = 0
    /\ reply = "none"

-----------------------------------------------------------------------------
(* execute() within the sequence, under the run's token.                   *)
Exec(op, id) ==
    /\ Execute(conn, fired, Statement(op, id, RunToken))
    /\ UNCHANGED <<engine, fired, creqs, durable, view, lost, checked>>

Return(r) ==
    /\ reply' = r
    /\ at' = "done"
    /\ UNCHANGED <<checked, k>>
    /\ DropConnection

(* A read-only connection is refused, or open_spec fails.                  *)
NotOpened ==
    /\ at = "start"
    /\ Return("error")

Start ==
    /\ at = "start"
    /\ at' = "begin"
    /\ Execute(Opened, fired, Statement("BEGIN", NoStatement, RunToken))
    /\ UNCHANGED <<engine, fired, creqs, durable, view, lost, checked, k, reply>>

(* affected_mismatch: the answer is not the one statement k expects.       *)
Mismatch == at = "stmt" /\ answer = "mismatch" /\ k \in checked

(* Mutant: any answer will do.                                             *)
Succeeded_AnyAnswer == answer # "none"

Succeeded == answer = "ok" \/ (answer = "mismatch" /\ k \notin checked)

(* BEGIN or statement k succeeded and statement k + 1 follows.             *)
NextStatement ==
    /\ at \in {"begin", "stmt"}
    /\ Succeeded
    /\ k < NStmts
    /\ at' = "stmt"
    /\ k' = k + 1
    /\ Exec("WRITE", k + 1)
    /\ UNCHANGED reply

SendCommit ==
    /\ at = "stmt"
    /\ Succeeded
    /\ k = NStmts
    /\ at' = "commit"
    /\ Exec("COMMIT", NoStatement)
    /\ UNCHANGED <<k, reply>>

(* Mutant: COMMIT is taken to have succeeded.                              *)
Committed_Unchecked ==
    /\ at = "commit"
    /\ answer # "none"
    /\ Return("ok")

Committed ==
    /\ at = "commit"
    /\ answer = "ok"
    /\ Return("ok")

(* The first failure (BEGIN, a statement, its row count or COMMIT) ends    *)
(* the sequence with a ROLLBACK whose own result is discarded.             *)
Fail ==
    /\ at \in {"begin", "stmt", "commit"}
    /\ answer \in {"error", "cancelled"} \/ Mismatch
    /\ at' = "rollback"
    /\ Exec("ROLLBACK", NoStatement)
    /\ UNCHANGED <<k, reply>>

RolledBack ==
    /\ at = "rollback"
    /\ answer # "none"
    /\ Return("error")

(* The timeout fires while the sequence is suspended: its future is        *)
(* dropped, the token cancelled, and a ROLLBACK sent under a fresh token.  *)
Expire ==
    /\ Bounded
    /\ at \in {"begin", "stmt", "commit", "rollback"}
    /\ answer = "none"
    /\ at' = "grace"
    /\ fired' = fired \cup {RunToken}
    /\ Execute(AfterDrop, {}, Statement("ROLLBACK", NoStatement, FreshToken))
    /\ UNCHANGED <<engine, creqs, durable, view, lost, checked, k, reply>>

(* The grace ROLLBACK is answered, whatever the answer, or its own timer   *)
(* fires.                                                                  *)
GraceAnswered ==
    /\ at = "grace"
    /\ answer # "none"
    /\ Return("timeout")

GraceExpires ==
    /\ at = "grace"
    /\ answer = "none"
    /\ Return("timeout")

Client ==
    \/ NotOpened \/ Start \/ NextStatement \/ SendCommit \/ Committed \/ Fail \/ RolledBack
    \/ GraceAnswered

Timers == Expire \/ GraceExpires

(* The reply is out: only the server may still have something to do.       *)
Quiet ==
    /\ at = "done"
    /\ UNCHANGED txVars

TxNext ==
    \/ Client
    \/ Timers
    \/ Server /\ UNCHANGED control
    \/ Quiet

TxSpec == TxInit /\ [][TxNext]_txVars

(* The future is polled and its timers fire; the server may hang.          *)
ClientFairness == WF_txVars(Client) /\ WF_txVars(Timers)

ClientSpec == TxSpec /\ ClientFairness

-----------------------------------------------------------------------------
(* Properties *)

(* The database never holds a part of the batch: the transaction is not    *)
(* split across sessions, no statement autocommits behind a failed one, no *)
(* commit follows a mismatch, whatever the engine does after an error.     *)
AllOrNothing == durable = {} \/ durable = Stmts

(* The batch implements AtomicApply: "ok" only once it is durable, "error" *)
(* only if it is not and never will be, unless the network failed: then    *)
(* "error" says no more than "timeout" (the COMMIT may have been lost, or  *)
(* only its answer).                                                       *)
Atomic == INSTANCE AtomicApply WITH
    applied <- (durable = Stmts),
    reply <- IF reply = "error" /\ lost THEN "timeout" ELSE reply
AppliesAtomically == Atomic!AbsSpec

(* With a timeout set, the caller always gets a reply, even from a server  *)
(* that never answers again: the Apply dialog cannot be wedged.            *)
AlwaysReplies == <>(at = "done")

(* Whatever was reported, no session of the batch stays open with its      *)
(* transaction and locks: dropping the connection is the backstop for      *)
(* every ROLLBACK that was refused, lost or sent on another session.       *)
NothingLeftOpen ==
    ServerFairness =>
        ((at = "done") ~> \A s \in Sessions : sess[s].state # "open" /\ sess[s].staged = {})

(* The documented reading of the timeout: the connection is dropped "which *)
(* aborts the transaction", so a batch reported as timed out is undone.    *)
TimeoutAborts == reply = "timeout" => durable = {}

(* The trait's contract for execute(): an implementation never re-opens    *)
(* the connection underneath it, so a transaction stays on one session.    *)
NeverReopened == Cardinality({s \in Sessions : sess[s].state # "unopened"}) <= 1

(* What every state satisfies. *)
Inv == TxTypeOK /\ AllOrNothing

(* The batch ends with a reply, and nothing of it stays behind. *)
EndsClean == AlwaysReplies /\ NothingLeftOpen
=============================================================================
