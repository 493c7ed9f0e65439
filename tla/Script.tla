------------------------------- MODULE Script --------------------------------
(***************************************************************************)
(* dbc-ui/src/runner.rs: run_script and drive_script, a run of .sql files  *)
(* over one Connection.  A transaction spans nothing, each file or the     *)
(* whole run; a failure stops the run, skips the file or is passed over;   *)
(* each statement has a timeout and a child of the run's token.  A step is *)
(* what the future does between two awaits; the statements of file f are   *)
(* numbered on from those of file f - 1.  The event channel is abstracted  *)
(* to what its events leave in the progress tab (main.rs).                 *)
(***************************************************************************)
EXTENDS Session

CONSTANTS
    NFiles, FileLen,      \* number of files, statements in each
    Reads,                \* the statements that are reads
    TxScopes, Policies,   \* the options a run may be started with
    Bounded               \* statement_timeout_secs is Some

ASSUME ScriptAssumption ==
    /\ NFiles \in Nat \ {0} /\ FileLen \in Nat \ {0}
    /\ Stmts = 1 .. NFiles * FileLen
    /\ Reads \subseteq Stmts
    /\ TxScopes \subseteq {"None", "PerFile", "WholeRun"}
    /\ Policies \subseteq {"Stop", "Continue"}
    /\ Bounded \in BOOLEAN

VARIABLES
    opts,      \* [scope, policy, readOnly] of the run (never changes)
    at,        \* where the future is
    file,      \* the file it is at; NFiles + 1 once past the last
    stmt,      \* the statement it is at
    stop,      \* stop_action: why the file is left early, or "none"
    finished,  \* the statements reported as finished
    failed,    \* the files with a reported failure
    chip,      \* each file's status in the progress tab
    report     \* RunFinished: "none", "completed" or "aborted"

control == <<opts, at, file, stmt, stop, finished, failed, chip, report>>
vars == <<sessionVars, control>>

Files == 1 .. NFiles
FirstOf(f) == (f - 1) * FileLen + 1
LastOf(f)  == f * FileLen
WritesOf(f) == (FirstOf(f) .. LastOf(f)) \ Reads

Places == {"start", "begin", "file", "fbegin", "split", "check", "issue", "await", "fcommit",
           "frollback", "stop", "rollback", "fend", "wcommit", "wrollback", "done"}

TypeOK ==
    /\ SessionTypeOK
    /\ opts \in [scope : TxScopes, policy : Policies, readOnly : BOOLEAN]
    /\ at \in Places
    /\ file \in 1 .. NFiles + 1
    /\ stmt \in 1 .. NFiles * FileLen + 1
    /\ stop \in {"none", "AbortRun", "NextFile"}
    /\ finished \in SUBSET Stmts
    /\ failed \in SUBSET Files
    /\ chip \in [Files -> {"Pending", "Running", "Done", "Failed", "Skipped"}]
    /\ report \in {"none", "completed", "aborted"}

Init ==
    /\ SessionInit
    /\ opts \in [scope : TxScopes, policy : Policies, readOnly : BOOLEAN]
    /\ at = "start" /\ file = 1 /\ stmt = 1 /\ stop = "none"
    /\ finished = {} /\ failed = {}
    /\ chip = [f \in Files |-> "Pending"]
    /\ report = "none"

-----------------------------------------------------------------------------
Cancelled == RunToken \in fired
Succeeded == answer \in {"ok", "mismatch"}   \* row counts are not checked
Answered  == answer # "none"

(* BEGIN, COMMIT or ROLLBACK, each under a child of the run's token.       *)
Control(op) ==
    /\ Execute(conn, fired, Statement(op, NoStatement, RunToken))
    /\ UNCHANGED <<engine, fired, creqs, durable, view, lost>>

(* RunFinished: an aborted run marks what it never came to.                *)
Skipped(c) == [f \in Files |-> IF c[f] \in {"Pending", "Running"} THEN "Skipped" ELSE c[f]]

Finish(r, c) ==
    /\ at' = "done"
    /\ report' = r
    /\ chip' = IF r = "aborted" THEN Skipped(c) ELSE c
    /\ UNCHANGED <<opts, file, stmt, stop, finished, failed>>
    /\ DropConnection

(* Mutant: Continue goes on inside the transaction of a file.              *)
FailureAction_ContinueInTx ==
    IF opts.policy = "Stop" \/ opts.scope = "WholeRun" THEN "AbortRun" ELSE "NextStatement"

FailureAction ==
    CASE opts.policy = "Stop" -> "AbortRun"
      [] opts.scope = "None" -> "NextStatement"
      [] opts.scope = "PerFile" -> "NextFile"
      [] OTHER -> "AbortRun"

FileLevelAction == IF opts.policy = "Stop" THEN "AbortRun" ELSE "NextFile"

(* A file-level failure: StatementFailed, then out of the file.            *)
FileFails ==
    /\ failed' = failed \cup {file}
    /\ stop' = FileLevelAction
    /\ at' = "stop"
    /\ UNCHANGED <<opts, file, stmt, finished, chip, report>>

(* Statement stmt fails: on to the next one or out of the file.            *)
StatementFails ==
    /\ failed' = failed \cup {file}
    /\ \/ /\ FailureAction = "NextStatement"
          /\ stmt' = stmt + 1
          /\ at' = "check"
          /\ UNCHANGED stop
       \/ /\ FailureAction # "NextStatement"
          /\ stop' = FailureAction
          /\ at' = "stop"
          /\ UNCHANGED stmt
    /\ UNCHANGED <<opts, file, finished, chip, report>>

Goto(place) ==
    /\ at' = place
    /\ UNCHANGED <<opts, file, stmt, stop, finished, failed, chip, report>>

-----------------------------------------------------------------------------
(* The run was cancelled before it began, or open_spec fails.              *)
NotOpened ==
    /\ at = "start"
    /\ Finish("aborted", chip)

Start ==
    /\ at = "start"
    /\ ~Cancelled
    /\ UNCHANGED <<engine, fired, creqs, durable, view, lost>>
    /\ \/ /\ opts.scope = "WholeRun"
          /\ Execute(Opened, fired, Statement("BEGIN", NoStatement, RunToken))
          /\ Goto("begin")
       \/ /\ opts.scope # "WholeRun"
          /\ conn' = Opened
          /\ UNCHANGED <<sess, awaiting, answer>>
          /\ Goto("file")

RunBegun ==
    /\ at = "begin"
    /\ Answered
    /\ \/ Succeeded /\ Goto("file") /\ UNCHANGED sessionVars
       \/ ~Succeeded /\ Finish("aborted", chip)

(* The head of the loop over the files.                                    *)
CancelledAtFile ==
    /\ at = "file"
    /\ file <= NFiles
    /\ Cancelled
    /\ Finish("aborted", chip)

StartFile ==
    /\ at = "file"
    /\ file <= NFiles
    /\ ~Cancelled
    /\ chip' = [chip EXCEPT ![file] = "Running"]
    /\ stmt' = FirstOf(file)
    /\ \/ opts.scope = "PerFile" /\ Control("BEGIN") /\ at' = "fbegin"
       \/ opts.scope # "PerFile" /\ at' = "split" /\ UNCHANGED sessionVars
    /\ UNCHANGED <<opts, file, stop, finished, failed, report>>

FileBegun ==
    /\ at = "fbegin"
    /\ Answered
    /\ UNCHANGED sessionVars
    /\ \/ Succeeded /\ Goto("split")
       \/ ~Succeeded /\ FileFails

(* read_and_split_file.                                                    *)
Split ==
    /\ at = "split"
    /\ UNCHANGED sessionVars
    /\ Goto("check") \/ FileFails

(* The head of the loop over a file's statements, and the clean end of it. *)
CheckCancel ==
    /\ at = "check"
    /\ stmt <= LastOf(file)
    /\ UNCHANGED sessionVars
    /\ \/ ~Cancelled /\ Goto("issue")
       \/ /\ Cancelled
          /\ stop' = "AbortRun"
          /\ at' = "stop"
          /\ UNCHANGED <<opts, file, stmt, finished, failed, chip, report>>

EndOfStatements ==
    /\ at = "check"
    /\ stmt > LastOf(file)
    /\ \/ opts.scope = "PerFile" /\ Control("COMMIT") /\ Goto("fcommit")
       \/ opts.scope # "PerFile" /\ UNCHANGED sessionVars /\ Goto("fend")

(* run_script_statement, after StatementStarted was sent.                  *)
RejectReadOnly ==
    /\ at = "issue"
    /\ opts.readOnly /\ stmt \notin Reads
    /\ StatementFails
    /\ UNCHANGED sessionVars

Issue ==
    /\ at = "issue"
    /\ \/ stmt \in Reads /\ Query(Statement("READ", stmt, stmt))
       \/ /\ stmt \notin Reads /\ ~opts.readOnly
          /\ Execute(conn, fired, Statement("WRITE", stmt, stmt))
    /\ UNCHANGED <<engine, fired, creqs, durable, view, lost>>
    /\ Goto("await")

StatementFinished ==
    /\ at = "await"
    /\ Succeeded
    /\ finished' = finished \cup {stmt}
    /\ stmt' = stmt + 1
    /\ at' = "check"
    /\ UNCHANGED <<sessionVars, opts, file, stop, failed, chip, report>>

StatementFailed ==
    /\ at = "await"
    /\ answer \in {"error", "cancelled"}
    /\ StatementFails
    /\ UNCHANGED sessionVars

(* The statement's timer fires: its future is dropped, its token fired.    *)
TimeOut ==
    /\ Bounded
    /\ at = "await"
    /\ answer = "none"
    /\ conn' = IF stmt \in Reads THEN conn ELSE AfterDrop
    /\ awaiting' = 0
    /\ answer' = "error"
    /\ fired' = fired \cup {stmt}
    /\ StatementFails
    /\ UNCHANGED <<engine, sess, creqs, durable, view, lost>>

FileCommitted ==
    /\ at = "fcommit"
    /\ Answered
    /\ \/ Succeeded /\ UNCHANGED sessionVars /\ Goto("fend")
       \/ ~Succeeded /\ Control("ROLLBACK") /\ Goto("frollback")

FileRolledBack ==
    /\ at = "frollback"
    /\ Answered
    /\ FileFails
    /\ UNCHANGED sessionVars

(* What a stop_action does to the transaction.                             *)
StopFile ==
    /\ at = "stop"
    /\ \/ /\ opts.scope = "PerFile" \/ (stop = "AbortRun" /\ opts.scope = "WholeRun")
          /\ Control("ROLLBACK")
          /\ Goto("rollback")
       \/ /\ opts.scope = "None" \/ (stop = "NextFile" /\ opts.scope = "WholeRun")
          /\ UNCHANGED sessionVars
          /\ Goto("fend")

RolledBack ==
    /\ at = "rollback"
    /\ Answered
    /\ Goto("fend")
    /\ UNCHANGED sessionVars

(* FileFinished, and the next turn of the loop or the end of the run.      *)
Shown == [chip EXCEPT ![file] = IF file \in failed THEN "Failed" ELSE "Done"]

EndFile ==
    /\ at = "fend"
    /\ \/ stop = "AbortRun" /\ Finish("aborted", Shown)
       \/ /\ stop # "AbortRun"
          /\ chip' = Shown
          /\ file' = file + 1
          /\ stop' = "none"
          /\ at' = "file"
          /\ UNCHANGED <<sessionVars, opts, stmt, finished, failed, report>>

EndOfFiles ==
    /\ at = "file"
    /\ file > NFiles
    /\ \/ opts.scope = "WholeRun" /\ Control("COMMIT") /\ Goto("wcommit")
       \/ opts.scope # "WholeRun" /\ Finish("completed", chip)

(* Mutant: the answer to the run's COMMIT is not looked at.                *)
RunCommitted_Unchecked ==
    /\ at = "wcommit"
    /\ Answered
    /\ Finish("completed", chip)

RunCommitted ==
    /\ at = "wcommit"
    /\ Answered
    /\ \/ Succeeded /\ Finish("completed", chip)
       \/ ~Succeeded /\ Control("ROLLBACK") /\ Goto("wrollback")

RunRolledBack ==
    /\ at = "wrollback"
    /\ Answered
    /\ Finish("aborted", chip)

Client ==
    \/ NotOpened \/ Start \/ RunBegun
    \/ CancelledAtFile \/ StartFile \/ FileBegun \/ Split
    \/ CheckCancel \/ EndOfStatements
    \/ RejectReadOnly \/ Issue \/ StatementFinished \/ StatementFailed
    \/ FileCommitted \/ FileRolledBack \/ StopFile \/ RolledBack \/ EndFile
    \/ EndOfFiles \/ RunCommitted \/ RunRolledBack

(* The user cancels: the run's token and all its children fire.            *)
Cancel ==
    /\ at # "done"
    /\ ~Cancelled
    /\ fired' = fired \cup {RunToken} \cup Stmts
    /\ UNCHANGED <<engine, sess, conn, awaiting, answer, creqs, durable, view, lost, control>>

(* The run is over: only the server may still have something to do.        *)
Quiet ==
    /\ at = "done"
    /\ UNCHANGED vars

Next ==
    \/ Client
    \/ TimeOut
    \/ Cancel
    \/ Server /\ UNCHANGED control
    \/ Quiet

Spec == Init /\ [][Next]_vars

(* The future is polled, its timers fire and the server answers.           *)
FairSpec == Spec /\ WF_vars(Client) /\ WF_vars(TimeOut) /\ ServerFairness

-----------------------------------------------------------------------------
(* Properties *)

(* What the TxScope promises, whatever the failures, timeouts, cancels and *)
(* the engine's own idea of a failed statement: a file takes effect as a   *)
(* whole or not at all, and so does the run, less the files that could not *)
(* be read; a read-only run has no effect.                                 *)
UnitsAreAtomic ==
    /\ opts.scope = "PerFile" =>
         \A f \in Files : durable \cap WritesOf(f) \in {{}, WritesOf(f)}
    /\ opts.scope = "WholeRun" =>
         durable \in {{}, UNION {WritesOf(f) : f \in Files \ failed}}
    /\ opts.readOnly => durable = {}

(* The report tells the truth, then and later: the files a completed run   *)
(* shows as done are durable, and nothing of a skipped file is.  Unless    *)
(* the network failed (the COMMIT may have been lost, or only its answer), *)
(* under PerFile nothing of a failed file is durable either, and an        *)
(* aborted WholeRun has left nothing.                                      *)
ReportIsHonest ==
    /\ report = "completed" =>
         \A f \in Files : chip[f] = "Done" => WritesOf(f) \subseteq durable
    /\ report # "none" =>
         \A f \in Files : chip[f] = "Skipped" => durable \cap WritesOf(f) = {}
    /\ report = "completed" /\ opts.scope = "PerFile" /\ ~lost =>
         \A f \in Files : chip[f] = "Failed" => durable \cap WritesOf(f) = {}
    /\ report = "aborted" /\ opts.scope = "WholeRun" /\ ~lost => durable = {}

(* A run whose statements are bounded ends, cancelled or not, even if a    *)
(* read of the script waits for the script's own locks.                    *)
Finishes == <>(at = "done")

(* No session of the run stays open with its transaction and its locks.    *)
NothingLeftOpen ==
    (at = "done") ~> \A s \in Sessions : sess[s].state # "open" /\ sess[s].staged = {}

(* The trait's documentation of a script's reads: they run "inside the     *)
(* script's own transaction", so a read sees what its file wrote before.   *)
ReadsSeeOwnWrites ==
    at = "await" /\ stmt \in Reads /\ answer = "ok" =>
        (finished \cap WritesOf(file)) \subseteq view

(* The comment on the timeout: it cancels "the in-flight statement ONLY",  *)
(* so no statement is cancelled whose own token has not fired.             *)
CancelIsPrecise == at = "await" /\ answer = "cancelled" => stmt \in fired

(* What every state satisfies. *)
Inv == TypeOK /\ UnitsAreAtomic

(* The run ends, and nothing of it stays behind. *)
EndsClean == Finishes /\ NothingLeftOpen
=============================================================================
