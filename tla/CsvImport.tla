------------------------------ MODULE CsvImport ------------------------------
(***************************************************************************)
(* dbc-ui/src/runner.rs: run_csv_import.  A blocking thread parses the     *)
(* file into chunks and sends them over a bounded channel; the driver      *)
(* writes each with one INSERT inside one transaction.  Each INSERT has a  *)
(* timeout and a token of its own; the user's cancel is looked at when a   *)
(* chunk arrives.  Chunk k is write k of Session; rows are left out.       *)
(***************************************************************************)
EXTENDS Session

CONSTANTS
    NChunks,   \* number of chunks in the file
    Depth,     \* CSV_IMPORT_PRODUCER_DEPTH
    Bounded    \* timeout_secs is Some

ASSUME CsvImportAssumption ==
    /\ NChunks \in Nat \ {0}
    /\ Stmts = 1 .. NChunks
    /\ Depth \in Nat \ {0}
    /\ Bounded \in BOOLEAN

VARIABLES
    bad,        \* the chunk that cannot be parsed or mapped, 0 if none (never changes)
    at,         \* the await the driver is suspended at
    k,          \* the chunks it has taken
    next,       \* the chunk the producer is at, 0 before it starts and once it has ended
    chan,       \* the channel between them
    reply       \* the last event: "none", "finished" or "failed"

control == <<bad, at, k, next, chan, reply>>
vars == <<sessionVars, control>>

TypeOK ==
    /\ SessionTypeOK
    /\ bad \in 0 .. NChunks
    /\ at \in {"start", "begin", "recv", "insert", "commit", "rollback", "done"}
    /\ k \in 0 .. NChunks
    /\ next \in 0 .. NChunks
    /\ chan \in Seq(Stmts) /\ Len(chan) <= Depth
    /\ reply \in {"none", "finished", "failed"}

Init ==
    /\ SessionInit
    /\ bad \in 0 .. NChunks
    /\ at = "start" /\ k = 0 /\ next = 0 /\ chan = <<>>
    /\ reply = "none"

-----------------------------------------------------------------------------
(* The driver *)

Cancelled == RunToken \in fired

(* BEGIN, COMMIT or ROLLBACK under a child of the import's token.          *)
Control(op) ==
    /\ Execute(conn, fired, Statement(op, NoStatement, RunToken))
    /\ UNCHANGED <<engine, fired, creqs, durable, view, lost>>

(* The channel's receiver goes with the driver.                            *)
Return(r) ==
    /\ reply' = r
    /\ at' = "done"
    /\ chan' = <<>>
    /\ UNCHANGED <<bad, k, next>>
    /\ DropConnection

(* Read-only, already cancelled, or open_spec fails.                       *)
NotOpened ==
    /\ at = "start"
    /\ Return("failed")

Start ==
    /\ at = "start"
    /\ ~Cancelled
    /\ at' = "begin"
    /\ Execute(Opened, fired, Statement("BEGIN", NoStatement, RunToken))
    /\ UNCHANGED <<engine, fired, creqs, durable, view, lost, bad, k, next, chan, reply>>

Begun ==
    /\ at = "begin"
    /\ answer = "ok"
    /\ at' = "recv"
    /\ next' = 1
    /\ UNCHANGED <<sessionVars, bad, k, chan, reply>>

NotBegun ==
    /\ at = "begin"
    /\ answer \in {"error", "cancelled"}
    /\ Return("failed")

(* Mutant: a chunk that cannot be used is passed over.                     *)
TakeChunk_PassOver ==
    /\ at = "recv"
    /\ chan # <<>>
    /\ chan' = Tail(chan)
    /\ k' = k + 1
    /\ \/ Cancelled /\ Control("ROLLBACK") /\ at' = "rollback"
       \/ /\ ~Cancelled /\ Head(chan) # bad
          /\ Execute(conn, fired, Statement("WRITE", Head(chan), Head(chan)))
          /\ UNCHANGED <<engine, fired, creqs, durable, view, lost>>
          /\ at' = "insert"
       \/ ~Cancelled /\ Head(chan) = bad /\ UNCHANGED <<sessionVars, at>>
    /\ UNCHANGED <<bad, next, reply>>

(* A chunk arrives: the cancel is looked at, then the chunk.               *)
TakeChunk ==
    /\ at = "recv"
    /\ chan # <<>>
    /\ chan' = Tail(chan)
    /\ k' = k + 1
    /\ \/ /\ Cancelled \/ Head(chan) = bad
          /\ Control("ROLLBACK")
          /\ at' = "rollback"
       \/ /\ ~Cancelled /\ Head(chan) # bad
          /\ Execute(conn, fired, Statement("WRITE", Head(chan), Head(chan)))
          /\ UNCHANGED <<engine, fired, creqs, durable, view, lost>>
          /\ at' = "insert"
    /\ UNCHANGED <<bad, next, reply>>

Inserted ==
    /\ at = "insert"
    /\ answer \in {"ok", "mismatch"}
    /\ at' = "recv"
    /\ UNCHANGED <<sessionVars, bad, k, next, chan, reply>>

(* The channel is empty and its sender gone: the file has been read.       *)
EndOfFile ==
    /\ at = "recv"
    /\ chan = <<>> /\ next = 0
    /\ Control("COMMIT")
    /\ at' = "commit"
    /\ UNCHANGED <<bad, k, next, chan, reply>>

(* An INSERT or the COMMIT fails.                                          *)
Fail ==
    /\ at \in {"insert", "commit"}
    /\ answer \in {"error", "cancelled"}
    /\ Control("ROLLBACK")
    /\ at' = "rollback"
    /\ UNCHANGED <<bad, k, next, chan, reply>>

(* The INSERT exceeds its timeout: its future is dropped, its own token    *)
(* fires, and the ROLLBACK is sent.                                        *)
TimeOut ==
    /\ Bounded
    /\ at = "insert"
    /\ answer = "none"
    /\ fired' = fired \cup {k}
    /\ Execute(AfterDrop, fired', Statement("ROLLBACK", NoStatement, RunToken))
    /\ at' = "rollback"
    /\ UNCHANGED <<engine, creqs, durable, view, lost, bad, k, next, chan, reply>>

Committed ==
    /\ at = "commit"
    /\ answer = "ok"
    /\ Return("finished")

(* Mutant: the ROLLBACK is sent again until it succeeds.                   *)
RolledBack_Retries ==
    /\ at = "rollback"
    /\ \/ answer = "ok" /\ Return("failed")
       \/ answer \in {"error", "cancelled"} /\ Control("ROLLBACK") /\ UNCHANGED control

(* Whatever became of the ROLLBACK.                                        *)
RolledBack ==
    /\ at = "rollback"
    /\ answer # "none"
    /\ Return("failed")

Driver ==
    \/ NotOpened \/ Start \/ Begun \/ NotBegun \/ TakeChunk \/ Inserted \/ EndOfFile
    \/ Fail \/ Committed \/ RolledBack

-----------------------------------------------------------------------------
(* The producer *)

(* What follows the chunk sent: a chunk that cannot be parsed ends the     *)
(* producer, one that only the driver refuses does not.                    *)
After ==
    IF next = NChunks THEN {0}
    ELSE IF next = bad THEN {0, next + 1}
    ELSE {next + 1}

(* Mutant: an error in the file ends the producer without a word.          *)
Produce_SilentError ==
    /\ next # 0
    /\ at # "done"
    /\ IF next = bad THEN UNCHANGED chan ELSE Len(chan) < Depth /\ chan' = Append(chan, next)
    /\ next' \in After
    /\ UNCHANGED <<sessionVars, bad, at, k, reply>>

(* It waits for room; an error is the last thing it sends.                 *)
Produce ==
    /\ next # 0
    /\ at # "done"
    /\ Len(chan) < Depth
    /\ chan' = Append(chan, next)
    /\ next' \in After
    /\ UNCHANGED <<sessionVars, bad, at, k, reply>>

(* The driver has hung up: the send fails.                                 *)
HungUp ==
    /\ next # 0
    /\ at = "done"
    /\ next' = 0
    /\ UNCHANGED <<sessionVars, bad, at, k, chan, reply>>

Producer == Produce \/ HungUp

(* The user cancels: the import's token and all its children fire.         *)
Cancel ==
    /\ at # "done"
    /\ ~Cancelled
    /\ fired' = fired \cup {RunToken} \cup Stmts
    /\ UNCHANGED <<engine, sess, conn, awaiting, answer, creqs, durable, view, lost, control>>

(* The import is over: only the server may still have something to do.     *)
Quiet ==
    /\ at = "done"
    /\ UNCHANGED vars

Next ==
    \/ Driver \/ Producer \/ TimeOut \/ Cancel
    \/ Server /\ UNCHANGED control
    \/ Quiet

Spec == Init /\ [][Next]_vars

(* The driver and the blocking thread run; nothing makes the timer fire    *)
(* or the user cancel, and the server may hang.                            *)
FairSpec == Spec /\ WF_vars(Driver) /\ WF_vars(Producer) /\ WF_vars(TimeOut)

-----------------------------------------------------------------------------
(* Properties *)

(* The import is never partial: whatever fails, times out or is cancelled, *)
(* in the file or in the database, all chunks are durable or none is, and  *)
(* none of a file that cannot be read to its end.                          *)
NeverPartial == durable \in IF bad = 0 THEN {{}, Stmts} ELSE {{}}

(* The import implements AtomicApply: Finished only once all of it is      *)
(* durable, Failed only if nothing is nor ever will be, unless the network *)
(* failed at the COMMIT.                                                   *)
Reply == CASE reply = "finished" -> "ok"
           [] reply = "failed" -> IF lost THEN "timeout" ELSE "error"
           [] OTHER -> "none"

Atomic == INSTANCE AtomicApply WITH applied <- (durable = Stmts), reply <- Reply
ImportsAtomically == Atomic!AbsSpec

(* If the server answers, the import ends, and with it its producer: the   *)
(* two never wait for each other over the bounded channel.                 *)
ImportEnds == ServerFairness => <>[](at = "done" /\ next = 0)

(* What every state satisfies. *)
Inv == TypeOK /\ NeverPartial
=============================================================================
