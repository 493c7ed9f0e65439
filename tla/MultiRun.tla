------------------------------ MODULE MultiRun ------------------------------
(***************************************************************************)
(* One text over several targets: the preflight and the write gate, the    *)
(* run, and the event loop of dispatch_multi_target that fills the status  *)
(* grid (dbc-ui/src/main.rs, runner.rs run_on_targets).                    *)
(*                                                                         *)
(* The fan-out below is RunTargets.  What it promises (TargetProtocol) is  *)
(* taken for granted: the events of a target arrive whole and in order,    *)
(* between Started and Finished; those of different targets in any order.  *)
(* One editor tab: every handler finds it by id.                           *)
(***************************************************************************)
EXTENDS Statements

CONSTANT MaxWork   \* bound: statements of all runs, once for each target

ASSUME MultiRunAssumption == MaxWork \in Nat

VARIABLES
    \* the editor tab
    editorOpen,  \* it exists
    cancel,      \* the run whose token is in its slot, or NoRun
    generation,  \* run_generation
    results,     \* the runs whose result tab is open
    gate,        \* the write confirmation on the screen: a text and its targets
    \* MultiTargetState and the locals of the event loop
    status,      \* the chip of each target
    error,       \* it has an error text
    current,     \* what the buffer of the statement holds, or NoBuffer
    counted,     \* rows_returned + affected
    spilled,     \* a batch could not be stored
    history      \* the entries recorded for each target

editor == <<editorOpen, cancel, generation, results>>
grid == <<status, error, current, counted, spilled>>
vars == <<jobVars, editor, gate, grid, history>>

NoBuffer == -1
NoGate == [text |-> <<>>, targets |-> 0]
Unfinished == {"pending", "running"}

TypeOK ==
    /\ StatementsType
    /\ editorOpen \in BOOLEAN
    /\ cancel \in 0 .. generation
    /\ generation \in 0 .. MaxRuns
    /\ results \subseteq 1 .. generation
    /\ \/ gate = NoGate
       \/ gate.text \in Texts /\ gate.targets \in Targets
    /\ status \in [Jobs -> {"none", "done", "failed", "cancelled"} \cup Unfinished]
    /\ error \in [Jobs -> BOOLEAN]
    /\ \A j \in Jobs : current[j] \in -1 .. MaxRows
    /\ spilled \subseteq Jobs
    /\ \A j \in Jobs : status[j] = "failed" => error[j]

Init ==
    /\ StatementsInit
    /\ editorOpen = TRUE
    /\ cancel = NoRun
    /\ generation = 0
    /\ results = {}
    /\ gate = NoGate
    /\ status = [j \in Jobs |-> "none"]
    /\ error = [j \in Jobs |-> FALSE]
    /\ current = [j \in Jobs |-> NoBuffer]
    /\ counted = [j \in Jobs |-> 0]
    /\ spilled = {}
    /\ history = [j \in Jobs |-> <<>>]

-----------------------------------------------------------------------------
(* The fan-out, as its protocol has it *)

Admit(j) ==
    /\ task[j].at = "pending" /\ j[1] \notin fired
    /\ Send(j, Plain("Started")) /\ Go(j, "start")
    /\ UNCHANGED <<text, guard, fired, loop, truth, editor, gate, grid, history>>

Finished(outcome) == Event("Finished", 0, 0, outcome)

(* Mutant: a queued target waits for a slot although the run is cancelled. *)
Refuse_Queued(j) ==
    /\ task[j].at = "pending" /\ j[1] \in fired
    /\ \E k \in JobsOf(j[1]) : task[k].at = "good"
    /\ Send(j, Finished("Cancelled")) /\ Go(j, "done")
    /\ UNCHANGED <<text, guard, fired, loop, truth, editor, gate, grid, history>>

Refuse(j) ==
    /\ task[j].at = "pending" /\ j[1] \in fired
    /\ Send(j, Finished("Cancelled")) /\ Go(j, "done")
    /\ UNCHANGED <<text, guard, fired, loop, truth, editor, gate, grid, history>>

Report(j) ==
    /\ \/ task[j].at = "good" /\ Send(j, Finished("Ok"))
       \/ task[j].at = "bad" /\ Send(j, Finished("Failed"))
    /\ Go(j, "done")
    /\ UNCHANGED <<text, guard, fired, loop, truth, editor, gate, grid, history>>

(* A panic in a job (of the driver's decoder, say) unwinds that job only.  *)
Panic(j) ==
    /\ task[j].at = "stream"
    /\ Go(j, "bad")
    /\ Becomes(j, task[j].stmt, "failed", 0)
    /\ UNCHANGED <<text, guard, chan, fired, loop, editor, gate, grid, history>>

-----------------------------------------------------------------------------
(* The user *)

Writes(sql) == \E s \in DOMAIN sql : sql[s] = "write"

(* multi_target_preflight: the whole run is refused if it writes and one   *)
(* of its targets is read-only, by the configuration of this moment.       *)
Preflight(sql, n, readOnly) == Writes(sql) => (1 .. n) \cap readOnly = {}

Work(r) == Len(text[r]) * Cardinality({j \in JobsOf(r) : task[j].at # "none"})
WorkSoFar ==
    LET upto[r \in 0 .. MaxRuns] == IF r = 0 THEN 0 ELSE upto[r - 1] + Work(r) IN upto[MaxRuns]

WithinBounds(sql, n) == generation < MaxRuns /\ WorkSoFar + Len(sql) * n <= MaxWork

Dispatch(sql, n, readOnly) ==
    LET r == generation + 1
        mine == {r} \X (1 .. n)
    IN /\ WithinBounds(sql, n)
       /\ text' = [text EXCEPT ![r] = sql]
       /\ guard' = guard \cup {j \in mine : Writes(sql) /\ j[2] \in readOnly}
       /\ task' = [j \in Jobs |-> IF j \in mine THEN [Idle EXCEPT !.at = "pending"] ELSE task[j]]
       /\ status' = [j \in Jobs |-> IF j \in mine THEN "pending" ELSE status[j]]
       /\ loop' = [loop EXCEPT ![r] = "recv"]
       /\ cancel' = r
       /\ generation' = r
       /\ results' = results \cup {r}
       /\ UNCHANGED <<chan, fired, truth>>

Busy == cancel # NoRun

(* run_on_targets_with_sql: a run that writes stops at the gate, one that  *)
(* only reads is dispatched.  The targets of a run are the first n.        *)
RunOnTargets ==
    /\ editorOpen /\ gate = NoGate
    /\ ~Busy
    /\ \E sql \in Texts, n \in Targets :
         IF Writes(sql)
         THEN /\ WithinBounds(sql, n)
              /\ gate' = [text |-> sql, targets |-> n]
              /\ UNCHANGED <<jobVars, cancel, generation, results, status>>
         ELSE Dispatch(sql, n, {}) /\ UNCHANGED gate
    /\ UNCHANGED <<editorOpen, error, current, counted, spilled, history>>

(* on_confirm_multi_target_write: meanwhile the tab may have gone, and the *)
(* configuration may have changed, so the preflight is done again.         *)
ConfirmWrite ==
    /\ gate # NoGate
    /\ gate' = NoGate
    /\ \E readOnly \in SUBSET (1 .. gate.targets) :
         IF editorOpen /\ ~Busy /\ Preflight(gate.text, gate.targets, readOnly)
         THEN Dispatch(gate.text, gate.targets, readOnly)
         ELSE UNCHANGED <<jobVars, cancel, generation, results, status>>
    /\ UNCHANGED <<editorOpen, error, current, counted, spilled, history>>

DismissGate ==
    /\ gate # NoGate
    /\ gate' = NoGate
    /\ UNCHANGED <<jobVars, editor, grid, history>>

TakeToken ==
    /\ cancel' = NoRun
    /\ fired' = fired \cup ({cancel} \ {NoRun})

OnCancel ==
    /\ editorOpen
    /\ Busy
    /\ TakeToken
    /\ UNCHANGED <<text, guard, task, chan, loop, truth, editorOpen, generation, results,
                   gate, grid, history>>

AllFinished(r) == \A j \in JobsOf(r) : status[j] \notin Unfinished

(* The strip's click: cancel_run_if_multi_target_tab, then close.          *)
CloseResult(r) ==
    /\ editorOpen /\ r \in results
    /\ results' = results \ {r}
    /\ IF ~AllFinished(r) /\ Busy THEN TakeToken ELSE UNCHANGED <<cancel, fired>>
    /\ UNCHANGED <<text, guard, task, chan, loop, truth, editorOpen, generation,
                   gate, grid, history>>

(* close_editor_tab cancels what runs, unless it is the last tab.          *)
CloseEditor ==
    /\ editorOpen
    /\ editorOpen' = FALSE
    /\ results' = {}
    /\ cancel' = NoRun
    /\ \/ fired' = fired \cup ({cancel} \ {NoRun})
       \/ UNCHANGED fired
    /\ UNCHANGED <<text, guard, task, chan, loop, truth, generation, gate, grid, history>>

-----------------------------------------------------------------------------
(* The event loop *)

(* Mutant: the generation is not looked at.                                *)
Tidy_Unguarded(r) ==
    /\ cancel' = NoRun
    /\ status' = [j \in Jobs |-> IF j[1] = r /\ status[j] \in Unfinished THEN "cancelled" ELSE status[j]]
    /\ current' = [j \in Jobs |-> IF j[1] = r THEN NoBuffer ELSE current[j]]

(* Its tail, on every way out: the slot is cleared unless a newer run has  *)
(* it, and no chip is left running.                                        *)
Tidy(r) ==
    /\ cancel' = IF editorOpen /\ generation = r THEN NoRun ELSE cancel
    /\ status' = [j \in Jobs |-> IF j[1] = r /\ status[j] \in Unfinished THEN "cancelled" ELSE status[j]]
    /\ current' = [j \in Jobs |-> IF j[1] = r THEN NoBuffer ELSE current[j]]

(* The editor tab or the result tab is gone: the run's own token fires.    *)
Gone(j) ==
    /\ loop[j[1]] = "recv" /\ chan[j] # <<>>
    /\ ~editorOpen \/ j[1] \notin results
    /\ fired' = IF editorOpen THEN fired \cup {j[1]} ELSE fired
    /\ Leave(j[1])
    /\ Tidy(j[1])
    /\ UNCHANGED <<text, guard, task, truth, editorOpen, generation, results,
                   gate, error, counted, spilled, history>>

Handle(j, ev) ==
    /\ Ready(j, ev)
    /\ editorOpen /\ j[1] \in results
    /\ Continue(j)
    /\ UNCHANGED <<text, guard, task, fired, truth, editor, gate>>

OnStarted(j) ==
    /\ Handle(j, "Started")
    /\ status' = [status EXCEPT ![j] = "running"]
    /\ UNCHANGED <<error, current, counted, spilled, history>>

OnReadStarted(j) ==
    /\ Handle(j, "ReadStarted")
    /\ current' = [current EXCEPT ![j] = 0]
    /\ UNCHANGED <<status, error, counted, spilled, history>>

OnWriteStarted(j) ==
    /\ Handle(j, "WriteStarted")
    /\ UNCHANGED <<grid, history>>

(* Mutant: the failed push is forgotten with the batch.                    *)
OnBatch_Forgets(j) ==
    /\ Handle(j, "Batch")
    /\ \/ /\ current[j] # NoBuffer
          /\ \/ current' = [current EXCEPT ![j] = @ + Head(chan[j]).rows]
             \/ current' = [current EXCEPT ![j] = NoBuffer]
       \/ current[j] = NoBuffer /\ UNCHANGED current
    /\ UNCHANGED <<status, error, counted, spilled, history>>

(* The push may fail; then the buffer is given up and the rest dropped.    *)
OnBatch(j) ==
    /\ Handle(j, "Batch")
    /\ \/ /\ current[j] # NoBuffer
          /\ \/ current' = [current EXCEPT ![j] = @ + Head(chan[j]).rows] /\ UNCHANGED <<error, spilled>>
             \/ /\ current' = [current EXCEPT ![j] = NoBuffer]
                /\ error' = [error EXCEPT ![j] = TRUE]
                /\ spilled' = spilled \cup {j}
       \/ current[j] = NoBuffer /\ UNCHANGED <<current, error, spilled>>
    /\ UNCHANGED <<status, counted, history>>

Record(j, stmt, ok, n) ==
    history' = [history EXCEPT ![j] = Append(@, [stmt |-> stmt, ok |-> ok, rows |-> n])]

OnReadFinished(j) ==
    /\ Handle(j, "ReadFinished")
    /\ \/ /\ current[j] # NoBuffer
          /\ counted' = [counted EXCEPT ![j] = @ + current[j]]
          /\ Record(j, Head(chan[j]).stmt, TRUE, current[j])
       \/ /\ current[j] = NoBuffer
          /\ Record(j, Head(chan[j]).stmt, ~error[j], 0)
          /\ UNCHANGED counted
    /\ current' = [current EXCEPT ![j] = NoBuffer]
    /\ UNCHANGED <<status, error, spilled>>

OnWriteFinished(j) ==
    /\ Handle(j, "WriteFinished")
    /\ counted' = [counted EXCEPT ![j] = @ + Head(chan[j]).rows]
    /\ Record(j, Head(chan[j]).stmt, TRUE, Head(chan[j]).rows)
    /\ UNCHANGED <<status, error, current, spilled>>

(* Mutant: the driver's word for a cancel is an error of the target.       *)
OnStatementFailed_AnyCode(j) ==
    /\ Handle(j, "StatementFailed")
    /\ error' = [error EXCEPT ![j] = TRUE]
    /\ current' = [current EXCEPT ![j] = NoBuffer]
    /\ Record(j, Head(chan[j]).stmt, FALSE, 0)
    /\ UNCHANGED <<status, counted, spilled>>

OnStatementFailed(j) ==
    /\ Handle(j, "StatementFailed")
    /\ error' = [error EXCEPT ![j] = @ \/ ~(j[1] \in fired /\ Head(chan[j]).code = "cancelled")]
    /\ current' = [current EXCEPT ![j] = NoBuffer]
    /\ Record(j, Head(chan[j]).stmt, FALSE, 0)
    /\ UNCHANGED <<status, counted, spilled>>

OnRunFinished(j) ==
    /\ Handle(j, "RunFinished")
    /\ UNCHANGED <<grid, history>>

Verdict(j, outcome) ==
    CASE outcome = "Ok" -> IF error[j] THEN "failed" ELSE "done"
      [] outcome = "Failed" -> IF ~error[j] /\ j[1] \in fired THEN "cancelled" ELSE "failed"
      [] outcome = "Cancelled" -> "cancelled"

OnFinished(j) ==
    /\ Handle(j, "Finished")
    /\ status' = [status EXCEPT ![j] = Verdict(j, Head(chan[j]).code)]
    /\ error' = [error EXCEPT ![j] = @ \/ status'[j] = "failed"]
    /\ UNCHANGED <<current, counted, spilled, history>>

ChannelClosed(r) ==
    /\ loop[r] = "recv"
    /\ \A j \in JobsOf(r) : chan[j] = <<>> /\ task[j].at \in {"none", "done"}
    /\ Leave(r)
    /\ Tidy(r)
    /\ UNCHANGED <<text, guard, task, fired, truth, editorOpen, generation, results,
                   gate, error, counted, spilled, history>>

-----------------------------------------------------------------------------
Fanout(j) ==
    \/ Admit(j) \/ Refuse(j) \/ Report(j) \/ Panic(j)
    \/ Job(j) /\ UNCHANGED <<editor, gate, grid, history>>

EventLoop(j) ==
    \/ OnStarted(j) \/ OnReadStarted(j) \/ OnWriteStarted(j) \/ OnBatch(j)
    \/ OnReadFinished(j) \/ OnWriteFinished(j) \/ OnStatementFailed(j) \/ OnRunFinished(j)
    \/ OnFinished(j) \/ Gone(j)

User ==
    \/ RunOnTargets \/ ConfirmWrite \/ DismissGate
    \/ OnCancel \/ CloseEditor
    \/ \E r \in Runs : CloseResult(r)

Quiet ==
    /\ \A j \in Jobs : task[j].at \in {"none", "done"}
    /\ \A r \in Runs : loop[r] # "recv"
    /\ UNCHANGED vars

System ==
    \/ \E j \in Jobs : Fanout(j) \/ EventLoop(j)
    \/ \E r \in Runs : ChannelClosed(r)

Next == System \/ User \/ Quiet

Spec == Init /\ [][Next]_vars

-----------------------------------------------------------------------------
(* Properties *)

(* A chip tells the truth.  Done: every statement succeeded, and all its   *)
(* rows are in the grids or counted.  Failed: something did go wrong that  *)
(* was not the user's own cancel.  Cancelled, while the loop listens: the  *)
(* user did cancel.                                                        *)
ChipsAreHonest ==
    \A j \in Jobs :
        /\ status[j] = "done" => AllOk(j) /\ counted[j] = RowsThere(j)
        /\ status[j] = "failed" => \/ j \in spilled
                                   \/ \E s \in 1 .. MaxStmts : truth[j][s].state = "failed"
        /\ status[j] = "cancelled" /\ loop[j[1]] = "recv" => j[1] \in fired

(* The history has the statements of a target one by one, in order and     *)
(* once, each with the rows it really had; a success is one whose rows     *)
(* were kept.  A target shown as done has them all.                        *)
HistoryIsHonest ==
    \A j \in Jobs :
        /\ \A i \in DOMAIN history[j] :
             LET e == history[j][i] IN
             /\ e.stmt = i
             /\ e.ok => truth[j][i] = [state |-> "ok", rows |-> e.rows]
             /\ ~e.ok => truth[j][i].state \in {"failed", "cancelled"} \/ j \in spilled
        /\ status[j] = "done" => Len(history[j]) = Len(text[j[1]])

(* No run is half refused: whatever happened to the configuration under    *)
(* the dialog, the guard of the connections finds nothing left to refuse.  *)
GateHolds == \A j \in Jobs : \A s \in 1 .. MaxStmts : truth[j][s].state # "refused"

(* When no loop is left, neither is a token in the slot nor a chip that    *)
(* says "running": the tab can run again.                                  *)
TabIsFreed ==
    /\ (\A r \in Runs : loop[r] # "recv") => cancel = NoRun
    /\ \A j \in Jobs : loop[j[1]] = "done" => status[j] \notin Unfinished

(* A run that ends late leaves the token of a newer one alone.             *)
TailSparesNewerRun ==
    [][\A r \in Runs : loop[r] = "recv" /\ loop'[r] = "done" => cancel' = cancel \/ cancel = r]_vars

(* Closing the tab of a run that is going on cancels that run at once,     *)
(* even if no event of it ever comes.                                      *)
ClosingCancels ==
    [][\A r \in Runs : r \in results \ results' /\ editorOpen' /\ loop[r] = "recv" /\ ~AllFinished(r)
                         => r \in fired']_vars

(* No loop is left waiting, whatever the consumer dropped and whoever was  *)
(* cancelled: while there is one, the program, the driver or a timer can   *)
(* go on.  (A run takes finitely many steps, so every run ends.)           *)
RunsGoOn == (\E r \in Runs : loop[r] = "recv") => ENABLED System

(* Types, the gate and the tab: the part of Inv that speaks of the state   *)
(* alone.                                                                  *)
Safe == TypeOK /\ GateHolds /\ TabIsFreed

(* What every state satisfies. *)
Inv == Safe /\ RunsGoOn

(* The runs of one tab are kept apart: what ends one does not end another. *)
RunsAreApart == TailSparesNewerRun /\ ClosingCancels
=============================================================================
