------------------------------ MODULE RunMany ------------------------------
(***************************************************************************)
(* A text of several statements run in an editor tab: run_many and its     *)
(* event loop (dbc-ui/src/main.rs), with several editor tabs.              *)
(*                                                                         *)
(* Unlike the other loops this one works on the editor tab that is active  *)
(* when an event arrives, whichever started it.  Ids of result tabs and    *)
(* generations are counted by each editor tab, so those of two tabs may    *)
(* coincide.  A run has one job, <<r, 1>>.                                 *)
(***************************************************************************)
EXTENDS Statements

CONSTANTS
    MaxEditors   \* bound: editor tabs

ASSUME RunManyAssumption ==
    /\ MaxTargets = 1
    /\ MaxEditors \in Nat \ {0}

Editors == 1 .. MaxEditors

VARIABLES
    \* the editor tabs
    open,        \* those that still exist
    active,
    cancel,      \* the run whose token is in the slot of a tab
    generation,  \* run_generation of a tab
    results,     \* the ids of its result tabs
    nextId,      \* the next id of a result tab
    \* what a run's loop has captured, and its locals
    home,        \* the editor tab it was started in: for the properties only
    mine,        \* my_generation
    tabId,       \* the result tab it last opened, or 0
    stored,      \* rows in the buffer of that result
    counted,     \* rows_returned + total_affected
    errored,     \* a push has failed
    history,     \* the entries recorded
    moved        \* the user has gone to another editor tab: for the properties

editor == <<open, active, cancel, generation, results, nextId>>
locals == <<home, mine, tabId, stored, counted, errored, history>>
vars == <<jobVars, editor, locals, moved>>

TypeOK ==
    /\ StatementsType
    /\ active \in open /\ open \subseteq Editors
    /\ cancel \in [Editors -> 0 .. MaxRuns]
    /\ \A e \in Editors : \A i \in results[e] : i < nextId[e]
    /\ \A r \in Runs : loop[r] # "none" => home[r] \in Editors /\ mine[r] <= generation[home[r]]
    /\ \A r \in Runs : tabId[r] = 0 => stored[r] = 0
    /\ errored \subseteq Runs

Init ==
    /\ StatementsInit
    /\ open = Editors /\ active = 1
    /\ cancel = [e \in Editors |-> NoRun]
    /\ generation = [e \in Editors |-> 0]
    /\ results = [e \in Editors |-> {}]
    /\ nextId = [e \in Editors |-> 1]
    /\ home = [r \in Runs |-> 0]
    /\ mine = [r \in Runs |-> 0]
    /\ tabId = [r \in Runs |-> 0]
    /\ stored = [r \in Runs |-> 0]
    /\ counted = [r \in Runs |-> 0]
    /\ errored = {}
    /\ history = [r \in Runs |-> <<>>]
    /\ moved = FALSE

JobOf(r) == <<r, 1>>

-----------------------------------------------------------------------------
(* Mutant: only a run whose statements are all through lets go of the loop. *)
TaskEnds_Keeps(r) ==
    /\ task[JobOf(r)].at = "good"
    /\ Go(JobOf(r), "done")
    /\ UNCHANGED <<text, guard, chan, fired, loop, truth, editor, locals, moved>>

(* The task ends with the statements, by whatever way: no event says so.   *)
TaskEnds(r) ==
    /\ task[JobOf(r)].at \in {"good", "bad"}
    /\ Go(JobOf(r), "done")
    /\ UNCHANGED <<text, guard, chan, fired, loop, truth, editor, locals, moved>>

(* A panic of the driver's decoder unwinds the task: no event says so.     *)
TaskPanics(r) ==
    /\ task[JobOf(r)].at = "stream"
    /\ Go(JobOf(r), "done")
    /\ UNCHANGED <<text, guard, chan, fired, loop, truth, editor, locals, moved>>

-----------------------------------------------------------------------------
(* The user *)

Busy == cancel[active] # NoRun

(* run_query_in's guard, then run_many if there are several statements.    *)
Run(r) ==
    /\ loop[r] = "none" /\ \A q \in 1 .. r - 1 : loop[q] # "none"
    /\ ~Busy
    /\ \E sql \in Texts, readOnly \in BOOLEAN :
         /\ Len(sql) > 1
         /\ text' = [text EXCEPT ![r] = sql]
         /\ readOnly => \E s \in DOMAIN sql : sql[s] = "write"   \* it matters to no other
         /\ guard' = IF readOnly THEN guard \cup {JobOf(r)} ELSE guard
    /\ task' = [task EXCEPT ![JobOf(r)].at = "start"]
    /\ loop' = [loop EXCEPT ![r] = "recv"]
    /\ cancel' = [cancel EXCEPT ![active] = r]
    /\ generation' = [generation EXCEPT ![active] = @ + 1]
    /\ home' = [home EXCEPT ![r] = active]
    /\ mine' = [mine EXCEPT ![r] = generation'[active]]
    /\ UNCHANGED <<chan, fired, truth, open, active, results, nextId,
                   tabId, stored, counted, errored, history, moved>>

Take(e) ==
    /\ cancel' = [cancel EXCEPT ![e] = NoRun]
    /\ fired' = fired \cup ({cancel[e]} \ {NoRun})

OnCancel ==
    /\ Busy
    /\ Take(active)
    /\ UNCHANGED <<text, guard, task, chan, loop, truth, open, active, generation,
                   results, nextId, locals, moved>>

CloseResult ==
    /\ \E id \in results[active] : results' = [results EXCEPT ![active] = @ \ {id}]
    /\ UNCHANGED <<jobVars, open, active, cancel, generation, nextId, locals, moved>>

SwitchEditor ==
    /\ active' \in open \ {active}
    /\ moved' = TRUE
    /\ UNCHANGED <<jobVars, open, cancel, generation, results, nextId, locals>>

(* The last tab stays: EditorRun has what happens to it.                   *)
CloseEditor ==
    /\ Cardinality(open) > 1
    /\ open' = open \ {active} /\ active' \in open'
    /\ Take(active)
    /\ moved' = TRUE
    /\ UNCHANGED <<text, guard, task, chan, loop, truth, generation, results, nextId, locals>>

-----------------------------------------------------------------------------
(* The event loop *)

(* The tail: the slot of the active tab, if its generation is this run's.  *)
Tidy(r, slots) == IF generation[active] = mine[r] THEN [slots EXCEPT ![active] = NoRun] ELSE slots

Handle(r, ev) ==
    /\ Ready(JobOf(r), ev)
    /\ UNCHANGED <<text, guard, task, truth, open, active, generation, home, mine, moved>>

(* Mutant: the loop goes on counting after a failed push.                  *)
OnBatch_Stores(r) ==
    /\ Handle(r, "Batch")
    /\ \/ Continue(JobOf(r)) /\ stored' = [stored EXCEPT ![r] = @ + 1]
       \/ Continue(JobOf(r)) /\ UNCHANGED stored
    /\ UNCHANGED <<fired, cancel, errored, results, nextId, tabId, counted, history>>

(* The batch is pushed; then, in this order: the run has failed before;    *)
(* its result tab is not among those of the active tab; the push failed;   *)
(* all is well.                                                            *)
OnBatch(r) ==
    /\ Handle(r, "Batch")
    /\ \/ /\ r \in errored
          /\ Continue(JobOf(r)) /\ UNCHANGED <<fired, cancel, stored, errored>>
       \/ /\ r \notin errored /\ tabId[r] \notin results[active]
          /\ fired' = fired \cup ({cancel[active]} \ {NoRun})
          /\ cancel' = Tidy(r, [cancel EXCEPT ![active] = NoRun])
          /\ Leave(r)
          /\ UNCHANGED <<stored, errored>>
       \/ /\ r \notin errored /\ tabId[r] \in results[active]
          /\ \/ Continue(JobOf(r)) /\ stored' = [stored EXCEPT ![r] = @ + 1] /\ UNCHANGED <<fired, cancel, errored>>
             \/ Continue(JobOf(r)) /\ errored' = errored \cup {r} /\ Take(active) /\ UNCHANGED stored
    /\ UNCHANGED <<results, nextId, tabId, counted, history>>

(* open_adhoc_result_tab: a result tab and a buffer, in the active tab.    *)
OnReadStarted(r) ==
    /\ Handle(r, "ReadStarted")
    /\ tabId' = [tabId EXCEPT ![r] = nextId[active]]
    /\ results' = [results EXCEPT ![active] = @ \cup {nextId[active]}]
    /\ nextId' = [nextId EXCEPT ![active] = @ + 1]
    /\ stored' = [stored EXCEPT ![r] = 0]
    /\ Continue(JobOf(r))
    /\ UNCHANGED <<fired, cancel, counted, errored, history>>

OnWriteStarted(r) ==
    /\ Handle(r, "WriteStarted")
    /\ Continue(JobOf(r))
    /\ UNCHANGED <<fired, cancel, results, nextId, tabId, stored, counted, errored, history>>

OnStatementFinished(r) ==
    /\ \/ /\ Handle(r, "ReadFinished")
          /\ counted' = [counted EXCEPT ![r] = @ + stored[r]]
       \/ /\ Handle(r, "WriteFinished")
          /\ counted' = [counted EXCEPT ![r] = @ + Head(chan[JobOf(r)]).rows]
    /\ Continue(JobOf(r))
    /\ UNCHANGED <<fired, cancel, results, nextId, tabId, stored, errored, history>>

Record(r, ok, n) == history' = [history EXCEPT ![r] = Append(@, [ok |-> ok, rows |-> n])]

(* Both terminal events record the run and clear the slot of the active    *)
(* tab.                                                                    *)
OnTerminal(r) ==
    /\ \/ Handle(r, "StatementFailed") /\ Record(r, FALSE, 0)
       \/ Handle(r, "RunFinished") /\ IF r \in errored THEN Record(r, FALSE, 0) ELSE Record(r, TRUE, counted[r])
    /\ cancel' = [cancel EXCEPT ![active] = NoRun]
    /\ Continue(JobOf(r))
    /\ UNCHANGED <<fired, results, nextId, tabId, stored, counted, errored>>

ChannelClosed(r) ==
    /\ loop[r] = "recv"
    /\ chan[JobOf(r)] = <<>> /\ task[JobOf(r)].at = "done"
    /\ Leave(r)
    /\ cancel' = Tidy(r, cancel)
    /\ UNCHANGED <<text, guard, task, fired, truth, open, active, generation, results,
                   nextId, locals, moved>>

-----------------------------------------------------------------------------
Task(r) == Job(JobOf(r)) /\ UNCHANGED <<editor, locals, moved>>

EventLoop(r) ==
    \/ OnBatch(r) \/ OnReadStarted(r) \/ OnWriteStarted(r) \/ OnStatementFinished(r)
    \/ OnTerminal(r) \/ ChannelClosed(r)

User ==
    \/ \E r \in Runs : Run(r)
    \/ OnCancel \/ CloseResult \/ SwitchEditor \/ CloseEditor

System == \E r \in Runs : Task(r) \/ TaskEnds(r) \/ TaskPanics(r) \/ EventLoop(r)

Next == System \/ User

Spec == Init /\ [][Next]_vars /\ WF_vars(System)

-----------------------------------------------------------------------------
(* Properties *)

(* A run has one entry in the history at most, and a success only if every *)
(* statement succeeded and all their rows are stored or counted, whichever *)
(* tab the loop worked on.                                                 *)
HistoryIsHonest ==
    \A r \in Runs :
        /\ Len(history[r]) <= 1
        /\ \A i \in DOMAIN history[r] :
             history[r][i].ok => AllOk(JobOf(r)) /\ history[r][i].rows = RowsThere(JobOf(r))

(* For a user who stays in the tab: a run is recorded that was not         *)
(* cancelled, nor had its result closed or its task die in mid-statement.  *)
RunsAreRecorded ==
    \A r \in Runs :
        ~moved /\ loop[r] = "done" =>
            \/ Len(history[r]) = 1
            \/ r \in fired
            \/ tabId[r] # 0 /\ tabId[r] \notin results[home[r]]
            \/ \E s \in DOMAIN text[r] : truth[JobOf(r)][s].state = "running"

(* For a user who stays in the tab: when no loop is left its slot is free, *)
(* so it can run again.                                                    *)
TabIsFreed ==
    ~moved /\ (\A r \in Runs : loop[r] # "recv") => cancel[active] = NoRun

(* The loop ends, whatever tab is open by then.                            *)
RunsEnd == \A r \in Runs : loop[r] = "recv" ~> loop[r] = "done"

(* What the comment on AppView::editor says of every completion: it leaves *)
(* the tabs alone that it did not start in.                                *)
OwnTabOnly ==
    [][\A r \in Runs : \A e \in Editors :
          EventLoop(r) /\ e # home[r] => cancel'[e] = cancel[e] /\ results'[e] = results[e]]_vars

(* What every state satisfies. *)
Inv == TypeOK /\ RunsAreRecorded /\ TabIsFreed
=============================================================================
