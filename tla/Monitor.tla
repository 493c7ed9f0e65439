------------------------------- MODULE Monitor -------------------------------
(***************************************************************************)
(* The server monitor: MonitorView (dbc-ui/src/monitor_view.rs) on the UI  *)
(* thread, the task of open_monitor and monitor_loop (runner.rs) that owns *)
(* the connection, and the command and event channels between them.  The   *)
(* view numbers its refreshes and takes only the answer to the last; a     *)
(* kill, confirmed in a dialog, pre-empts the refresh under way.  What a   *)
(* refresh finds is abstracted to the number of kills done before it.      *)
(***************************************************************************)
EXTENDS Integers, Sequences

CONSTANTS
    Pids,          \* the processes a user may kill
    ChanCap,       \* CHANNEL_CAPACITY of both channels
    ReadOnly,      \* the connection's read_only flag
    MaxRefreshes,  \* bound: refreshes started by the timer or the user
    MaxKills       \* bound: kills confirmed

ASSUME MonitorAssumption ==
    /\ Pids \subseteq Nat \ {0}
    /\ ChanCap \in Nat \ {0}
    /\ ReadOnly \in BOOLEAN
    /\ MaxRefreshes \in Nat /\ MaxKills \in Nat

VARIABLES
    gen,        \* refresh_generation of the view
    awaitingRefresh, \* the view waits for the answer to a refresh
    backoff,    \* interval_secs is min(5 * 2^backoff, 60)
    shown,      \* the kills the shown snapshot knows of, or NoSnapshot
    dialog,     \* the KillConfirm dialog
    cmds,       \* the command channel
    stage,      \* where the task is
    cur,        \* the command the task is at
    connected,  \* open_spec has succeeded
    out,        \* the event the task is sending
    events,     \* the event channel
    killed,     \* kills the server has carried out
    acked,      \* kills among them whose outcome the view has seen
    confirmed   \* kills confirmed so far

viewVars == <<gen, awaitingRefresh, backoff, shown>>
taskVars == <<stage, cur, connected, out, killed>>
monitorVars == <<viewVars, dialog, cmds, taskVars, events, acked, confirmed>>

NoSnapshot == -1
NoDialog == [pid |-> 0, dispatched |-> FALSE]

Refresh(g) == [kind |-> "Refresh", gen |-> g, pid |-> 0]
Kill(g, p) == [kind |-> "Kill", gen |-> g, pid |-> p]

(* An event: a snapshot or an error of generation gen, or the outcome of a *)
(* kill; n is the number of kills the server had carried out by then.      *)
Event(kind, g, p, n) == [kind |-> kind, gen |-> g, pid |-> p, n |-> n]

Gens == 0 .. MaxRefreshes + MaxKills + 1
Cmds == [kind : {"Refresh", "Kill"}, gen : Gens, pid : Pids \cup {0}]
Events == [kind : {"Data", "Error", "KillOk", "KillErr"}, gen : Gens, pid : Pids \cup {0},
           n : 0 .. MaxKills]
Idle == [kind |-> "none"]

MonitorTypeOK ==
    /\ gen \in Gens /\ awaitingRefresh \in BOOLEAN /\ backoff \in 0 .. 4
    /\ shown \in {NoSnapshot} \cup 0 .. MaxKills
    /\ dialog \in [pid : Pids \cup {0}, dispatched : BOOLEAN]
    /\ cmds \in Seq(Cmds) /\ Len(cmds) <= ChanCap
    /\ stage \in {"idle", "opening", "refreshing", "killing", "sending"}
    /\ cur \in Cmds \cup {Idle}
    /\ connected \in BOOLEAN
    /\ out \in Events \cup {Idle}
    /\ events \in Seq(Events) /\ Len(events) <= ChanCap
    /\ killed \in 0 .. MaxKills /\ acked \in 0 .. MaxKills /\ confirmed \in 0 .. MaxKills

(* MonitorView::new dispatches the first refresh.                          *)
MonitorInit ==
    /\ gen = 1 /\ awaitingRefresh = TRUE /\ backoff = 0
    /\ shown = NoSnapshot /\ dialog = NoDialog
    /\ cmds = <<Refresh(1)>>
    /\ stage = "idle" /\ cur = Idle /\ connected = FALSE /\ out = Idle
    /\ events = <<>> /\ killed = 0 /\ acked = 0 /\ confirmed = 0

-----------------------------------------------------------------------------
(* The view *)

Room == Len(cmds) < ChanCap

(* dispatch_refresh: the generation moves on even if the channel is full   *)
(* and the command is dropped.                                             *)
DispatchRefresh(was) ==
    /\ gen' = gen + 1
    /\ cmds' = IF Room THEN Append(cmds, Refresh(gen + 1)) ELSE cmds
    /\ awaitingRefresh' = (was \/ Room)

(* The toolbar's button; the timer does the same, less often, when the tab *)
(* is visible and not paused.                                              *)
ManualRefresh ==
    /\ ~awaitingRefresh
    /\ gen < MaxRefreshes
    /\ DispatchRefresh(FALSE)
    /\ UNCHANGED <<backoff, shown, dialog, taskVars, events, acked, confirmed>>

(* A row of the shown snapshot is clicked; read-only monitors have no      *)
(* button.                                                                 *)
RequestKill(p) ==
    /\ ~ReadOnly
    /\ shown # NoSnapshot
    /\ dialog = NoDialog
    /\ dialog' = [pid |-> p, dispatched |-> FALSE]
    /\ UNCHANGED <<viewVars, cmds, taskVars, events, acked, confirmed>>

(* A second click does nothing; a full channel drops the command.          *)
ConfirmKill ==
    /\ dialog # NoDialog
    /\ ~dialog.dispatched
    /\ confirmed < MaxKills
    /\ confirmed' = confirmed + 1
    /\ dialog' = [dialog EXCEPT !.dispatched = TRUE]
    /\ cmds' = IF Room THEN Append(cmds, Kill(gen, dialog.pid)) ELSE cmds
    /\ UNCHANGED <<viewVars, taskVars, events, acked>>

CancelDialog ==
    /\ dialog # NoDialog
    /\ dialog' = NoDialog
    /\ UNCHANGED <<viewVars, cmds, taskVars, events, acked, confirmed>>

(* apply_event *)
TakeData(e) ==
    /\ e.kind = "Data"
    /\ IF e.gen = gen
       THEN awaitingRefresh' = FALSE /\ backoff' = 0 /\ shown' = e.n
       ELSE UNCHANGED <<awaitingRefresh, backoff, shown>>
    /\ UNCHANGED <<gen, dialog, cmds, acked>>

TakeError(e) ==
    /\ e.kind = "Error"
    /\ IF e.gen = gen
       THEN awaitingRefresh' = FALSE /\ backoff' = (IF backoff < 4 THEN backoff + 1 ELSE backoff)
       ELSE UNCHANGED <<awaitingRefresh, backoff>>
    /\ UNCHANGED <<gen, shown, dialog, cmds, acked>>

(* Mutant: a failed kill leaves the dialog as it is.                       *)
TakeKillResult_NoRetry(e) ==
    /\ e.kind \in {"KillOk", "KillErr"}
    /\ DispatchRefresh(awaitingRefresh)
    /\ acked' = IF e.n > acked THEN e.n ELSE acked
    /\ dialog' = IF dialog.pid = e.pid /\ e.kind = "KillOk" THEN NoDialog ELSE dialog
    /\ UNCHANGED <<backoff, shown>>

(* The outcome of a kill always starts a refresh; it closes the dialog of  *)
(* the same process, or lets it try again.                                 *)
TakeKillResult(e) ==
    /\ e.kind \in {"KillOk", "KillErr"}
    /\ DispatchRefresh(awaitingRefresh)
    /\ acked' = IF e.n > acked THEN e.n ELSE acked
    /\ dialog' = IF dialog.pid # e.pid THEN dialog
                 ELSE IF e.kind = "KillOk" THEN NoDialog
                 ELSE [dialog EXCEPT !.dispatched = FALSE]
    /\ UNCHANGED <<backoff, shown>>

OnEvent ==
    /\ events # <<>>
    /\ LET e == Head(events) IN TakeData(e) \/ TakeError(e) \/ TakeKillResult(e)
    /\ events' = Tail(events)
    /\ UNCHANGED <<taskVars, confirmed>>

-----------------------------------------------------------------------------
(* The task *)

Begin(c) ==
    /\ cur' = c
    /\ stage' = IF ~connected THEN "opening" ELSE IF c.kind = "Refresh" THEN "refreshing" ELSE "killing"

Emit(e) ==
    /\ out' = e
    /\ cur' = Idle
    /\ stage' = "sending"

TakeCommand ==
    /\ stage = "idle"
    /\ cmds # <<>>
    /\ Begin(Head(cmds))
    /\ cmds' = Tail(cmds)
    /\ UNCHANGED <<viewVars, dialog, connected, out, killed, events, acked, confirmed>>

(* Mutant: the failure is reported against no command's generation.        *)
Connect_AnyGeneration ==
    /\ stage = "opening"
    /\ \/ /\ connected' = TRUE
          /\ stage' = IF cur.kind = "Refresh" THEN "refreshing" ELSE "killing"
          /\ UNCHANGED <<cur, out>>
       \/ Emit(Event("Error", 0, 0, killed)) /\ UNCHANGED connected
    /\ UNCHANGED <<viewVars, dialog, cmds, killed, events, acked, confirmed>>

(* open_spec, on the command that needs it; a failure answers the command. *)
Connect ==
    /\ stage = "opening"
    /\ \/ /\ connected' = TRUE
          /\ stage' = IF cur.kind = "Refresh" THEN "refreshing" ELSE "killing"
          /\ UNCHANGED <<cur, out>>
       \/ Emit(Event("Error", cur.gen, 0, killed)) /\ UNCHANGED connected
    /\ UNCHANGED <<viewVars, dialog, cmds, killed, events, acked, confirmed>>

(* The refresh ends, with tiles or without any.                            *)
RefreshDone ==
    /\ stage = "refreshing"
    /\ \E kind \in {"Data", "Error"} : Emit(Event(kind, cur.gen, 0, killed))
    /\ UNCHANGED <<viewVars, dialog, cmds, connected, killed, events, acked, confirmed>>

(* A command arrives mid-refresh: the refresh is cancelled, nothing is     *)
(* said of it, and the command is next.                                    *)
Preempt ==
    /\ stage = "refreshing"
    /\ cmds # <<>>
    /\ Begin(Head(cmds))
    /\ cmds' = Tail(cmds)
    /\ UNCHANGED <<viewVars, dialog, connected, out, killed, events, acked, confirmed>>

(* Mutant: a kill is reported as done whatever the driver says.            *)
KillDone_Unchecked ==
    /\ stage = "killing"
    /\ killed' \in {killed, killed + 1}
    /\ Emit(Event("KillOk", cur.gen, cur.pid, killed + 1))
    /\ UNCHANGED <<viewVars, dialog, cmds, connected, events, acked, confirmed>>

(* The read-only gate, then the driver.                                    *)
KillDone ==
    /\ stage = "killing"
    /\ \/ /\ ~ReadOnly
          /\ killed' = killed + 1
          /\ Emit(Event("KillOk", cur.gen, cur.pid, killed + 1))
       \/ /\ Emit(Event("KillErr", cur.gen, cur.pid, killed))
          /\ UNCHANGED killed
    /\ UNCHANGED <<viewVars, dialog, cmds, connected, events, acked, confirmed>>

Send ==
    /\ stage = "sending"
    /\ Len(events) < ChanCap
    /\ events' = Append(events, out)
    /\ out' = Idle
    /\ stage' = "idle"
    /\ UNCHANGED <<viewVars, dialog, cmds, cur, connected, killed, acked, confirmed>>

View == ManualRefresh \/ ConfirmKill \/ CancelDialog
        \/ (\E p \in Pids : RequestKill(p)) \/ OnEvent

Task == TakeCommand \/ Connect \/ RefreshDone \/ Preempt \/ KillDone \/ Send

(* Nothing is under way and the user and the timer have used up MaxKills   *)
(* and MaxRefreshes.                                                       *)
MonitorQuiet ==
    /\ stage = "idle" /\ cmds = <<>> /\ events = <<>>
    /\ UNCHANGED monitorVars

MonitorNext == View \/ Task \/ MonitorQuiet

MonitorSpec == MonitorInit /\ [][MonitorNext]_monitorVars

(* The UI thread drains its events, the task runs and the server answers.  *)
MonitorFairSpec == MonitorSpec /\ WF_monitorVars(OnEvent) /\ WF_monitorVars(Task)

-----------------------------------------------------------------------------
(* Properties *)

Pending == {cmds[i] : i \in DOMAIN cmds} \cup {cur}
Coming  == {events[i] : i \in DOMAIN events} \cup {out}

(* The timer never dies: while the view awaits, the answer to its last     *)
(* refresh, or the outcome of a kill that starts a new one, is on its way. *)
AwaitingIsAnswered ==
    awaitingRefresh =>
        \/ \E c \in Pending : c.kind = "Kill" \/ (c.kind = "Refresh" /\ c.gen = gen)
        \/ \E e \in Coming : e.kind \in {"KillOk", "KillErr"}
                             \/ (e.kind \in {"Data", "Error"} /\ e.gen = gen)

(* The dialog is not wedged: while it waits for its kill, the outcome of   *)
(* one of that process is on its way.                                      *)
DialogIsResolved ==
    dialog.dispatched =>
        \/ \E c \in Pending : c.kind = "Kill" /\ c.pid = dialog.pid
        \/ \E e \in Coming : e.kind \in {"KillOk", "KillErr"} /\ e.pid = dialog.pid

(* Once the user was told that a kill succeeded, no snapshot taken before  *)
(* it is shown any more, whatever refreshes were under way or cancelled:   *)
(* what the dialog said and what the rows say agree.                       *)
ShowsTheTruth == [][shown' # shown => shown' >= acked]_monitorVars

(* Every wait ends: auto-refresh is never dead while the tab is open.      *)
KeepsRefreshing == awaitingRefresh ~> ~awaitingRefresh

(* What every state satisfies: whatever is waited for is on its way. *)
MonitorInv == MonitorTypeOK /\ AwaitingIsAnswered /\ DialogIsResolved
=============================================================================
