------------------------------ MODULE EditorRun ------------------------------
(***************************************************************************)
(* An editor tab and the single-statement runs started in it:              *)
(* run_query_in and its event loop (dbc-ui/src/main.rs), connect_and_run   *)
(* and stream_query (runner.rs), and the buffer the rows go to.            *)
(*                                                                         *)
(* The tab has one slot for a cancel token.  It is taken (and so the tab   *)
(* is free again) as soon as the user presses Esc, while the run it        *)
(* belonged to still has its events to deliver; a run's loop knows its     *)
(* generation.  Runs are numbered by generation.  Everything on the UI     *)
(* thread is atomic between two awaits: receiving an event, and, for a     *)
(* batch that spills, the end of the write.                                *)
(*                                                                         *)
(* What the driver yields is external: batches, then an error or the end.  *)
(***************************************************************************)
EXTENDS ResultBuffer, Functions

CONSTANTS
    MaxRuns,     \* bound: runs started in the tab
    MaxRows,     \* bound: no further batch after this many rows, of all runs
    BatchSizes,  \* the lengths a batch may have
    ChanCap      \* capacity of the event channel

ASSUME EditorRunAssumption ==
    /\ MaxRuns \in Nat \ {0}
    /\ MaxRows \in Nat
    /\ BatchSizes \subseteq Nat \ {0}
    /\ ChanCap \in Nat \ {0}

Runs == 1 .. MaxRuns
NoRun == 0

VARIABLES
    \* the editor tab
    editorOpen,  \* the tab exists
    cancel,      \* the run whose token is in the tab's slot, or NoRun
    generation,  \* run_generation: the runs started so far
    results,     \* the runs whose result tab is open
    status,      \* whose news the status line shows, and which
    \* the tasks of the runs
    at,          \* where the task of connect_and_run is
    out,         \* the event it is sending
    chan,        \* the event channel
    fired,       \* the runs whose token is cancelled
    made,        \* rows the driver has yielded
    over,        \* the driver has yielded the whole result
    \* the event loops on the UI thread
    loop,        \* where the event loop is
    buf,         \* the result buffer
    spill,       \* the spill write in flight
    errored,     \* a push has failed
    history      \* the entries recorded

editor == <<editorOpen, cancel, generation, results, status>>
task == <<at, out, made, over>>
ui == <<loop, buf, spill, errored, history>>
vars == <<editor, task, chan, fired, ui>>

Event(ev, rows) == [ev |-> ev, rows |-> rows]
Started  == Event("Started", <<>>)
Finished == Event("Finished", <<>>)
Wrote    == Event("WriteFinished", <<>>)
Failed   == Event("Failed", <<>>)

NoStatus == [run |-> NoRun, says |-> "none"]
NoSpill == [rows |-> <<>>, ix |-> 0, state |-> "none"]

Places == {"none", "start", "opening", "query", "stream", "send", "last", "closing", "done"}
(* What the status line may say of a run: its wording does not matter.     *)
News == {"none", "news", "spill error"}

TypeOK ==
    /\ editorOpen \in BOOLEAN
    /\ cancel \in 0 .. MaxRuns
    /\ generation \in 0 .. MaxRuns
    /\ results \subseteq 1 .. generation
    /\ status \in [run : 0 .. MaxRuns, says : News]
    /\ at \in [Runs -> Places]
    /\ \A r \in Runs : out[r].ev \in {"none", "Started", "Batch", "Finished", "WriteFinished", "Failed"}
    /\ \A r \in Runs : Len(chan[r]) <= ChanCap
    /\ fired \subseteq 1 .. generation
    /\ made \in [Runs -> Nat]
    /\ over \in [Runs -> BOOLEAN]
    /\ loop \in [Runs -> {"none", "recv", "spill", "done"}]
    /\ \A r \in Runs : spill[r].state \in {"none", "writing", "written", "failed"}
    /\ \A r \in Runs : Len(buf[r].offsets) = Len(buf[r].slots) + 1
    /\ errored \in [Runs -> BOOLEAN]
    /\ \A r \in Runs : history[r] \in Seq([ok : BOOLEAN, rows : Nat])

Init ==
    /\ editorOpen = TRUE
    /\ cancel = NoRun
    /\ generation = 0
    /\ results = {}
    /\ status = NoStatus
    /\ at = [r \in Runs |-> "none"]
    /\ out = [r \in Runs |-> Event("none", <<>>)]
    /\ chan = [r \in Runs |-> <<>>]
    /\ fired = {}
    /\ made = [r \in Runs |-> 0]
    /\ over = [r \in Runs |-> FALSE]
    /\ loop = [r \in Runs |-> "none"]
    /\ buf = [r \in Runs |-> NewBuffer]
    /\ spill = [r \in Runs |-> NoSpill]
    /\ errored = [r \in Runs |-> FALSE]
    /\ history = [r \in Runs |-> <<>>]

Says(r, news) == status' = [run |-> r, says |-> news]

(* A buffer is shared by the run's loop and its result tab, and dropped    *)
(* (its directory deleted) when both have let go of it.                    *)
Held(bs, lp, tabs) ==
    [r \in Runs |-> IF lp[r] \in {"recv", "spill"} \/ r \in tabs THEN bs[r] ELSE NewBuffer]

-----------------------------------------------------------------------------
(* The task of a run: connect_and_run and stream_query *)

(* The task goes on to send ev; from "last" it ends without further ado.   *)
Send(r, place, ev) ==
    /\ at' = [at EXCEPT ![r] = place]
    /\ out' = [out EXCEPT ![r] = ev]

Go(r, place) ==
    /\ at' = [at EXCEPT ![r] = place]
    /\ UNCHANGED out

CheckCancel(r) ==
    /\ at[r] = "start"
    /\ IF r \in fired THEN Send(r, "last", Failed) ELSE Go(r, "opening")
    /\ UNCHANGED <<editor, made, over, chan, fired, ui>>

(* open_spec returns; a cancel that came meanwhile is seen now.            *)
Opened(r) ==
    /\ at[r] = "opening"
    /\ \/ Send(r, "last", Failed)
       \/ r \notin fired /\ Go(r, "query")
    /\ UNCHANGED <<editor, made, over, chan, fired, ui>>

(* query() yields a stream or an error; a write to SQL Server goes through *)
(* execute() and yields a count or an error.                               *)
Answered(r) ==
    /\ at[r] = "query"
    /\ \/ Send(r, "send", Started) /\ UNCHANGED over
       \/ Send(r, "send", Failed) /\ UNCHANGED over
       \/ Send(r, "send", Wrote) /\ over' = [over EXCEPT ![r] = TRUE]
    /\ UNCHANGED <<editor, made, chan, fired, ui>>

(* The driver's stream yields a batch, an error, or its end.               *)
Streamed(r) ==
    /\ at[r] = "stream"
    /\ \/ \E n \in BatchSizes :
            /\ FoldFunction(+, 0, made) < MaxRows
            /\ Send(r, "send", Event("Batch", [i \in 1 .. n |-> made[r] + i]))
            /\ made' = [made EXCEPT ![r] = @ + n]
            /\ UNCHANGED over
       \/ Send(r, "send", Failed) /\ UNCHANGED <<made, over>>
       \/ Send(r, "send", Finished) /\ over' = [over EXCEPT ![r] = TRUE] /\ UNCHANGED made
    /\ UNCHANGED <<editor, chan, fired, ui>>

(* tx.send: waits for room, or fails because the receiver is gone, which   *)
(* nobody looks at.                                                        *)
Deliver(r) ==
    /\ at[r] \in {"send", "last"}
    /\ \/ loop[r] = "done" /\ UNCHANGED chan
       \/ loop[r] # "done" /\ Len(chan[r]) < ChanCap /\ chan' = [chan EXCEPT ![r] = Append(@, out[r])]
    /\ at' = [at EXCEPT ![r] = IF out[r].ev \in {"Started", "Batch"} THEN "stream" ELSE "closing"]
    /\ out' = [out EXCEPT ![r] = Event("none", <<>>)]
    /\ UNCHANGED <<editor, made, over, fired, ui>>

(* The watchdog: stream_query is dropped wherever it is suspended.         *)
Expire(r) ==
    /\ at[r] \in {"query", "stream", "send"}
    /\ fired' = fired \cup {r}
    /\ Send(r, "last", Failed)
    /\ UNCHANGED <<editor, made, over, chan, ui>>

(* The task returns: the connection and the sender are dropped.            *)
TaskEnds(r) ==
    /\ at[r] = "closing"
    /\ Go(r, "done")
    /\ UNCHANGED <<editor, made, over, chan, fired, ui>>

-----------------------------------------------------------------------------
(* The user *)

(* run_query_in: one query at a time.                                      *)
Dispatch(r) ==
    /\ cancel' = r
    /\ generation' = r
    /\ at' = [at EXCEPT ![r] = "start"]
    /\ Says(r, "news")

RunQuery ==
    /\ editorOpen
    /\ cancel = NoRun
    /\ generation < MaxRuns
    /\ Dispatch(generation + 1)
    /\ loop' = [loop EXCEPT ![generation + 1] = "recv"]
    /\ UNCHANGED <<editorOpen, results, out, made, over, chan, fired,
                   buf, spill, errored, history>>

(* Whatever token is in the slot is taken out and cancelled.               *)
TakeToken ==
    /\ cancel' = NoRun
    /\ fired' = fired \cup ({cancel} \ {NoRun})

OnCancel ==
    /\ editorOpen
    /\ cancel # NoRun
    /\ TakeToken
    /\ Says(NoRun, "news")
    /\ UNCHANGED <<editorOpen, generation, results, task, chan, ui>>

CloseResult(r) ==
    /\ editorOpen
    /\ r \in results
    /\ results' = results \ {r}
    /\ buf' = Held(buf, loop, results')
    /\ UNCHANGED <<editorOpen, cancel, generation, status, task, chan, fired, loop, spill, errored, history>>

(* close_editor_tab: the last tab is replaced by an empty one, without a   *)
(* look at what runs in it.                                                *)
CloseEditor ==
    /\ editorOpen
    /\ editorOpen' = FALSE
    /\ cancel' = NoRun
    /\ results' = {}
    /\ status' = NoStatus
    /\ \/ fired' = fired \cup ({cancel} \ {NoRun})
       \/ UNCHANGED fired
    /\ buf' = Held(buf, loop, {})
    /\ UNCHANGED <<generation, task, chan, loop, spill, errored, history>>

(* The grid paints a cell.                                                 *)
Paint(r) ==
    /\ editorOpen
    /\ r \in results
    /\ \E row \in 0 .. RowCount(buf[r]) - 1 :
         buf' = [buf EXCEPT ![r] = AfterRead(@, SlotOf(@, row))]
    /\ UNCHANGED <<editor, task, chan, fired, loop, spill, errored, history>>

-----------------------------------------------------------------------------
(* The event loop of a run *)

(* Mutant: the generation is not looked at.                                *)
AfterTail_Unguarded(r, slot) == IF editorOpen THEN NoRun ELSE slot

(* The tail after the loop: the token slot, unless a newer run has         *)
(* started.                                                                *)
AfterTail(r, slot) == IF editorOpen /\ generation = r THEN NoRun ELSE slot

(* The loop goes on, with the events left; or it ends, and drops the       *)
(* receiver.                                                               *)
Continue(r, left) ==
    /\ loop' = [loop EXCEPT ![r] = "recv"]
    /\ chan' = [chan EXCEPT ![r] = left]

Leave(r) ==
    /\ loop' = [loop EXCEPT ![r] = "done"]
    /\ chan' = [chan EXCEPT ![r] = <<>>]

Record(r, entry) == history' = [history EXCEPT ![r] = Append(@, entry)]

Entry(ok, rows) == [ok |-> ok, rows |-> rows]

(* What the loop does about a batch once its push has ended, in this       *)
(* order: the editor tab is gone; the run has failed before; its result    *)
(* tab is closed; the push failed; all is well.                            *)
ApplyBatch(r, left, pushed, pushFailed) ==
    /\ CASE ~editorOpen ->
              Leave(r) /\ UNCHANGED <<cancel, fired, status, errored>>
         [] editorOpen /\ errored[r] ->
              Continue(r, left) /\ UNCHANGED <<cancel, fired, status, errored>>
         [] editorOpen /\ ~errored[r] /\ r \notin results ->
              Leave(r) /\ TakeToken /\ Says(r, "news") /\ UNCHANGED errored
         [] editorOpen /\ ~errored[r] /\ r \in results /\ pushFailed ->
              /\ Continue(r, left)
              /\ TakeToken
              /\ Says(r, "spill error")
              /\ errored' = [errored EXCEPT ![r] = TRUE]
         [] OTHER ->
              Continue(r, left) /\ Says(r, "news") /\ UNCHANGED <<cancel, fired, errored>>
    /\ buf' = Held([buf EXCEPT ![r] = pushed], loop', results)
    /\ UNCHANGED <<editorOpen, generation, results, task, history>>

Ready(r, ev) == loop[r] = "recv" /\ chan[r] # <<>> /\ Head(chan[r]).ev = ev

(* A batch that needs no push, fits, or cannot even begin to spill.        *)
OnBatch(r) ==
    /\ Ready(r, "Batch")
    /\ LET batch == Head(chan[r]).rows
       IN \/ errored[r] /\ ApplyBatch(r, Tail(chan[r]), buf[r], FALSE)
          \/ /\ ~errored[r] /\ Fits(buf[r], batch)
             /\ ApplyBatch(r, Tail(chan[r]), CommitMem(buf[r], batch), FALSE)
          \/ /\ ~errored[r] /\ ~Fits(buf[r], batch) /\ ~buf[r].dir
             /\ ApplyBatch(r, Tail(chan[r]), buf[r], TRUE)
    /\ UNCHANGED spill

(* begin_push of a batch that does not fit; the write is another thread's. *)
BeginPush(r) ==
    /\ Ready(r, "Batch")
    /\ ~errored[r]
    /\ ~Fits(buf[r], Head(chan[r]).rows)
    /\ loop' = [loop EXCEPT ![r] = "spill"]
    /\ chan' = [chan EXCEPT ![r] = Tail(@)]
    /\ buf' = [buf EXCEPT ![r] = BeginSpill(@)]
    /\ spill' = [spill EXCEPT ![r] = [rows |-> Head(chan[r]).rows,
                                      ix |-> SpillIndex(buf[r]),
                                      state |-> "writing"]]
    /\ UNCHANGED <<editor, task, fired, errored, history>>

WriteSpillFile(r) ==
    /\ spill[r].state = "writing"
    /\ \/ /\ buf' = [buf EXCEPT ![r] = Write(@, spill[r].ix, Whole(spill[r].rows))]
          /\ spill' = [spill EXCEPT ![r].state = "written"]
       \/ /\ buf' = [buf EXCEPT ![r] = Write(@, spill[r].ix, Torn)]
          /\ spill' = [spill EXCEPT ![r].state = "failed"]
    /\ UNCHANGED <<editor, task, chan, fired, loop, errored, history>>

(* The write has ended: finish_spill if it succeeded, and on.              *)
FinishSpill(r) ==
    /\ \/ /\ spill[r].state = "written"
          /\ ApplyBatch(r, chan[r], CommitSpill(buf[r], spill[r].ix, Len(spill[r].rows)), FALSE)
       \/ /\ spill[r].state = "failed"
          /\ ApplyBatch(r, chan[r], buf[r], TRUE)
    /\ spill' = [spill EXCEPT ![r] = NoSpill]

(* Any other event after the editor tab is gone ends the loop.             *)
EditorGone(r) ==
    /\ loop[r] = "recv" /\ chan[r] # <<>> /\ Head(chan[r]).ev # "Batch"
    /\ ~editorOpen
    /\ Leave(r)
    /\ buf' = Held(buf, loop', {})
    /\ UNCHANGED <<editor, task, fired, spill, errored, history>>

(* The run's result tab opens; an older one may have to go (a preview of   *)
(* the same table, the oldest of too many).                                *)
OnStarted(r) ==
    /\ Ready(r, "Started")
    /\ editorOpen
    /\ \E gone \in SUBSET results :
         /\ Cardinality(gone) <= 1
         /\ results' = (results \ gone) \cup {r}
    /\ buf' = Held(buf, loop, results')
    /\ Says(r, "news")
    /\ Continue(r, Tail(chan[r]))
    /\ UNCHANGED <<editorOpen, cancel, generation, task, fired, spill, errored, history>>

OnWriteFinished(r) ==
    /\ Ready(r, "WriteFinished")
    /\ editorOpen
    /\ Says(r, "news")
    /\ Record(r, Entry(TRUE, 0))
    /\ cancel' = NoRun
    /\ Continue(r, Tail(chan[r]))
    /\ UNCHANGED <<editorOpen, generation, results, task, fired, buf, spill, errored>>

(* Mutant: the end of the stream is a success, whatever was stored.        *)
OnFinished_Success(r) ==
    /\ Ready(r, "Finished")
    /\ editorOpen
    /\ Record(r, Entry(TRUE, RowCount(buf[r])))
    /\ cancel' = NoRun
    /\ IF errored[r] THEN UNCHANGED status ELSE Says(r, "news")
    /\ Continue(r, Tail(chan[r]))
    /\ UNCHANGED <<editorOpen, generation, results, task, fired, buf, spill, errored>>

(* After a failed push the entry is a failure and the status line keeps    *)
(* the error.  A preview with saved joins starts its second run at once.   *)
OnFinished(r) ==
    /\ Ready(r, "Finished")
    /\ editorOpen
    /\ Record(r, IF errored[r] THEN Entry(FALSE, 0) ELSE Entry(TRUE, RowCount(buf[r])))
    /\ \/ /\ cancel' = NoRun
          /\ IF errored[r] THEN UNCHANGED status ELSE Says(r, "news")
          /\ Continue(r, Tail(chan[r]))
          /\ UNCHANGED <<generation, at>>
       \/ /\ ~errored[r] /\ r \in results /\ generation < MaxRuns
          /\ Dispatch(generation + 1)
          /\ loop' = [loop EXCEPT ![generation + 1] = "recv"]
          /\ chan' = [chan EXCEPT ![r] = Tail(@)]
    /\ UNCHANGED <<editorOpen, results, out, made, over, fired, buf, spill, errored>>

(* Mutant: after a failed push nothing is recorded any more.               *)
OnFailed_NoEntry(r) ==
    /\ Ready(r, "Failed")
    /\ editorOpen
    /\ IF errored[r] THEN UNCHANGED <<status, history>>
                     ELSE Says(r, "news") /\ Record(r, Entry(FALSE, 0))
    /\ cancel' = NoRun
    /\ Continue(r, Tail(chan[r]))
    /\ UNCHANGED <<editorOpen, generation, results, task, fired, buf, spill, errored>>

OnFailed(r) ==
    /\ Ready(r, "Failed")
    /\ editorOpen
    /\ Record(r, Entry(FALSE, 0))
    /\ IF errored[r] THEN UNCHANGED status ELSE Says(r, "news")
    /\ cancel' = NoRun
    /\ Continue(r, Tail(chan[r]))
    /\ UNCHANGED <<editorOpen, generation, results, task, fired, buf, spill, errored>>

(* The channel is closed: the loop ends.                                   *)
ChannelClosed(r) ==
    /\ loop[r] = "recv"
    /\ chan[r] = <<>>
    /\ at[r] = "done"
    /\ Leave(r)
    /\ cancel' = AfterTail(r, cancel)
    /\ buf' = Held(buf, loop', results)
    /\ UNCHANGED <<editorOpen, generation, results, status, task, fired, spill, errored, history>>

-----------------------------------------------------------------------------
Runner(r) == CheckCancel(r) \/ Opened(r) \/ Deliver(r) \/ TaskEnds(r)

Driver(r) == Answered(r) \/ Streamed(r)

EventLoop(r) ==
    \/ OnBatch(r) \/ BeginPush(r) \/ WriteSpillFile(r) \/ FinishSpill(r) \/ EditorGone(r)
    \/ OnStarted(r) \/ OnWriteFinished(r) \/ OnFinished(r) \/ OnFailed(r) \/ ChannelClosed(r)

User ==
    \/ RunQuery \/ OnCancel \/ CloseEditor
    \/ \E r \in Runs : CloseResult(r) \/ Paint(r)

(* Every run there may be has ended, and nothing is left to look at.       *)
Quiet ==
    /\ \A r \in Runs : at[r] \in {"none", "done"} /\ loop[r] \in {"none", "done"}
    /\ UNCHANGED vars

System == \E r \in Runs : Runner(r) \/ Driver(r) \/ Expire(r) \/ EventLoop(r)

Next ==
    \/ System
    \/ User
    \/ Quiet

Spec == Init /\ [][Next]_vars

-----------------------------------------------------------------------------
(* Properties *)

(* A run leaves at most one entry in the history, and one that says how    *)
(* many rows there were only if the driver had yielded its last row and    *)
(* every one of them is in the buffer: not after a failed spill, not after *)
(* a timeout or a cancel that overtook the end.                            *)
HistoryIsHonest ==
    \A r \in Runs :
        /\ Len(history[r]) <= 1
        /\ \A i \in DOMAIN history[r] :
             history[r][i].ok => /\ over[r]
                                 /\ history[r][i].rows = made[r]
                                 /\ r \in results => RowCount(buf[r]) = made[r]

(* Every cell of every row the grid may show, at every moment of the       *)
(* streaming and whatever was read before, is the row the server sent      *)
(* there.                                                                  *)
ReadsAreFaithful ==
    \A r \in Runs : \A row \in 0 .. RowCount(buf[r]) - 1 : CellText(buf[r], row) = row + 1

(* The status line keeps a spill error: neither batches still under way    *)
(* nor its terminal event make the run that failed say anything else.      *)
SpillErrorStays ==
    [][\A r \in Runs : errored[r] /\ status' # status => status'.run # r]_vars

(* A channel that closes late does not take the token of a newer run.      *)
TailSparesNewerRun ==
    [][\A r \in Runs : ChannelClosed(r) => cancel' = cancel \/ cancel = r]_vars

(* No event is lost, whoever stops first: a run that is over has its entry *)
(* in the history, unless the user closed its result tab (and a batch came *)
(* to notice it) or the editor tab.                                        *)
EndedIsRecorded ==
    \A r \in Runs :
        loop[r] = "done" => \/ Len(history[r]) = 1
                            \/ ~editorOpen
                            \/ made[r] > 0 /\ r \notin results

(* And no loop is left waiting: while one is there, the program, its       *)
(* driver or its timer can go on.  (A run takes finitely many steps; so    *)
(* every run ends this way if the driver answers or the timer is set.)     *)
EveryRunIsRecorded ==
    /\ EndedIsRecorded
    /\ (\E r \in Runs : loop[r] \in {"recv", "spill"}) => ENABLED System

(* What the comments on run_generation say: no older run takes the state   *)
(* of a newer one, so a run that is going on can be cancelled.             *)
RunningIsCancellable ==
    \A r \in Runs :
        editorOpen /\ at[r] \notin {"none", "closing", "done"} /\ r \notin fired => cancel = r

(* What every state satisfies. *)
Inv == TypeOK /\ ReadsAreFaithful

(* What a run does late leaves alone what is not its own any more. *)
LateStepsAreHarmless == SpillErrorStays /\ TailSparesNewerRun
=============================================================================
