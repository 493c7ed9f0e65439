---------------------- MODULE MultiRunAndSidebarProofs ----------------------
(***************************************************************************)
(* Theorems about MultiRun, for every number of runs, targets, statements  *)
(* and rows, and about Sidebar, for every number of connections, databases *)
(* and fetches. The invariant of a target of MultiRun says what the loop   *)
(* has made of the events up to its cursor (Heard), what an entry of the   *)
(* history says (HistoryOK) and what its chip may say (ChipOK). That of    *)
(* Sidebar (SidebarIInv) says of the tree that every row that loads has a  *)
(* fetch of its own under way, that none shows less than the newest answer *)
(* of the context in force, and that the schemas in memory are in the lru, *)
(* once, and no more than Cap.                                             *)
(***************************************************************************)
EXTENDS MultiRun, Sidebar, StatementsProofs

-----------------------------------------------------------------------------
(* Part 1: MultiRun. *)

(* The chips, the entries of the history, and the types of what the loop   *)
(* keeps of each target.                                                   *)
Chips == {"none", "done", "failed", "cancelled"} \cup Unfinished
Entries == [stmt : Nat, ok : BOOLEAN, rows : Int]

GridTypes ==
    /\ status \in [Jobs -> Chips]
    /\ error \in [Jobs -> BOOLEAN]
    /\ current \in [Jobs -> -1 .. MaxRows]
    /\ counted \in [Jobs -> Int]
    /\ spilled \subseteq Jobs
    /\ history \in [Jobs -> Seq(Entries)]

(* The editor tab: the token in its slot is that of its newest run, which  *)
(* is going on.                                                            *)
TabOK ==
    /\ editorOpen \in BOOLEAN
    /\ generation \in 0 .. MaxRuns
    /\ results \subseteq 1 .. generation
    /\ guard = {}
    /\ gate \in {NoGate} \cup [text : Texts, targets : Targets]
    /\ ~editorOpen => cancel = NoRun
    /\ cancel # NoRun => cancel = generation /\ loop[cancel] = "recv"
    /\ \A r \in Runs : loop[r] = "none" <=> r > generation
    /\ \A r \in Runs : (loop[r] = "recv" /\ editorOpen) => cancel = r \/ r \in fired

(* A target of a run that has not begun.                                   *)
Untouched(j) ==
    /\ chan[j] = <<>> /\ status[j] = "none" /\ ~error[j] /\ current[j] = NoBuffer
    /\ counted[j] = 0 /\ j \notin spilled /\ history[j] = <<>>

(* One of its statements failed.                                           *)
SomeFailed(j) == \E s \in 1 .. MaxStmts : truth[j][s].state = "failed"

(* Entry i is about statement i and says what became of it; a push that    *)
(* failed is recorded as a failure.                                        *)
HistoryOK(j) ==
    \A i \in 1 .. Len(history[j]) :
        /\ i <= MaxStmts
        /\ history[j][i].stmt = i
        /\ history[j][i].ok => truth[j][i] = [state |-> "ok", rows |-> history[j][i].rows]
        /\ ~history[j][i].ok => truth[j][i].state \in {"failed", "cancelled"} \/ j \in spilled

(* What a chip may say.                                                    *)
ChipOK(j) ==
    /\ error[j] => j \in spilled \/ SomeFailed(j)
    /\ status[j] = "failed" => error[j]
    /\ status[j] = "done" => /\ task[j].at = "done" /\ AllOk(j) /\ counted[j] = RowsThere(j)
                             /\ Len(history[j]) = Len(text[j[1]])
    /\ status[j] = "cancelled" /\ loop[j[1]] = "recv" => j[1] \in fired
    /\ loop[j[1]] = "done" => status[j] \notin Unfinished

(* What the loop has made of the events up to c.                           *)
Heard(j, c) ==
    /\ status[j] = "pending" <=> c.phase = "pending"
    /\ status[j] = "running" <=> c.phase \notin {"pending", "done"}
    /\ c.phase \notin {"bad", "done"} =>
         /\ Len(history[j]) = Complete(c)
         /\ error[j] => j \in spilled
         /\ ~error[j] => counted[j] = SumOf(truth[j])[Complete(c)]
    /\ c.phase = "stream" => current[j] = c.rows \/ (current[j] = NoBuffer /\ error[j])
    /\ c.phase \notin {"stream", "done"} => current[j] = NoBuffer
    /\ c.phase = "bad" => j[1] \in fired \/ error[j]

(* What holds of one target.                                               *)
JobOK(j) ==
    /\ j[1] > generation => task[j].at = "none"
    /\ task[j].at = "none" => Untouched(j)
    /\ TaskOK(j)
    /\ \A s \in 1 .. MaxStmts : truth[j][s].state # "refused"
    /\ Len(chan[j]) <= ChanCap
    /\ loop[j[1]] # "recv" => chan[j] = <<>>
    /\ HistoryOK(j)
    /\ ChipOK(j)
    /\ loop[j[1]] = "recv" /\ task[j].at # "none" =>
         \E c \in Cursors : Leads(j, c) /\ Heard(j, c)

(* The inductive invariant.                                                *)
IInv == JobTypes /\ GridTypes /\ TabOK /\ \A j \in Jobs : JobOK(j)

(* Nothing happens to the job j: at most its run is cancelled.             *)
SameGrid(j) ==
    /\ status'[j] = status[j] /\ error'[j] = error[j] /\ current'[j] = current[j]
    /\ counted'[j] = counted[j] /\ (j \in spilled' <=> j \in spilled) /\ history'[j] = history[j]

(* Nothing happens to the job.                                             *)
Still(j) ==
    /\ task'[j] = task[j] /\ chan'[j] = chan[j] /\ truth'[j] = truth[j]
    /\ text'[j[1]] = text[j[1]] /\ loop'[j[1]] = loop[j[1]]
    /\ j[1] \in fired => j[1] \in fired'
    /\ j[1] > generation' => j[1] > generation
    /\ SameGrid(j)

(* What the loop has made of the events it heard stays so.                 *)
LEMMA HeardStays ==
    ASSUME JobTypes, NEW j \in Jobs, NEW c \in Cursors, Known(j, c), Heard(j, c), Settles(j), SameGrid(j)
    PROVE  Heard(j, c)'
<1>1. c.phase \notin {"bad", "done"} => SumOf(truth'[j])[Complete(c)] = SumOf(truth[j])[Complete(c)]
  BY SumStays
<1>2. j[1] \in fired => j[1] \in fired'
  BY DEF Settles
<1>3. PICK n : n = Complete(c)
  OBVIOUS
<1>4. /\ status'[j] = "pending" <=> c.phase = "pending"
      /\ status'[j] = "running" <=> c.phase \notin {"pending", "done"}
      /\ c.phase = "stream" => current'[j] = c.rows \/ (current'[j] = NoBuffer /\ error'[j])
      /\ c.phase \notin {"stream", "done"} => current'[j] = NoBuffer
      /\ c.phase = "bad" => j[1] \in fired' \/ error'[j]
  BY <1>2 DEF Heard, SameGrid
<1>5. c.phase \notin {"bad", "done"} =>
         /\ Len(history'[j]) = Complete(c)
         /\ error'[j] => j \in spilled'
         /\ ~error'[j] => counted'[j] = SumOf(truth'[j])[Complete(c)]
  BY <1>1 DEF Heard, SameGrid
<1> QED
  BY <1>4, <1>5 DEF Heard

(* The chips and the history after a step of the job.                      *)
LEMMA RecordsStay ==
    ASSUME JobTypes, NEW j \in Jobs, HistoryOK(j), ChipOK(j), Settles(j), SameGrid(j), loop'[j[1]] = loop[j[1]],
           status[j] = "done" => task'[j] = task[j] /\ truth'[j] = truth[j]
    PROVE  HistoryOK(j)' /\ ChipOK(j)'
<1>1. HistoryOK(j)'
  BY DEF HistoryOK, Settles, Settled, SameGrid
<1>2. SomeFailed(j) => SomeFailed(j)'
  BY DEF SomeFailed, Settles, Settled
<1>3. status'[j] = "done" => /\ task'[j].at = "done" /\ AllOk(j)' /\ counted'[j] = RowsThere(j)'
                             /\ Len(history'[j]) = Len(text'[j[1]])
  <2> SUFFICES ASSUME status[j] = "done"
               PROVE  /\ task'[j].at = "done" /\ AllOk(j)' /\ counted'[j] = RowsThere(j)'
                      /\ Len(history'[j]) = Len(text'[j[1]])
    BY DEF SameGrid
  <2>1. AllOk(j)'
    BY DEF ChipOK, AllOk, Settles
  <2>2. RowsThere(j)' = RowsThere(j)
    <3>1. RowsThere(j) = SumOf(truth[j])[MaxStmts]
      BY RowsThereIsSum
    <3>2. RowsThere(j)' = SumOf(truth'[j])[MaxStmts]
      BY DEF RowsThere, SumOf
    <3> QED
      BY <3>1, <3>2
  <2> QED
    BY <2>1, <2>2 DEF ChipOK, Settles, SameGrid
<1> QED
  BY <1>1, <1>2, <1>3 DEF ChipOK, SameGrid, Settles

(* A job to which nothing happens keeps its invariant.                     *)
LEMMA StillOK ==
    ASSUME JobTypes, NEW j \in Jobs, JobOK(j), Still(j)
    PROVE  JobOK(j)'
<1>1. Settles(j)
  BY DEF Still, Settles
<1>2. TaskOK(j)'
  BY DEF JobOK, TaskOK, Still
<1>3. HistoryOK(j)' /\ ChipOK(j)'
  BY <1>1, RecordsStay DEF JobOK, Still
<1>4. Untouched(j) => Untouched(j)'
  BY DEF Untouched, Still, SameGrid
<1>5. \A c \in Cursors : Leads(j, c) /\ Heard(j, c) => Leads(j, c)' /\ Heard(j, c)'
  <2> SUFFICES ASSUME NEW c \in Cursors, Leads(j, c), Heard(j, c)
               PROVE  Leads(j, c)' /\ Heard(j, c)'
    OBVIOUS
  <2>1. \A d \in Cursors : Known(j, d) /\ Stands(j, d) => Stands(j, d)'
    BY DEF Stands, Still
  <2>2. Leads(j, c)'
    BY <1>1, <2>1, LineStays DEF Still
  <2>3. Heard(j, c)'
    BY <1>1, LeadsKnown, HeardStays DEF Still
  <2> QED
    BY <2>2, <2>3
<1> QED
  BY <1>2, <1>3, <1>4, <1>5 DEF JobOK, Still

(* A step of the job's program.                                            *)
LEMMA SteppedOK ==
    ASSUME JobTypes, NEW j \in Jobs, JobOK(j), Stepped(j), SameGrid(j), generation' = generation, guard = {},
           \A r \in Runs : loop[r] = "none" <=> r > generation,
           task[j].at \notin {"none", "done"}, task'[j].at # "none"
    PROVE  JobOK(j)'
<1>1. Settles(j) /\ TaskOK(j)' /\ loop' = loop /\ fired' = fired /\ text' = text
  BY DEF Stepped
<1>2. j[1] \in Runs /\ loop[j[1]] \in {"none", "recv", "done"}
  BY JobFacts
<1>3. loop[j[1]] # "none" /\ ~(j[1] > generation)
  BY <1>2 DEF JobOK
<1>4. HistoryOK(j)' /\ ChipOK(j)'
  BY <1>1, RecordsStay DEF JobOK, ChipOK
<1>5. \A s \in 1 .. MaxStmts : truth'[j][s].state # "refused"
  BY DEF Stepped, JobOK
<1>6. loop[j[1]] # "recv" => chan'[j] = <<>>
  BY <1>2, <1>3 DEF Stepped, JobOK
<1>7. Len(chan'[j]) <= ChanCap
  BY DEF Stepped, JobOK
<1>8. loop[j[1]] = "recv" => \E c \in Cursors : Leads(j, c)' /\ Heard(j, c)'
  <2> SUFFICES ASSUME loop[j[1]] = "recv" PROVE \E c \in Cursors : Leads(j, c)' /\ Heard(j, c)'
    OBVIOUS
  <2>1. PICK c \in Cursors : Leads(j, c) /\ Heard(j, c)
    BY DEF JobOK
  <2>2. Leads(j, c)'
    BY <2>1 DEF Stepped
  <2>3. Heard(j, c)'
    BY <1>1, <2>1, LeadsKnown, HeardStays
  <2> QED
    BY <2>2, <2>3
<1> QED
  BY <1>1, <1>3, <1>4, <1>5, <1>6, <1>7, <1>8 DEF JobOK

(* The steps of the fan-out besides those of the job's program.            *)
LEMMA AdmitStep ==
    ASSUME JobTypes, NEW j \in Jobs, TaskOK(j), Admit(j)
    PROVE  Stepped(j)
<1>0. /\ task[j].at = "pending" /\ UNCHANGED <<text, guard, fired, loop>>
      /\ Send(j, Plain("Started")) /\ Go(j, "start") /\ truth' = truth
  BY DEF Admit
<1>1. /\ task[j].stmt = 0 /\ text[j[1]] \in Texts
      /\ \A s \in 1 .. MaxStmts : truth[j][s] = Unknown
  <2>1. task[j].stmt = 0 /\ text[j[1]] \in Texts
    BY <1>0 DEF TaskOK
  <2>2. \A s \in 1 .. MaxStmts : s > task[j].stmt
    BY <2>1
  <2> QED
    BY <1>0, <2>1, <2>2 DEF TaskOK
<1>2. /\ 1 \in 1 .. MaxStmts /\ 0 \in 0 .. MaxStmts /\ 0 \in 0 .. MaxRows
      /\ truth[j][1] \in [state : States, rows : Nat] /\ Len(text[j[1]]) \in Nat
  BY JobFacts
<1>3. Place("start", 0) \in [at : Places, stmt : 0 .. MaxStmts]
  BY <1>2, PlaceType DEF Places
<1>4. Effect(j, Place("start", 0), 1, truth[j][1])
  BY <1>0, <1>1, <1>2, GoMoves, TruthSame DEF Effect
<1>5. task'[j] = Place("start", 0)
  BY <1>2, <1>3, <1>4, EffectFacts
<1>6. TaskOK(j)'
  BY <1>0, <1>1, <1>2, <1>5 DEF TaskOK, Place, InStatement
<1>7. PICK e \in Events : e = Plain("Started") /\ e.ev = "Started"
  BY <1>2, Sent
<1>8. ASSUME NEW d \in Cursors, Known(j, d), Stands(j, d)
      PROVE  \E b \in Cursors : Hears(j, d, e, b)' /\ Known(j, b)' /\ Stands(j, b)'
  <2>1. d = At("pending", 0, 0) /\ d.phase = "pending"
    BY <1>0, <1>8 DEF Stands, At
  <2>2. Hears(j, d, e, At("next", 0, 0))'
    BY <1>7, <2>1 DEF Hears
  <2>3. /\ At("next", 0, 0) \in Cursors
        /\ Known(j, At("next", 0, 0))' /\ Stands(j, At("next", 0, 0))'
    BY <1>2, <1>5, Arrives
  <2> QED
    BY <2>2, <2>3
<1> QED
  BY <1>0, <1>2, <1>3, <1>4, <1>6, <1>7, <1>8, SendingStep

(* The last event of a job.                                                *)
LEMMA FinishedStep ==
    ASSUME JobTypes, NEW j \in Jobs, TaskOK(j), NEW code \in Codes,
           Send(j, Finished(code)), Go(j, "done"), truth' = truth, UNCHANGED <<text, guard, fired, loop>>,
           \/ task[j].at = "pending" /\ j[1] \in fired /\ code = "Cancelled"
           \/ task[j].at = "good" /\ code = "Ok"
           \/ task[j].at = "bad" /\ code = "Failed"
    PROVE  Stepped(j)
<1>n. PICK n \in 0 .. MaxStmts : n = task[j].stmt
  BY JobFacts
<1>1. /\ 1 \in 1 .. MaxStmts /\ 0 \in 0 .. MaxStmts /\ 0 \in 0 .. MaxRows
      /\ truth[j][1] \in [state : States, rows : Nat]
  BY JobFacts
<1>2. Place("done", n) \in [at : Places, stmt : 0 .. MaxStmts]
  BY <1>1, PlaceType DEF Places
<1>3. Effect(j, Place("done", n), 1, truth[j][1])
  BY <1>n, <1>1, GoMoves, TruthSame DEF Effect
<1>4. task'[j] = Place("done", n)
  BY <1>1, <1>2, <1>3, EffectFacts
<1>5. task'[j].at = "done" /\ task'[j].stmt = task[j].stmt
  BY <1>n, <1>4 DEF Place
<1>6. TaskOK(j)'
  BY <1>5 DEF TaskOK, InStatement
<1>7. PICK e \in Events : e = Finished(code) /\ e.ev = "Finished" /\ e.code = code
  BY SomeEvents, <1>1 DEF Finished, Event
<1>8. ASSUME NEW d \in Cursors, Known(j, d), Stands(j, d)
      PROVE  \E b \in Cursors : Hears(j, d, e, b)' /\ Known(j, b)' /\ Stands(j, b)'
  <2>1. PICK b \in Cursors : b = At("done", 0, 0) /\ b.phase = "done"
    BY <1>1, AtType DEF Phases
  <2>2. Known(j, b)' /\ Stands(j, b)'
    BY <1>5, <2>1 DEF Known, Stands
  <2>3. /\ task[j].at = "pending" => d.phase = "pending"
        /\ task[j].at = "good" => d.phase = "good" /\ d.stmt = task[j].stmt /\ task[j].stmt = Len(text[j[1]])
        /\ task[j].at = "bad" => d.phase \in {"next", "stream", "exec", "bad"}
    BY <1>8 DEF Stands, At, TaskOK
  <2>4. task[j].at = "bad" => j[1] \in fired \/ \E s \in 1 .. MaxStmts : truth[j][s].state \in {"failed", "refused"}
    BY DEF TaskOK
  <2>5. Hears(j, d, e, b)'
    BY <1>7, <2>1, <2>3, <2>4 DEF Hears
  <2> QED
    BY <2>2, <2>5
<1> QED
  BY <1>1, <1>2, <1>3, <1>6, <1>7, <1>8, SendingStep

(* A panic of the decoder is a step like the others: the statement has     *)
(* failed, and no event says so.                                           *)
LEMMA PanicStep ==
    ASSUME JobTypes, NEW j \in Jobs, TaskOK(j), Panic(j)
    PROVE  Stepped(j)
<1>0. /\ task[j].at = "stream" /\ UNCHANGED <<text, guard, fired, loop, chan>>
      /\ Go(j, "bad") /\ Becomes(j, task[j].stmt, "failed", 0)
  BY DEF Panic
<1>1. PICK s \in 1 .. MaxStmts : /\ s = task[j].stmt /\ s <= Len(text[j[1]]) /\ text[j[1]] \in Texts
                                 /\ truth[j][s].state \notin Settled
                                 /\ truth[j][s] \in [state : States, rows : Nat]
                                 /\ \A q \in 1 .. MaxStmts : /\ q < s => truth[j][q].state = "ok"
                                                             /\ q > s => truth[j][q] = Unknown
  BY <1>0, AtStatement DEF InStatement
<1>2. PICK n \in Nat : n = truth[j][s].rows
  BY <1>1
<1>3. PICK R \in [state : States, rows : Nat] : R = Row("failed", n) /\ R.state = "failed"
  BY RowType DEF Row, States
<1>4. PICK T \in [at : Places, stmt : 0 .. MaxStmts] : T = Place("bad", s) /\ T.at = "bad" /\ T.stmt = s
  <2>1. s \in 0 .. MaxStmts
    BY StatementsAssumption
  <2> QED
    <3>1. Place("bad", s) \in [at : Places, stmt : 0 .. MaxStmts]
      BY <2>1, PlaceType DEF Places
    <3>2. Place("bad", s).at = "bad" /\ Place("bad", s).stmt = s
      BY DEF Place
    <3> QED
      BY <3>1, <3>2
<1>5. Effect(j, T, s, R)
  <2>1. truth' = [truth EXCEPT ![j][s] = Row("failed", n + 0)]
    BY <1>0, <1>1, <1>2, BecomesRow
  <2>2. task' = [task EXCEPT ![j] = Place("bad", s)]
    BY <1>0, <1>1, GoMoves
  <2>3. n + 0 = n
    OBVIOUS
  <2> QED
    BY <1>0, <1>3, <1>4, <2>1, <2>2, <2>3 DEF Effect
<1>6. task'[j] = T /\ truth'[j][s] = R /\ \A q \in 1 .. MaxStmts : q # s => truth'[j][q] = truth[j][q]
  BY <1>1, <1>5, EffectFacts
<1>7. TaskOK(j)'
  <2>1. \A q \in 1 .. MaxStmts : /\ q < s => truth'[j][q].state = "ok"
                                 /\ q > s => truth'[j][q] = Unknown
    BY <1>1, <1>6
  <2>2. truth'[j][s].state = "failed"
    BY <1>3, <1>6
  <2>3. task'[j].at = "bad" /\ task'[j].stmt = s
    BY <1>4, <1>6
  <2> QED
    BY <1>0, <1>1, <2>1, <2>2, <2>3 DEF TaskOK, InStatement
<1>8. \A d \in Cursors : Known(j, d) /\ Stands(j, d) => Stands(j, d)'
  <2>1. \A d \in Cursors : Stands(j, d) => d.phase = "stream"
    BY <1>0 DEF Stands, At
  <2>2. task'[j].at = "bad"
    BY <1>4, <1>6
  <2> QED
    BY <2>1, <2>2 DEF Stands
<1> QED
  BY <1>0, <1>1, <1>3, <1>5, <1>7, <1>8, SilentStep

(* A step of the fan-out keeps what is true of its job.                    *)
LEMMA FanoutStep ==
    ASSUME JobTypes, NEW j \in Jobs, TaskOK(j), Fanout(j)
    PROVE  /\ Stepped(j) /\ UNCHANGED <<editor, gate, grid, history>>
           /\ task[j].at \notin {"none", "done"} /\ task'[j].at # "none"
<1>0. task \in [Jobs -> [at : Places, stmt : 0 .. MaxStmts]] /\ \A place : Go(j, place) => task'[j].at = place
  <2>1. task \in [Jobs -> [at : Places, stmt : 0 .. MaxStmts]]
    BY DEF JobTypes
  <2> QED
    BY <2>1 DEF Go
<1>1. CASE Admit(j)
  <2>1. /\ task[j].at = "pending" /\ Go(j, "start") /\ UNCHANGED <<editor, gate, grid, history>>
    BY <1>1 DEF Admit
  <2> QED
    BY <1>0, <1>1, <2>1, AdmitStep
<1>2. CASE Refuse(j)
  <2>1. /\ task[j].at = "pending" /\ j[1] \in fired /\ Send(j, Finished("Cancelled")) /\ Go(j, "done")
        /\ truth' = truth /\ UNCHANGED <<text, guard, fired, loop>>
        /\ UNCHANGED <<editor, gate, grid, history>>
    BY <1>2 DEF Refuse
  <2>2. "Cancelled" \in Codes
    BY Zenon DEF Codes
  <2> QED
    BY <1>0, <2>1, <2>2, FinishedStep
<1>3. CASE Report(j)
  <2>1. /\ \/ task[j].at = "good" /\ Send(j, Finished("Ok"))
           \/ task[j].at = "bad" /\ Send(j, Finished("Failed"))
        /\ Go(j, "done")
        /\ truth' = truth /\ UNCHANGED <<text, guard, fired, loop>>
        /\ UNCHANGED <<editor, gate, grid, history>>
    BY <1>3 DEF Report
  <2>2. "Ok" \in Codes /\ "Failed" \in Codes
    BY Zenon DEF Codes
  <2> QED
    BY <1>0, <2>1, <2>2, FinishedStep
<1>4. CASE Panic(j)
  <2>1. /\ task[j].at = "stream" /\ Go(j, "bad") /\ UNCHANGED <<editor, gate, grid, history>>
    BY <1>4 DEF Panic, grid, editor
  <2> QED
    BY <1>0, <1>4, <2>1, PanicStep
<1>5. CASE Job(j) /\ UNCHANGED <<editor, gate, grid, history>>
  <2>1. task[j].at \notin {"none", "done"} /\ task'[j].at # "none"
    BY <1>5, JobPlaces DEF InStatement
  <2> QED
    BY <1>5, <2>1, JobStep
<1> QED
  BY <1>1, <1>2, <1>3, <1>4, <1>5 DEF Fanout

(* A step that leaves the tab and every grid alone.                        *)
LEMMA FanoutOK ==
    ASSUME IInv, NEW j \in Jobs, Fanout(j)
    PROVE  IInv'
<1>1. /\ JobTypes /\ GridTypes /\ TabOK /\ \A k \in Jobs : JobOK(k)
  BY DEF IInv
<1>2. /\ Stepped(j) /\ UNCHANGED <<editor, gate, grid, history>>
      /\ task[j].at \notin {"none", "done"} /\ task'[j].at # "none"
  BY <1>1, FanoutStep DEF JobOK
<1>3. /\ JobTypes' /\ loop' = loop /\ fired' = fired /\ text' = text /\ guard' = guard
      /\ \A k \in Jobs \ {j} : task'[k] = task[k] /\ chan'[k] = chan[k] /\ truth'[k] = truth[k]
  BY <1>2 DEF Stepped
<1>4. \A k \in Jobs : SameGrid(k)
  BY <1>2 DEF SameGrid, grid
<1>5. generation' = generation /\ GridTypes' /\ TabOK'
  BY <1>1, <1>2, <1>3 DEF GridTypes, TabOK, grid, editor
<1>6. \A k \in Jobs \ {j} : JobOK(k)'
  BY <1>1, <1>3, <1>4, <1>5, StillOK DEF Still
<1>7. JobOK(j)'
  BY <1>1, <1>2, <1>4, <1>5, SteppedOK DEF TabOK
<1> QED
  BY <1>3, <1>5, <1>6, <1>7 DEF IInv

(* What the types say of the row of one job.                               *)
LEMMA GridFacts ==
    ASSUME GridTypes, NEW j \in Jobs
    PROVE  /\ status[j] \in Chips /\ error[j] \in BOOLEAN /\ current[j] \in -1 .. MaxRows /\ current[j] \in Int
           /\ counted[j] \in Int /\ history[j] \in Seq(Entries) /\ Len(history[j]) \in Nat
<1>1. /\ status[j] \in Chips /\ error[j] \in BOOLEAN /\ current[j] \in -1 .. MaxRows
      /\ counted[j] \in Int /\ history[j] \in Seq(Entries)
  BY DEF GridTypes
<1>2. MaxRows \in Nat
  BY StatementsAssumption
<1>3. current[j] \in Int
  BY <1>1, <1>2
<1>4. Len(history[j]) \in Nat
  BY <1>1
<1> QED
  BY <1>1, <1>3, <1>4

(* The loop takes the event e: it was at c and is at d.                    *)
Hearing(j, c, e, d) ==
    /\ c \in Cursors /\ d \in Cursors /\ e \in Events /\ e = Head(chan[j])
    /\ Known(j, c) /\ Heard(j, c) /\ Known(j, d) /\ Hears(j, c, e, d)

(* An arm has the next event of the line in hand: it is about what comes   *)
(* next, for the place where the loop is.                                  *)
LEMMA HearingIt ==
    ASSUME IInv, NEW j \in Jobs, NEW ev, Handle(j, ev)
    PROVE  \E c, d, e : Hearing(j, c, e, d) /\ e.ev = ev /\ Leads(j, d)'
<1>1. /\ JobTypes /\ JobOK(j)
      /\ loop[j[1]] = "recv" /\ chan[j] # <<>> /\ Head(chan[j]).ev = ev
      /\ chan' = [chan EXCEPT ![j] = Tail(@)]
      /\ task' = task /\ truth' = truth /\ text' = text /\ fired' = fired
  BY DEF IInv, Handle, Ready, Continue
<1>2. task[j].at # "none"
  BY <1>1 DEF JobOK, Untouched
<1>3. PICK c \in Cursors : Leads(j, c) /\ Heard(j, c)
  BY <1>1, <1>2 DEF JobOK
<1>4. PICK d \in Cursors : /\ Known(j, c) /\ Known(j, d) /\ Hears(j, c, Head(chan[j]), d)
                           /\ (/\ chan'[j] = Tail(chan[j]) /\ Settles(j)
                               /\ (\A b \in Cursors : Known(j, b) /\ Stands(j, b) => Stands(j, b)'))
                              => Leads(j, d)'
  BY <1>1, <1>3, LineShrinks
<1>5. chan'[j] = Tail(chan[j]) /\ Settles(j) /\ (\A b \in Cursors : Known(j, b) /\ Stands(j, b) => Stands(j, b)')
  <2>1. chan \in [Jobs -> Seq(Events)]
    BY <1>1 DEF JobTypes
  <2>2. chan'[j] = Tail(chan[j])
    BY <1>1, <2>1
  <2> QED
    BY <1>1, <2>2 DEF Settles, Stands
<1>6. Leads(j, d)'
  BY <1>4, <1>5
<1>7. PICK e \in Events : e = Head(chan[j])
  <2>1. chan[j] \in Seq(Events)
    BY <1>1, JobFacts
  <2> QED
    BY <1>1, <2>1
<1> QED
  BY <1>1, <1>3, <1>4, <1>6, <1>7 DEF Hearing

(* An arm keeps the invariant if it keeps that of its own job.             *)
LEMMA ArmDone ==
    ASSUME IInv, NEW j \in Jobs, NEW ev, Handle(j, ev), GridTypes',
           \A k \in Jobs \ {j} : SameGrid(k),
           HistoryOK(j)', ChipOK(j)', NEW d \in Cursors, Leads(j, d)', Heard(j, d)'
    PROVE  IInv'
<1>1. /\ JobTypes /\ TabOK /\ \A k \in Jobs : JobOK(k)
      /\ loop[j[1]] = "recv" /\ chan[j] # <<>>
      /\ chan' = [chan EXCEPT ![j] = Tail(@)]
      /\ UNCHANGED <<text, guard, task, fired, truth, loop, editor, gate>>
  BY DEF IInv, Handle, Ready, Continue
<1>2. chan \in [Jobs -> Seq(Events)] /\ chan[j] \in Seq(Events)
  BY <1>1 DEF JobTypes
<1>3. chan' \in [Jobs -> Seq(Events)] /\ chan'[j] = Tail(chan[j]) /\ \A k \in Jobs \ {j} : chan'[k] = chan[k]
  BY <1>1, <1>2
<1>4. JobTypes' /\ TabOK'
  BY <1>1, <1>3 DEF JobTypes, TabOK, editor
<1>5. \A k \in Jobs \ {j} : JobOK(k)'
  BY <1>1, <1>3, StillOK DEF Still, editor
<1>6. JobOK(j)'
  <2>1. task[j].at # "none"
    BY <1>1 DEF JobOK, Untouched
  <2>2. Len(chan'[j]) <= ChanCap
    <3>1. Len(chan[j]) <= ChanCap /\ ChanCap \in Nat
      BY <1>1, JobFacts DEF JobOK
    <3>2. Len(Tail(chan[j])) <= Len(chan[j]) /\ Len(chan[j]) \in Nat /\ Len(Tail(chan[j])) \in Nat
      BY <1>1, <1>2
    <3> QED
      BY <1>3, <3>1, <3>2
  <2>3. TaskOK(j)'
    BY <1>1 DEF JobOK, TaskOK
  <2>4. (j[1] > generation => task[j].at = "none")' /\ (\A s \in 1 .. MaxStmts : truth[j][s].state # "refused")'
    BY <1>1 DEF JobOK, editor
  <2>5. loop'[j[1]] = "recv" /\ task'[j].at # "none"
    BY <1>1, <2>1
  <2> QED
    BY <2>2, <2>3, <2>4, <2>5 DEF JobOK
<1> QED
  BY <1>4, <1>5, <1>6 DEF IInv

(* The history with one more entry.                                        *)
LEMMA RecordOK ==
    ASSUME GridTypes, NEW j \in Jobs, HistoryOK(j), truth' = truth, spilled' = spilled,
           NEW s \in Nat, NEW ok \in BOOLEAN, NEW n \in Int, Record(j, s, ok, n),
           s = Len(history[j]) + 1, s <= MaxStmts,
           ok => truth[j][s] = Row("ok", n),
           ~ok => truth[j][s].state \in {"failed", "cancelled"} \/ j \in spilled
    PROVE  /\ history' \in [Jobs -> Seq(Entries)] /\ HistoryOK(j)'
           /\ Len(history'[j]) = s /\ \A k \in Jobs \ {j} : history'[k] = history[k]
<1>1. PICK h \in Seq(Entries) : h = history[j]
  BY GridFacts
<1>2. PICK x \in Entries : x = [stmt |-> s, ok |-> ok, rows |-> n] /\ x.stmt = s /\ x.ok = ok /\ x.rows = n
  <2> DEFINE x == [stmt |-> s, ok |-> ok, rows |-> n]
  <2>1. x \in Entries
    BY Zenon DEF Entries
  <2>2. x.stmt = s /\ x.ok = ok /\ x.rows = n
    BY Zenon
  <2> HIDE DEF x
  <2> QED
    BY <2>1, <2>2, Zenon DEF x
<1>3. PICK g \in Seq(Entries) : g = Append(h, x)
  BY AppendProperties
<1>4. history \in [Jobs -> Seq(Entries)] /\ history' = [history EXCEPT ![j] = Append(@, x)]
  BY <1>2 DEF GridTypes, Record
<1>5. /\ history' \in [Jobs -> Seq(Entries)] /\ history'[j] = g
      /\ \A k \in Jobs \ {j} : history'[k] = history[k]
  BY <1>1, <1>3, <1>4
<1>6. Len(h) \in Nat /\ Len(g) = Len(h) + 1 /\ g[Len(h) + 1] = x /\ \A i \in 1 .. Len(h) : g[i] = h[i]
  BY <1>1, <1>3
<1>7. Len(g) = s
  BY <1>1, <1>6
<1>8. ASSUME NEW i \in 1 .. Len(g)
      PROVE  /\ i <= MaxStmts
             /\ g[i].stmt = i
             /\ g[i].ok => truth[j][i] = [state |-> "ok", rows |-> g[i].rows]
             /\ ~g[i].ok => truth[j][i].state \in {"failed", "cancelled"} \/ j \in spilled
  <2>1. CASE i = s
    <3>1. g[i] = x
      BY <1>6, <1>7, <2>1
    <3> QED
      BY <1>2, <2>1, <3>1 DEF Row
  <2>2. CASE i # s
    <3>1. i \in 1 .. Len(h) /\ g[i] = h[i]
      BY <1>6, <1>7, <2>2
    <3> QED
      BY <1>1, <3>1 DEF HistoryOK
  <2> QED
    BY <2>1, <2>2
<1>9. HistoryOK(j)'
  BY <1>5, <1>8 DEF HistoryOK
<1> QED
  BY <1>5, <1>7, <1>9

(* An entry that says ok, about a statement that succeeded.                *)
LEMMA RecordGood ==
    ASSUME GridTypes, NEW j \in Jobs, HistoryOK(j), truth' = truth, spilled' = spilled,
           NEW s \in Nat, NEW n \in Int,
           history' = [history EXCEPT ![j] = Append(@, [stmt |-> s, ok |-> TRUE, rows |-> n])],
           s = Len(history[j]) + 1, s <= MaxStmts,
           truth[j][s] = Row("ok", n)
    PROVE  /\ history' \in [Jobs -> Seq(Entries)] /\ HistoryOK(j)'
           /\ Len(history'[j]) = s /\ \A k \in Jobs \ {j} : history'[k] = history[k]
BY RecordOK, Zenon DEF Record

(* An entry that says failed, about one that did not, or whose push        *)
(* failed.                                                                 *)
LEMMA RecordBad ==
    ASSUME GridTypes, NEW j \in Jobs, HistoryOK(j), truth' = truth, spilled' = spilled,
           NEW s \in Nat, NEW n \in Int,
           history' = [history EXCEPT ![j] = Append(@, [stmt |-> s, ok |-> FALSE, rows |-> n])],
           s = Len(history[j]) + 1, s <= MaxStmts,
           truth[j][s].state \in {"failed", "cancelled"} \/ j \in spilled
    PROVE  /\ history' \in [Jobs -> Seq(Entries)] /\ HistoryOK(j)'
           /\ Len(history'[j]) = s /\ \A k \in Jobs \ {j} : history'[k] = history[k]
BY RecordOK, Zenon DEF Record

(* What an arm of the loop starts from.                                    *)
LEMMA ArmFacts ==
    ASSUME IInv, NEW j \in Jobs, NEW ev, Handle(j, ev)
    PROVE  /\ JobTypes /\ GridTypes /\ JobOK(j) /\ HistoryOK(j) /\ ChipOK(j)
           /\ loop' = loop /\ loop[j[1]] = "recv" /\ truth' = truth /\ text' = text /\ fired' = fired /\ task' = task
           /\ \A s \in 1 .. MaxStmts : truth[j][s].state # "refused"
           /\ MaxStmts \in Nat /\ MaxRows \in Nat
           /\ error[j] => j \in spilled \/ SomeFailed(j)
BY JobFacts DEF IInv, JobOK, ChipOK, Handle, Ready, Continue

(* A chip of a target that goes on.                                        *)
LEMMA ChipGoesOn ==
    ASSUME NEW j \in Jobs, status'[j] \in Unfinished, loop'[j[1]] = "recv",
           error'[j] => j \in spilled' \/ SomeFailed(j)'
    PROVE  ChipOK(j)'
BY DEF ChipOK, Unfinished

(* Nothing is recorded.                                                    *)
LEMMA SameHistory ==
    ASSUME NEW j \in Jobs, HistoryOK(j), history' = history, truth' = truth, spilled \subseteq spilled'
    PROVE  HistoryOK(j)'
BY DEF HistoryOK

(* The arm of Started.                                                     *)
LEMMA OnStartedOK ==
    ASSUME IInv, NEW j \in Jobs, OnStarted(j)
    PROVE  IInv'
<1>0. /\ Handle(j, "Started") /\ status' = [status EXCEPT ![j] = "running"]
      /\ UNCHANGED <<error, current, counted, spilled, history>>
  BY DEF OnStarted
<1>1. PICK c, d, e : Hearing(j, c, e, d) /\ e.ev = "Started" /\ Leads(j, d)'
  BY <1>0, HearingIt
<1>2. /\ c.phase = "pending" /\ d = At("next", 0, 0) /\ d.phase = "next" /\ d.stmt = 0
      /\ c \in Cursors /\ c.stmt = 0 /\ d \in Cursors
  BY <1>1 DEF Hearing, Hears, At, Known
<1>3. /\ Len(history[j]) = 0 /\ (error[j] => j \in spilled) /\ current[j] = NoBuffer
      /\ ~error[j] => counted[j] = SumOf(truth[j])[0]
  BY <1>1, <1>2 DEF Hearing, Heard, Complete
<1>4. GridTypes' /\ status'[j] = "running" /\ \A k \in Jobs \ {j} : SameGrid(k)
  <2>1. "running" \in Chips
    BY DEF Chips, Unfinished
  <2>2. GridTypes
    BY DEF IInv
  <2> QED
    BY <1>0, <2>1, <2>2 DEF GridTypes, SameGrid
<1>5. HistoryOK(j)' /\ ChipOK(j)'
  BY <1>0, <1>3, <1>4, ArmFacts, ChipGoesOn, SameHistory DEF Unfinished
<1>6. Heard(j, d)'
  BY <1>0, <1>2, <1>3, <1>4, ArmFacts DEF Heard, Complete
<1> QED
  BY <1>0, <1>1, <1>2, <1>4, <1>5, <1>6, ArmDone

(* The beginnings and the end of the statements.                           *)
LEMMA OnReadStartedOK ==
    ASSUME IInv, NEW j \in Jobs, OnReadStarted(j)
    PROVE  IInv'
<1>0. /\ Handle(j, "ReadStarted") /\ current' = [current EXCEPT ![j] = 0]
      /\ UNCHANGED <<status, error, counted, spilled, history>>
  BY DEF OnReadStarted
<1>1. PICK c, d, e : Hearing(j, c, e, d) /\ e.ev = "ReadStarted" /\ Leads(j, d)'
  BY <1>0, HearingIt
<1>2. PICK n \in Nat : /\ c.phase = "next" /\ c.stmt = n /\ d.phase = "stream" /\ d.stmt = n + 1 /\ d.rows = 0
                       /\ d \in Cursors
  BY <1>1, ArmFacts DEF Hearing, Hears, At, Cursors
<1>3. /\ Len(history[j]) = n /\ (error[j] => j \in spilled) /\ status[j] = "running"
      /\ ~error[j] => counted[j] = SumOf(truth[j])[n]
  BY <1>1, <1>2 DEF Hearing, Heard, Complete
<1>4. GridTypes' /\ current'[j] = 0 /\ \A k \in Jobs \ {j} : SameGrid(k)
  <2>1. GridTypes /\ 0 \in -1 .. MaxRows
    BY <1>0, ArmFacts
  <2> QED
    BY <1>0, <2>1 DEF GridTypes, SameGrid
<1>5. HistoryOK(j)' /\ ChipOK(j)'
  BY <1>0, <1>3, ArmFacts, ChipGoesOn, SameHistory DEF Unfinished
<1>6. Heard(j, d)'
  <2>1. Complete(d) = n
    BY <1>2 DEF Complete
  <2> QED
    BY <1>0, <1>2, <1>3, <1>4, <2>1, ArmFacts DEF Heard
<1> QED
  BY <1>0, <1>1, <1>2, <1>4, <1>5, <1>6, ArmDone

(* The arm of a write that begins.                                         *)
LEMMA OnWriteStartedOK ==
    ASSUME IInv, NEW j \in Jobs, OnWriteStarted(j)
    PROVE  IInv'
<1>0. /\ Handle(j, "WriteStarted") /\ UNCHANGED <<status, error, current, counted, spilled, history>>
  BY DEF OnWriteStarted, grid
<1>1. PICK c, d, e : Hearing(j, c, e, d) /\ e.ev = "WriteStarted" /\ Leads(j, d)'
  BY <1>0, HearingIt
<1>2. PICK n \in Nat : /\ c.phase = "next" /\ c.stmt = n /\ d.phase = "exec" /\ d.stmt = n + 1
                       /\ d \in Cursors
  BY <1>1, ArmFacts DEF Hearing, Hears, At, Cursors
<1>3. /\ Len(history[j]) = n /\ (error[j] => j \in spilled) /\ status[j] = "running" /\ current[j] = NoBuffer
      /\ ~error[j] => counted[j] = SumOf(truth[j])[n]
  BY <1>1, <1>2 DEF Hearing, Heard, Complete
<1>4. GridTypes' /\ \A k \in Jobs \ {j} : SameGrid(k)
  BY <1>0, ArmFacts DEF GridTypes, SameGrid
<1>5. HistoryOK(j)' /\ ChipOK(j)'
  BY <1>0, <1>3, ArmFacts, ChipGoesOn, SameHistory DEF Unfinished
<1>6. Heard(j, d)'
  <2>1. Complete(d) = n
    BY <1>2 DEF Complete
  <2> QED
    BY <1>0, <1>2, <1>3, <2>1, ArmFacts DEF Heard
<1> QED
  BY <1>0, <1>1, <1>2, <1>4, <1>5, <1>6, ArmDone

(* The arm of the end of the text: the chip waits for Finished.            *)
LEMMA OnRunFinishedOK ==
    ASSUME IInv, NEW j \in Jobs, OnRunFinished(j)
    PROVE  IInv'
<1>0. /\ Handle(j, "RunFinished") /\ UNCHANGED <<status, error, current, counted, spilled, history>>
  BY DEF OnRunFinished, grid
<1>1. PICK c, d, e : Hearing(j, c, e, d) /\ e.ev = "RunFinished" /\ Leads(j, d)'
  BY <1>0, HearingIt
<1>2. PICK n \in Nat : c.phase = "next" /\ c.stmt = n /\ d.phase = "good" /\ d.stmt = n /\ d \in Cursors
  BY <1>1, ArmFacts DEF Hearing, Hears, At, Cursors
<1>3. /\ Len(history[j]) = n /\ (error[j] => j \in spilled) /\ status[j] = "running" /\ current[j] = NoBuffer
      /\ ~error[j] => counted[j] = SumOf(truth[j])[n]
  BY <1>1, <1>2 DEF Hearing, Heard, Complete
<1>4. GridTypes' /\ \A k \in Jobs \ {j} : SameGrid(k)
  BY <1>0, ArmFacts DEF GridTypes, SameGrid
<1>5. HistoryOK(j)' /\ ChipOK(j)'
  BY <1>0, <1>3, ArmFacts, ChipGoesOn, SameHistory DEF Unfinished
<1>6. Heard(j, d)'
  <2>1. Complete(d) = n
    BY <1>2 DEF Complete
  <2> QED
    BY <1>0, <1>2, <1>3, <2>1, ArmFacts DEF Heard
<1> QED
  BY <1>0, <1>1, <1>2, <1>4, <1>5, <1>6, ArmDone

(* A batch: it is stored, or the push fails, or it is dropped.             *)
LEMMA OnBatchOK ==
    ASSUME IInv, NEW j \in Jobs, OnBatch(j)
    PROVE  IInv'
<1>0. /\ Handle(j, "Batch") /\ UNCHANGED <<status, counted, history>>
  BY DEF OnBatch
<1>1. PICK c, d, e : Hearing(j, c, e, d) /\ e.ev = "Batch" /\ Leads(j, d)'
  BY <1>0, HearingIt
<1>2. PICK s \in Nat, n \in 0 .. MaxRows :
          /\ c.phase = "stream" /\ c.stmt = s /\ c.rows = n /\ d.phase = "stream" /\ d.stmt = s
          /\ d.rows = n + 1 /\ n + 1 \in 0 .. MaxRows /\ e.rows = 1 /\ d \in Cursors /\ e = Head(chan[j])
  <2>1. c \in Cursors /\ d \in Cursors /\ e = Head(chan[j]) /\ c.phase = "stream" /\ e.stmt = c.stmt /\ e.rows = 1
        /\ d = At("stream", e.stmt, c.rows + 1)
    BY <1>1 DEF Hearing, Hears
  <2>2. d.phase = "stream" /\ d.stmt = c.stmt /\ d.rows = c.rows + 1
    BY <2>1 DEF At
  <2>3. c.stmt \in 0 .. MaxStmts /\ c.rows \in 0 .. MaxRows /\ d.rows \in 0 .. MaxRows
    BY <2>1 DEF Cursors
  <2>4. c.stmt \in Nat
    BY <1>0, <2>3, ArmFacts
  <2> QED
    BY <2>1, <2>2, <2>3, <2>4
<1>3. /\ Len(history[j]) = s - 1 /\ (error[j] => j \in spilled) /\ status[j] = "running"
      /\ ~error[j] => counted[j] = SumOf(truth[j])[s - 1]
      /\ current[j] = n \/ (current[j] = NoBuffer /\ error[j])
  BY <1>1, <1>2 DEF Hearing, Heard, Complete
<1>4. /\ JobTypes /\ GridTypes /\ MaxRows \in Nat /\ n \in Nat
  BY <1>0, <1>2, ArmFacts
<1>5. \/ /\ current[j] # NoBuffer /\ current' = [current EXCEPT ![j] = n + 1]
         /\ UNCHANGED <<error, spilled>>
      \/ /\ current' = [current EXCEPT ![j] = NoBuffer]
         /\ error' = [error EXCEPT ![j] = TRUE]
         /\ spilled' = spilled \cup {j}
      \/ current[j] = NoBuffer /\ UNCHANGED <<current, error, spilled>>
  <2>1. current[j] # NoBuffer => [current EXCEPT ![j] = @ + Head(chan[j]).rows] = [current EXCEPT ![j] = n + 1]
    BY <1>2, <1>3
  <2> QED
    BY <2>1 DEF OnBatch
<1>6. /\ GridTypes' /\ (error'[j] => j \in spilled') /\ spilled \subseteq spilled'
      /\ ~error'[j] => ~error[j]
      /\ current'[j] = n + 1 \/ (current'[j] = NoBuffer /\ error'[j])
      /\ \A k \in Jobs \ {j} : SameGrid(k)
  <2>1. n + 1 \in -1 .. MaxRows /\ NoBuffer \in -1 .. MaxRows
    BY <1>2, <1>4 DEF NoBuffer
  <2>2. /\ status' \in [Jobs -> Chips] /\ counted' \in [Jobs -> Int] /\ history' \in [Jobs -> Seq(Entries)]
        /\ error \in [Jobs -> BOOLEAN] /\ current \in [Jobs -> -1 .. MaxRows] /\ spilled \subseteq Jobs
    BY <1>0, <1>4 DEF GridTypes
  <2>3. CASE /\ current[j] # NoBuffer /\ current' = [current EXCEPT ![j] = n + 1]
             /\ UNCHANGED <<error, spilled>>
    BY <1>0, <1>3, <2>1, <2>2, <2>3 DEF GridTypes, SameGrid
  <2>4. CASE /\ current' = [current EXCEPT ![j] = NoBuffer]
             /\ error' = [error EXCEPT ![j] = TRUE]
             /\ spilled' = spilled \cup {j}
    BY <1>0, <2>1, <2>2, <2>4 DEF GridTypes, SameGrid
  <2>5. CASE current[j] = NoBuffer /\ UNCHANGED <<current, error, spilled>>
    <3>1. error[j]
      BY <1>3, <1>4, <2>5 DEF NoBuffer
    <3> QED
      BY <1>0, <1>3, <2>2, <2>5, <3>1 DEF GridTypes, SameGrid
  <2> QED
    BY <1>5, <2>3, <2>4, <2>5
<1>7. HistoryOK(j)' /\ ChipOK(j)'
  BY <1>0, <1>3, <1>6, ArmFacts, ChipGoesOn, SameHistory DEF Unfinished
<1>8. Heard(j, d)'
  <2>1. Complete(d) = s - 1
    BY <1>2 DEF Complete
  <2> QED
    BY <1>0, <1>2, <1>3, <1>6, <2>1, ArmFacts DEF Heard
<1> QED
  BY <1>0, <1>1, <1>2, <1>6, <1>7, <1>8, ArmDone

(* A read is through: what its buffer holds is counted and recorded.       *)
LEMMA OnReadFinishedOK ==
    ASSUME IInv, NEW j \in Jobs, OnReadFinished(j)
    PROVE  IInv'
<1>0. /\ Handle(j, "ReadFinished") /\ current' = [current EXCEPT ![j] = NoBuffer]
      /\ UNCHANGED <<status, error, spilled>>
  BY DEF OnReadFinished
<1>1. PICK c, d, e : Hearing(j, c, e, d) /\ e.ev = "ReadFinished" /\ Leads(j, d)'
  BY <1>0, HearingIt
<1>2. PICK s \in 1 .. MaxStmts, n \in 0 .. MaxRows :
          /\ c.phase = "stream" /\ c.stmt = s /\ c.rows = n /\ e.stmt = s /\ e = Head(chan[j])
          /\ truth[j][s] = Row("ok", n)
          /\ d.phase = "next" /\ d.stmt = s /\ d \in Cursors
  <2>1. /\ c \in Cursors /\ d \in Cursors /\ e = Head(chan[j]) /\ c.phase = "stream" /\ e.stmt = c.stmt
        /\ truth[j][e.stmt] = Row("ok", c.rows) /\ d = At("next", e.stmt, 0)
    BY <1>1 DEF Hearing, Hears, Row
  <2>2. d.phase = "next" /\ d.stmt = e.stmt
    BY <2>1 DEF At
  <2>3. c.stmt \in 0 .. MaxStmts /\ c.rows \in 0 .. MaxRows /\ c.stmt > 0
    BY <1>1, <2>1 DEF Cursors, Hearing, Known
  <2>4. c.stmt \in 1 .. MaxStmts
    BY <1>0, <2>3, ArmFacts
  <2> QED
    BY <2>1, <2>2, <2>3, <2>4
<1>3. /\ Len(history[j]) = s - 1 /\ (error[j] => j \in spilled) /\ status[j] = "running"
      /\ ~error[j] => counted[j] = SumOf(truth[j])[s - 1]
      /\ current[j] = n \/ (current[j] = NoBuffer /\ error[j])
  BY <1>1, <1>2 DEF Hearing, Heard, Complete
<1>4. /\ JobTypes /\ GridTypes /\ MaxRows \in Nat /\ MaxStmts \in Nat /\ n \in Nat /\ n \in Int /\ HistoryOK(j) /\ truth' = truth
      /\ s \in Nat /\ s <= MaxStmts /\ s = Len(history[j]) + 1 /\ 0 \in Int
  BY <1>0, <1>2, <1>3, ArmFacts
<1>5. ~error[j] => SumOf(truth[j])[s] = counted[j] + n
  BY <1>2, <1>3, <1>4, SumFacts DEF Row
<1>6. \/ /\ current[j] # NoBuffer
         /\ counted' = [counted EXCEPT ![j] = @ + n]
         /\ history' = [history EXCEPT ![j] = Append(@, [stmt |-> s, ok |-> TRUE, rows |-> n])]
      \/ /\ current[j] = NoBuffer
         /\ history' = [history EXCEPT ![j] = Append(@, [stmt |-> s, ok |-> ~error[j], rows |-> 0])]
         /\ UNCHANGED counted
  <2>1. Head(chan[j]).stmt = s
    BY <1>2
  <2>2. current[j] # NoBuffer => current[j] = n
    BY <1>3
  <2> QED
    BY <2>1, <2>2 DEF OnReadFinished, Record
<1>7. /\ history' \in [Jobs -> Seq(Entries)] /\ HistoryOK(j)' /\ Len(history'[j]) = s
      /\ \A k \in Jobs \ {j} : history'[k] = history[k]
      /\ counted' \in [Jobs -> Int] /\ \A k \in Jobs \ {j} : counted'[k] = counted[k]
      /\ ~error[j] => counted'[j] = SumOf(truth[j])[s]
  <2>1. CASE /\ current[j] # NoBuffer
             /\ counted' = [counted EXCEPT ![j] = @ + n]
             /\ history' = [history EXCEPT ![j] = Append(@, [stmt |-> s, ok |-> TRUE, rows |-> n])]
    <3>1. /\ history' \in [Jobs -> Seq(Entries)] /\ HistoryOK(j)' /\ Len(history'[j]) = s
          /\ \A k \in Jobs \ {j} : history'[k] = history[k]
      BY <1>0, <1>2, <1>4, <2>1, RecordGood, Zenon
    <3>2. counted \in [Jobs -> Int]
      BY <1>4 DEF GridTypes
    <3>3. /\ counted' \in [Jobs -> Int] /\ \A k \in Jobs \ {j} : counted'[k] = counted[k]
          /\ counted'[j] = counted[j] + n
      BY <2>1, <3>2, <1>4
    <3> QED
      BY <1>5, <3>1, <3>3
  <2>2. CASE /\ current[j] = NoBuffer
             /\ history' = [history EXCEPT ![j] = Append(@, [stmt |-> s, ok |-> ~error[j], rows |-> 0])]
             /\ UNCHANGED counted
    <3>1. error[j] /\ j \in spilled
      BY <1>3, <1>4, <2>2 DEF NoBuffer
    <3>2. history' = [history EXCEPT ![j] = Append(@, [stmt |-> s, ok |-> FALSE, rows |-> 0])]
      <4>1. error[j] \in BOOLEAN
        BY <1>4, GridFacts
      <4>2. (~error[j]) = FALSE
        BY <3>1, <4>1
      <4> QED
        BY <2>2, <4>2, Zenon
    <3>3. /\ history' \in [Jobs -> Seq(Entries)] /\ HistoryOK(j)' /\ Len(history'[j]) = s
          /\ \A k \in Jobs \ {j} : history'[k] = history[k]
      BY <1>0, <1>4, <3>1, <3>2, RecordBad, Zenon
    <3> QED
      BY <1>4, <2>2, <3>1, <3>3 DEF GridTypes
  <2> QED
    BY <1>6, <2>1, <2>2
<1>8. GridTypes' /\ current'[j] = NoBuffer /\ \A k \in Jobs \ {j} : SameGrid(k)
  <2>1. NoBuffer \in -1 .. MaxRows
    BY <1>4 DEF NoBuffer
  <2> QED
    BY <1>0, <1>4, <1>7, <2>1 DEF GridTypes, SameGrid
<1>9. ChipOK(j)'
  BY <1>0, <1>3, ArmFacts, ChipGoesOn DEF Unfinished
<1>10. Heard(j, d)'
  <2>1. Complete(d) = s
    BY <1>2 DEF Complete
  <2> QED
    BY <1>0, <1>2, <1>3, <1>7, <1>8, <2>1, ArmFacts DEF Heard
<1> QED
  BY <1>0, <1>1, <1>2, <1>7, <1>8, <1>9, <1>10, ArmDone

(* A write is through: its count is added and recorded.                    *)
LEMMA OnWriteFinishedOK ==
    ASSUME IInv, NEW j \in Jobs, OnWriteFinished(j)
    PROVE  IInv'
<1>0. /\ Handle(j, "WriteFinished") /\ UNCHANGED <<status, error, current, spilled>>
  BY DEF OnWriteFinished
<1>1. PICK c, d, e : Hearing(j, c, e, d) /\ e.ev = "WriteFinished" /\ Leads(j, d)'
  BY <1>0, HearingIt
<1>2. PICK s \in 1 .. MaxStmts, n \in Nat :
          /\ c.phase = "exec" /\ c.stmt = s /\ e.stmt = s /\ e.rows = n /\ e = Head(chan[j])
          /\ truth[j][s] = Row("ok", n)
          /\ d.phase = "next" /\ d.stmt = s /\ d \in Cursors
  <2>1. /\ c \in Cursors /\ d \in Cursors /\ e = Head(chan[j]) /\ e \in Events /\ c.phase = "exec" /\ e.stmt = c.stmt
        /\ truth[j][e.stmt] = Row("ok", e.rows) /\ d = At("next", e.stmt, 0)
    BY <1>1 DEF Hearing, Hears, Row
  <2>2. d.phase = "next" /\ d.stmt = e.stmt
    BY <2>1 DEF At
  <2>3. c.stmt \in 0 .. MaxStmts /\ c.stmt > 0 /\ e.rows \in Nat
    BY <1>1, <2>1 DEF Cursors, Hearing, Known, Events
  <2>4. c.stmt \in 1 .. MaxStmts
    BY <1>0, <2>3, ArmFacts
  <2> QED
    BY <2>1, <2>2, <2>3, <2>4
<1>3. /\ Len(history[j]) = s - 1 /\ (error[j] => j \in spilled) /\ status[j] = "running"
      /\ ~error[j] => counted[j] = SumOf(truth[j])[s - 1]
      /\ current[j] = NoBuffer
  BY <1>1, <1>2 DEF Hearing, Heard, Complete
<1>4. /\ JobTypes /\ GridTypes /\ MaxStmts \in Nat /\ n \in Int /\ HistoryOK(j) /\ truth' = truth
      /\ s \in Nat /\ s <= MaxStmts /\ s = Len(history[j]) + 1 /\ 0 \in Int
  BY <1>0, <1>2, <1>3, ArmFacts
<1>5. ~error[j] => SumOf(truth[j])[s] = counted[j] + n
  BY <1>2, <1>3, <1>4, SumFacts DEF Row
<1>6. counted' = [counted EXCEPT ![j] = @ + n] /\ history' = [history EXCEPT ![j] = Append(@, [stmt |-> s, ok |-> TRUE, rows |-> n])]
  BY <1>2 DEF OnWriteFinished, Record
<1>7. /\ history' \in [Jobs -> Seq(Entries)] /\ HistoryOK(j)' /\ Len(history'[j]) = s
      /\ \A k \in Jobs \ {j} : history'[k] = history[k]
  BY <1>0, <1>2, <1>4, <1>6, RecordGood, Zenon
<1>8. /\ counted' \in [Jobs -> Int] /\ \A k \in Jobs \ {j} : counted'[k] = counted[k]
      /\ ~error[j] => counted'[j] = SumOf(truth[j])[s]
  <2>1. counted \in [Jobs -> Int]
    BY <1>4 DEF GridTypes
  <2>2. /\ counted' \in [Jobs -> Int] /\ \A k \in Jobs \ {j} : counted'[k] = counted[k]
        /\ counted'[j] = counted[j] + n
    BY <1>6, <2>1
  <2> QED
    BY <1>5, <2>2
<1>9. GridTypes' /\ \A k \in Jobs \ {j} : SameGrid(k)
  BY <1>0, <1>4, <1>7, <1>8 DEF GridTypes, SameGrid
<1>10. ChipOK(j)'
  BY <1>0, <1>3, ArmFacts, ChipGoesOn DEF Unfinished
<1>11. Heard(j, d)'
  <2>1. Complete(d) = s
    BY <1>2 DEF Complete
  <2> QED
    BY <1>0, <1>2, <1>3, <1>7, <1>8, <2>1, ArmFacts DEF Heard
<1> QED
  BY <1>0, <1>1, <1>2, <1>7, <1>9, <1>10, <1>11, ArmDone

(* A statement failed: it is recorded, as failed.                          *)
LEMMA OnStatementFailedOK ==
    ASSUME IInv, NEW j \in Jobs, OnStatementFailed(j)
    PROVE  IInv'
<1>0. /\ Handle(j, "StatementFailed") /\ current' = [current EXCEPT ![j] = NoBuffer]
      /\ UNCHANGED <<status, counted, spilled>>
  BY DEF OnStatementFailed
<1>1. PICK c, d, e : Hearing(j, c, e, d) /\ e.ev = "StatementFailed" /\ Leads(j, d)'
  BY <1>0, HearingIt
<1>2. PICK s \in 1 .. MaxStmts :
          /\ c.phase \in {"next", "stream", "exec"} /\ s = Complete(c) + 1 /\ e.stmt = s /\ e = Head(chan[j])
          /\ truth[j][s].state \in {"failed", "cancelled"}
          /\ e.code = "cancelled" <=> truth[j][s].state = "cancelled"
          /\ e.code = "cancelled" => j[1] \in fired
          /\ d.phase = "bad" /\ d \in Cursors
  <2>1. /\ c \in Cursors /\ d \in Cursors /\ e = Head(chan[j]) /\ e \in Events
        /\ c.phase \in {"next", "stream", "exec"} /\ e.stmt = Complete(c) + 1
        /\ truth[j][e.stmt].state \in {"failed", "cancelled", "refused"}
        /\ e.code = "cancelled" <=> truth[j][e.stmt].state = "cancelled"
        /\ e.code = "cancelled" => j[1] \in fired
        /\ d = At("bad", e.stmt, 0)
    BY <1>1 DEF Hearing, Hears
  <2>2. d.phase = "bad"
    BY <2>1 DEF At
  <2>3. e.stmt \in 0 .. MaxStmts /\ c.stmt \in 0 .. MaxStmts
    BY <2>1 DEF Cursors, Events
  <2>4. MaxStmts \in Nat
    BY <1>0, ArmFacts
  <2>5. Complete(c) \in Nat
    BY <1>1, <2>1, <2>3, <2>4 DEF Complete, Hearing, Known
  <2>6. e.stmt \in 1 .. MaxStmts
    BY <2>1, <2>3, <2>4, <2>5
  <2>7. truth[j][e.stmt].state # "refused"
    BY <1>0, <2>6, ArmFacts
  <2> QED
    BY <2>1, <2>2, <2>6, <2>7
<1>3. /\ Len(history[j]) = s - 1 /\ (error[j] => j \in spilled) /\ status[j] = "running"
  <2>1. /\ Len(history[j]) = Complete(c) /\ (error[j] => j \in spilled) /\ status[j] = "running"
    BY <1>1, <1>2 DEF Hearing, Heard
  <2>2. Complete(c) = s - 1
    <3>1. c.stmt \in Nat
      BY <1>0, <1>1, ArmFacts DEF Hearing, Cursors
    <3>2. Complete(c) \in Int
      BY <3>1 DEF Complete
    <3> QED
      BY <1>2, <3>2
  <2> QED
    BY <2>1, <2>2
<1>4. /\ JobTypes /\ GridTypes /\ MaxStmts \in Nat /\ MaxRows \in Nat /\ HistoryOK(j) /\ truth' = truth
      /\ s \in Nat /\ s <= MaxStmts /\ s = Len(history[j]) + 1 /\ 0 \in Int /\ error[j] \in BOOLEAN
  BY <1>0, <1>2, <1>3, ArmFacts, GridFacts
<1>5. history' = [history EXCEPT ![j] = Append(@, [stmt |-> s, ok |-> FALSE, rows |-> 0])]
  BY <1>2 DEF OnStatementFailed, Record
<1>6. /\ history' \in [Jobs -> Seq(Entries)] /\ HistoryOK(j)' /\ Len(history'[j]) = s
      /\ \A k \in Jobs \ {j} : history'[k] = history[k]
  BY <1>0, <1>2, <1>4, <1>5, RecordBad, Zenon
<1>7. PICK b \in BOOLEAN : error' = [error EXCEPT ![j] = b] /\ (b <=> error[j] \/ ~(j[1] \in fired /\ e.code = "cancelled"))
  <2>1. error' = [error EXCEPT ![j] = @ \/ ~(j[1] \in fired /\ e.code = "cancelled")]
    BY <1>2 DEF OnStatementFailed
  <2>2. error' = [error EXCEPT ![j] = error[j] \/ ~(j[1] \in fired /\ e.code = "cancelled")]
    BY <1>4, <2>1 DEF GridTypes
  <2>3. PICK b \in BOOLEAN : b = (error[j] \/ ~(j[1] \in fired /\ e.code = "cancelled"))
    BY Zenon
  <2> QED
    BY <2>2, <2>3
<1>8. error' \in [Jobs -> BOOLEAN] /\ error'[j] = b /\ \A k \in Jobs \ {j} : error'[k] = error[k]
  BY <1>4, <1>7 DEF GridTypes
<1>9. GridTypes' /\ current'[j] = NoBuffer /\ \A k \in Jobs \ {j} : SameGrid(k)
  <2>1. NoBuffer \in -1 .. MaxRows
    BY <1>4 DEF NoBuffer
  <2> QED
    BY <1>0, <1>4, <1>6, <1>8, <2>1 DEF GridTypes, SameGrid
<1>10. ChipOK(j)'
  <2>1. error'[j] => j \in spilled \/ SomeFailed(j)
    <3>1. CASE error[j]
      BY <1>3, <3>1
    <3>2. CASE ~error[j] /\ b
      <4>1. truth[j][s].state = "failed"
        BY <1>2, <1>7, <3>2
      <4> QED
        BY <4>1 DEF SomeFailed
    <3> QED
      BY <1>8, <3>1, <3>2
  <2>2. SomeFailed(j) => SomeFailed(j)'
    BY <1>4 DEF SomeFailed
  <2>3. loop'[j[1]] = "recv"
    BY <1>0, ArmFacts
  <2> QED
    BY <1>0, <1>3, <2>1, <2>2, <2>3, ChipGoesOn DEF Unfinished
<1>11. Heard(j, d)'
  <2>1. j[1] \in fired' \/ error'[j]
    BY <1>0, <1>7, <1>8, ArmFacts
  <2> QED
    BY <1>0, <1>2, <1>3, <1>9, <2>1 DEF Heard
<1> QED
  BY <1>0, <1>1, <1>2, <1>6, <1>9, <1>10, <1>11, ArmDone

(* The last event of a target: the verdict on its chip. A chip that says   *)
(* done has heard of every statement.                                      *)
LEMMA OnFinishedOK ==
    ASSUME IInv, NEW j \in Jobs, OnFinished(j)
    PROVE  IInv'
<1>0. /\ Handle(j, "Finished") /\ status' = [status EXCEPT ![j] = Verdict(j, Head(chan[j]).code)]
      /\ error' = [error EXCEPT ![j] = @ \/ status'[j] = "failed"]
      /\ UNCHANGED <<current, counted, spilled, history>>
  BY DEF OnFinished
<1>1. PICK c, d, e : Hearing(j, c, e, d) /\ e.ev = "Finished" /\ Leads(j, d)'
  BY <1>0, HearingIt
<1>2. /\ JobTypes /\ GridTypes /\ JobOK(j) /\ HistoryOK(j) /\ ChipOK(j)
      /\ loop' = loop /\ loop[j[1]] = "recv" /\ truth' = truth /\ text' = text /\ fired' = fired /\ task' = task
      /\ \A s \in 1 .. MaxStmts : truth[j][s].state # "refused"
      /\ MaxStmts \in Nat /\ MaxRows \in Nat
      /\ error[j] => j \in spilled \/ SomeFailed(j)
  BY <1>0, ArmFacts
<1>3. /\ c \in Cursors /\ Known(j, c) /\ Heard(j, c) /\ d \in Cursors /\ d.phase = "done" /\ e = Head(chan[j])
      /\ \/ e.code = "Ok" /\ c.phase = "good" /\ c.stmt = Len(text[j[1]])
         \/ /\ e.code = "Failed" /\ c.phase \in {"next", "stream", "exec", "bad"}
            /\ \/ j[1] \in fired
               \/ \E s \in 1 .. MaxStmts : truth[j][s].state \in {"failed", "refused"}
         \/ e.code = "Cancelled" /\ c.phase = "pending" /\ j[1] \in fired
  BY <1>1 DEF Hearing, Hears, At
<1>4. task[j].at = "done"
  <2>1. JobTypes'
    <3>1. chan \in [Jobs -> Seq(Events)] /\ chan[j] # <<>> /\ chan' = [chan EXCEPT ![j] = Tail(@)]
      BY <1>0, <1>2 DEF JobTypes, Handle, Ready, Continue
    <3>2. chan' \in [Jobs -> Seq(Events)]
      BY <3>1
    <3> QED
      BY <1>2, <3>2 DEF JobTypes
  <2>2. task[j].at # "none"
    BY <1>0, <1>2 DEF JobOK, Untouched, Handle, Ready
  <2>3. d.phase = "done" /\ task'[j].at # "none"
    BY <1>2, <1>3, <2>2
  <2>4. (JobTypes /\ Leads(j, d))'
    BY <1>1, <2>1
  <2>5. task'[j].at = "done"
    BY <2>3, <2>4, NothingWillFollow
  <2> QED
    BY <1>2, <2>5
<1>5. /\ Verdict(j, e.code) \in {"done", "failed", "cancelled"}
      /\ Verdict(j, e.code) = "done" => e.code = "Ok" /\ ~error[j]
      /\ Verdict(j, e.code) = "failed" => error[j] \/ (e.code = "Failed" /\ j[1] \notin fired)
      /\ Verdict(j, e.code) = "cancelled" => j[1] \in fired
  BY <1>3 DEF Verdict
<1>6. PICK v \in {"done", "failed", "cancelled"} : v = Verdict(j, e.code)
  BY <1>5
<1>7. v = "failed" => j \in spilled \/ SomeFailed(j)
  BY <1>2, <1>3, <1>5, <1>6 DEF SomeFailed
<1>8. /\ status' \in [Jobs -> Chips] /\ status'[j] = v /\ \A k \in Jobs \ {j} : status'[k] = status[k]
  <2>1. v \in Chips /\ status \in [Jobs -> Chips]
    BY <1>2, <1>6 DEF Chips, GridTypes
  <2>2. status' = [status EXCEPT ![j] = v]
    BY <1>0, <1>3, <1>6
  <2> QED
    BY <2>1, <2>2
<1>9. PICK b \in BOOLEAN : error' = [error EXCEPT ![j] = b] /\ (b <=> error[j] \/ v = "failed")
  <2>1. error' = [error EXCEPT ![j] = error[j] \/ status'[j] = "failed"]
    BY <1>0, <1>2 DEF GridTypes
  <2>2. PICK b \in BOOLEAN : b = (error[j] \/ status'[j] = "failed")
    BY Zenon
  <2>3. b <=> error[j] \/ v = "failed"
    BY <1>8, <2>2
  <2> QED
    BY <2>1, <2>2, <2>3
<1>10. error' \in [Jobs -> BOOLEAN] /\ error'[j] = b /\ \A k \in Jobs \ {j} : error'[k] = error[k]
  BY <1>2, <1>9 DEF GridTypes
<1>11. GridTypes' /\ \A k \in Jobs \ {j} : SameGrid(k)
  BY <1>0, <1>2, <1>8, <1>10 DEF GridTypes, SameGrid
<1>12. HistoryOK(j)'
  BY <1>0, <1>2, SameHistory
<1>13. v = "done" => /\ AllOk(j) /\ counted[j] = RowsThere(j) /\ Len(history[j]) = Len(text[j[1]])
  <2> SUFFICES ASSUME v = "done"
               PROVE  /\ AllOk(j) /\ counted[j] = RowsThere(j) /\ Len(history[j]) = Len(text[j[1]])
    OBVIOUS
  <2>1. c.phase = "good" /\ c.stmt = Len(text[j[1]]) /\ ~error[j] /\ Complete(c) = c.stmt
    BY <1>3, <1>5, <1>6 DEF Complete
  <2>2. PICK n \in 0 .. MaxStmts : n = Len(text[j[1]]) /\ DOMAIN text[j[1]] = 1 .. n
    <3>1. text[j[1]] \in Texts \cup {<<>>}
      BY <1>2, JobFacts
    <3> QED
      BY <3>1, TextTypes
  <2>3. AllOk(j) /\ RowsThere(j) = SumOf(truth[j])[n]
    BY <1>2, <1>3, <2>1, <2>2, TextIsThrough DEF JobOK
  <2>4. Len(history[j]) = n /\ counted[j] = SumOf(truth[j])[n]
    BY <1>3, <2>1, <2>2 DEF Heard
  <2> QED
    BY <2>2, <2>3, <2>4
<1>14. ChipOK(j)'
  <2>1. error'[j] => j \in spilled \/ SomeFailed(j)
    BY <1>2, <1>7, <1>9, <1>10
  <2>2. SomeFailed(j) => SomeFailed(j)'
    BY <1>2 DEF SomeFailed
  <2>3. v = "done" => AllOk(j)' /\ counted'[j] = RowsThere(j)' /\ Len(history'[j]) = Len(text'[j[1]])
    <3>1. AllOk(j) => AllOk(j)'
      BY <1>2 DEF AllOk
    <3>2. RowsThere(j)' = RowsThere(j)
      BY <1>2 DEF RowsThere
    <3> QED
      BY <1>0, <1>2, <1>13, <3>1, <3>2
  <2>4. v = "failed" => error'[j]
    BY <1>9, <1>10
  <2>5. v = "cancelled" => j[1] \in fired'
    BY <1>2, <1>5, <1>6
  <2>6. task'[j].at = "done" /\ loop'[j[1]] = "recv" /\ spilled' = spilled /\ v \notin Unfinished
    BY <1>0, <1>2, <1>4, <1>6 DEF Unfinished
  <2> QED
    BY <1>8, <2>1, <2>2, <2>3, <2>4, <2>5, <2>6 DEF ChipOK
<1>15. Heard(j, d)'
  BY <1>3, <1>6, <1>8 DEF Heard
<1> QED
  BY <1>0, <1>1, <1>3, <1>11, <1>12, <1>14, <1>15, ArmDone

(* The loop of run r ends, whichever way.                                  *)
LEMMA LeaveOK ==
    ASSUME IInv, NEW r \in Runs, loop[r] = "recv", Leave(r), Tidy(r),
           fired \subseteq fired', fired' \subseteq Runs,
           UNCHANGED <<text, guard, task, truth, editorOpen, generation, results,
                       gate, error, counted, spilled, history>>
    PROVE  IInv'
<1>1. JobTypes /\ GridTypes /\ TabOK /\ \A k \in Jobs : JobOK(k)
  BY DEF IInv
<1>2. /\ loop' \in [Runs -> {"none", "recv", "done"}] /\ loop'[r] = "done"
      /\ \A q \in Runs : q # r => loop'[q] = loop[q]
  BY <1>1 DEF JobTypes, Leave
<1>3. /\ \A k \in Jobs : chan'[k] = IF k[1] = r THEN <<>> ELSE chan[k]
      /\ chan' \in [Jobs -> Seq(Events)]
  <2>1. chan' = [k \in Jobs |-> IF k[1] = r THEN <<>> ELSE chan[k]]
    BY DEF Leave
  <2>2. <<>> \in Seq(Events)
    OBVIOUS
  <2> QED
    BY <1>1, <2>1, <2>2 DEF JobTypes
<1>4. JobTypes'
  BY <1>1, <1>2, <1>3 DEF JobTypes
<1>5. /\ \A k \in Jobs : status'[k] = IF k[1] = r /\ status[k] \in Unfinished THEN "cancelled" ELSE status[k]
      /\ \A k \in Jobs : current'[k] = IF k[1] = r THEN NoBuffer ELSE current[k]
      /\ status' \in [Jobs -> Chips] /\ current' \in [Jobs -> -1 .. MaxRows]
  <2>1. "cancelled" \in Chips /\ NoBuffer \in -1 .. MaxRows
    BY StatementsAssumption DEF Chips, NoBuffer
  <2> QED
    BY <1>1, <2>1 DEF Tidy, GridTypes
<1>6. GridTypes'
  BY <1>1, <1>5 DEF GridTypes
<1>7. TabOK'
  <2>1. /\ editorOpen' \in BOOLEAN
        /\ generation' \in 0 .. MaxRuns
        /\ results' \subseteq 1 .. generation'
        /\ guard' = {}
        /\ gate' \in {NoGate} \cup [text : Texts, targets : Targets]
    BY <1>1 DEF TabOK
  <2>2. cancel' = IF editorOpen /\ generation = r THEN NoRun ELSE cancel
    BY DEF Tidy
  <2>3. ~editorOpen' => cancel' = NoRun
    BY <1>1, <2>2 DEF TabOK
  <2>4. r # NoRun /\ r \in Int
    BY StatementsAssumption DEF Runs, NoRun
  <2>5. cancel' # NoRun => cancel' = generation' /\ loop'[cancel'] = "recv"
    <3> SUFFICES ASSUME cancel' # NoRun PROVE cancel' = generation' /\ loop'[cancel'] = "recv"
      OBVIOUS
    <3>1. editorOpen /\ generation # r /\ cancel' = cancel
      BY <1>1, <2>2 DEF TabOK
    <3>2. cancel = generation /\ loop[cancel] = "recv"
      BY <1>1, <3>1 DEF TabOK
    <3>3. cancel \in Runs
      BY <1>1, <3>1, <3>2, StatementsAssumption DEF TabOK, Runs, NoRun
    <3> QED
      BY <1>2, <3>1, <3>2, <3>3
  <2>6. \A q \in Runs : loop'[q] = "none" <=> q > generation'
    <3> SUFFICES ASSUME NEW q \in Runs PROVE loop'[q] = "none" <=> q > generation'
      OBVIOUS
    <3>1. loop'[q] = "none" <=> loop[q] = "none"
      BY <1>2
    <3> QED
      BY <1>1, <3>1 DEF TabOK
  <2>7. \A q \in Runs : (loop'[q] = "recv" /\ editorOpen') => cancel' = q \/ q \in fired'
    <3> SUFFICES ASSUME NEW q \in Runs, loop'[q] = "recv", editorOpen' PROVE cancel' = q \/ q \in fired'
      OBVIOUS
    <3>1. q # r /\ loop[q] = "recv" /\ editorOpen
      BY <1>2
    <3>2. cancel = q \/ q \in fired
      BY <1>1, <3>1 DEF TabOK
    <3>3. CASE q \in fired
      BY <3>3
    <3>4. CASE cancel = q
      <4>1. q # NoRun
        BY StatementsAssumption DEF Runs, NoRun
      <4>2. cancel = generation
        BY <1>1, <3>4, <4>1 DEF TabOK
      <4> QED
        BY <2>2, <3>1, <3>4, <4>2
    <3> QED
      BY <3>2, <3>3, <3>4
  <2> QED
    BY <2>1, <2>3, <2>5, <2>6, <2>7 DEF TabOK
<1>8. ASSUME NEW k \in Jobs, k[1] # r PROVE JobOK(k)'
  <2>1. k[1] \in Runs
    BY <1>1, JobFacts
  <2>2. SameGrid(k)
    BY <1>5, <1>8 DEF SameGrid
  <2>3. Still(k)
    BY <1>2, <1>3, <1>8, <2>1, <2>2 DEF Still
  <2> QED
    BY <1>1, <2>3, StillOK
<1>9. ASSUME NEW k \in Jobs, k[1] = r PROVE JobOK(k)'
  <2>1. JobOK(k) /\ chan'[k] = <<>> /\ loop'[k[1]] = "done" /\ loop[k[1]] = "recv"
    BY <1>1, <1>2, <1>3, <1>9
  <2>2. TaskOK(k)'
    BY <2>1 DEF JobOK, TaskOK
  <2>3. HistoryOK(k)'
    BY <2>1 DEF JobOK, HistoryOK
  <2>4. status'[k] \notin Unfinished /\ status'[k] \in {status[k], "cancelled"}
    BY <1>5, <1>9 DEF Unfinished
  <2>5. ChipOK(k)'
    <3>1. ChipOK(k)
      BY <2>1 DEF JobOK
    <3>2. SomeFailed(k)' <=> SomeFailed(k)
      BY DEF SomeFailed
    <3>3. RowsThere(k)' = RowsThere(k) /\ (AllOk(k)' <=> AllOk(k))
      BY DEF RowsThere, AllOk
    <3> QED
      BY <2>1, <2>4, <3>1, <3>2, <3>3 DEF ChipOK
  <2>6. Untouched(k) => Untouched(k)'
    BY <1>3, <1>5, <1>9 DEF Untouched, Unfinished
  <2>7. ChanCap \in Nat /\ Len(<<>>) = 0
    BY StatementsAssumption
  <2> QED
    BY <2>1, <2>2, <2>3, <2>5, <2>6, <2>7 DEF JobOK
<1> QED
  BY <1>4, <1>6, <1>7, <1>8, <1>9 DEF IInv

(* The tab of the result is gone: the loop ends, and every target with it. *)
LEMMA GoneOK ==
    ASSUME IInv, NEW j \in Jobs, Gone(j)
    PROVE  IInv'
<1>1. j[1] \in Runs /\ fired \subseteq Runs
  BY JobFacts DEF IInv, JobTypes
<1>2. loop[j[1]] = "recv" /\ Leave(j[1]) /\ Tidy(j[1]) /\ fired' \subseteq fired \cup {j[1]} /\ fired \subseteq fired'
  BY DEF Gone
<1>3. UNCHANGED <<text, guard, task, truth, editorOpen, generation, results,
                  gate, error, counted, spilled, history>>
  BY DEF Gone
<1>4. fired' \subseteq Runs
  BY <1>1, <1>2
<1> QED
  BY <1>1, <1>2, <1>3, <1>4, LeaveOK

(* The channel is closed: every target has ended.                          *)
LEMMA ChannelClosedOK ==
    ASSUME IInv, NEW r \in Runs, ChannelClosed(r)
    PROVE  IInv'
<1>1. fired \subseteq Runs
  BY DEF IInv, JobTypes
<1>2. /\ loop[r] = "recv" /\ Leave(r) /\ Tidy(r) /\ fired' = fired
      /\ UNCHANGED <<text, guard, task, truth, editorOpen, generation, results,
                     gate, error, counted, spilled, history>>
  BY DEF ChannelClosed
<1> QED
  BY <1>1, <1>2, LeaveOK

(* The user cancels, closes a result or the tab: the jobs notice nothing   *)
(* but the token.                                                          *)
LEMMA TabMoves ==
    ASSUME IInv, TabOK', fired \subseteq fired', fired' \subseteq Runs, generation' = generation,
           UNCHANGED <<text, guard, task, chan, loop, truth, grid, history>>
    PROVE  IInv'
<1>1. JobTypes /\ GridTypes /\ \A k \in Jobs : JobOK(k)
  BY DEF IInv
<1>2. JobTypes' /\ GridTypes'
  BY <1>1 DEF JobTypes, GridTypes, grid
<1>3. \A k \in Jobs : Still(k)
  BY DEF Still, SameGrid, grid
<1>4. \A k \in Jobs : JobOK(k)'
  BY <1>1, <1>3, StillOK
<1> QED
  BY <1>2, <1>4 DEF IInv

(* What is known of the token in the slot.                                 *)
LEMMA TabFacts ==
    ASSUME TabOK
    PROVE  /\ cancel \in 0 .. generation /\ generation \in Nat /\ MaxRuns \in Nat
           /\ cancel # NoRun => cancel \in Runs
<1>1. MaxRuns \in Nat
  BY StatementsAssumption
<1> QED
  BY <1>1 DEF TabOK, Runs, NoRun

(* The gate in front of a write is dismissed.                              *)
LEMMA DismissGateOK ==
    ASSUME IInv, DismissGate
    PROVE  IInv'
<1>1. TabOK /\ fired \subseteq Runs
  BY DEF IInv, JobTypes
<1>2. gate' = NoGate /\ UNCHANGED <<jobVars, editor, grid, history>>
  BY DEF DismissGate
<1>3. TabOK'
  BY <1>1, <1>2 DEF TabOK, jobVars, editor
<1> QED
  BY <1>1, <1>2, <1>3, TabMoves DEF jobVars, editor

(* Esc: the token in the slot is fired.                                    *)
LEMMA OnCancelOK ==
    ASSUME IInv, OnCancel
    PROVE  IInv'
<1>1. TabOK /\ fired \subseteq Runs
  BY DEF IInv, JobTypes
<1>2. /\ cancel # NoRun /\ cancel' = NoRun /\ fired' = fired \cup ({cancel} \ {NoRun})
      /\ UNCHANGED <<text, guard, task, chan, loop, truth, editorOpen, generation, results, gate, grid, history>>
  BY DEF OnCancel, TakeToken, Busy
<1>3. fired \subseteq fired' /\ fired' \subseteq Runs
  BY <1>1, <1>2, TabFacts
<1>4. TabOK'
  BY <1>1, <1>2 DEF TabOK
<1> QED
  BY <1>2, <1>3, <1>4, TabMoves

(* A result tab is closed.                                                 *)
LEMMA CloseResultOK ==
    ASSUME IInv, NEW r \in Runs, CloseResult(r)
    PROVE  IInv'
<1>1. TabOK /\ fired \subseteq Runs
  BY DEF IInv, JobTypes
<1>2. /\ results' = results \ {r}
      /\ \/ cancel # NoRun /\ cancel' = NoRun /\ fired' = fired \cup ({cancel} \ {NoRun})
         \/ cancel' = cancel /\ fired' = fired
      /\ UNCHANGED <<text, guard, task, chan, loop, truth, editorOpen, generation, gate, grid, history>>
  BY DEF CloseResult, TakeToken, Busy
<1>3. fired \subseteq fired' /\ fired' \subseteq Runs
  BY <1>1, <1>2, TabFacts
<1>4. TabOK'
  BY <1>1, <1>2 DEF TabOK
<1> QED
  BY <1>2, <1>3, <1>4, TabMoves

(* The editor tab is closed.                                               *)
LEMMA CloseEditorOK ==
    ASSUME IInv, CloseEditor
    PROVE  IInv'
<1>1. TabOK /\ fired \subseteq Runs
  BY DEF IInv, JobTypes
<1>2. /\ results' = {} /\ editorOpen' = FALSE /\ cancel' = NoRun
      /\ \/ fired' = fired \cup ({cancel} \ {NoRun})
         \/ fired' = fired
      /\ UNCHANGED <<text, guard, task, chan, loop, truth, generation, gate, grid, history>>
  BY DEF CloseEditor
<1>3. fired \subseteq fired' /\ fired' \subseteq Runs
  BY <1>1, <1>2, TabFacts
<1>4. TabOK'
  BY <1>1, <1>2 DEF TabOK
<1> QED
  BY <1>2, <1>3, <1>4, TabMoves

(* A target of a new run waits for its slot.                               *)
LEMMA TargetStarts ==
    ASSUME NEW j \in Jobs, Untouched(j), TaskOK(j), task[j].at = "none",
           \A s \in 1 .. MaxStmts : truth[j][s].state # "refused",
           task'[j] = [Idle EXCEPT !.at = "pending"], chan' = chan, truth' = truth, text'[j[1]] \in Texts,
           status'[j] = "pending", error' = error, current' = current, counted' = counted, spilled' = spilled,
           history' = history, ~(j[1] > generation'), loop'[j[1]] = "recv"
    PROVE  JobOK(j)'
<1>1. task'[j].at = "pending" /\ task'[j].stmt = 0
  BY DEF Idle
<1>2. PICK sql \in Texts : sql = text'[j[1]]
  OBVIOUS
<1>3. Len(sql) \in Nat
  <2>1. Len(sql) \in 0 .. MaxStmts
    BY TextTypes
  <2> QED
    BY <2>1
<1>4. \A s \in 1 .. MaxStmts : truth[j][s] = Unknown
  <2>1. task[j].stmt = 0
    BY DEF TaskOK
  <2>2. \A s \in 1 .. MaxStmts : s > task[j].stmt
    BY <2>1
  <2> QED
    BY <2>2 DEF TaskOK
<1>5. TaskOK(j)'
  <2>1. 0 <= Len(sql)
    BY <1>3
  <2>2. \A s \in 1 .. MaxStmts : ~(s < 0) /\ s # 0
    OBVIOUS
  <2> QED
    BY <1>1, <1>2, <1>4, <2>1, <2>2 DEF TaskOK, InStatement
<1>6. PICK c \in Cursors : c = At("pending", 0, 0) /\ c.phase = "pending" /\ c.stmt = 0
  <2>1. 0 \in 0 .. MaxStmts /\ 0 \in 0 .. MaxRows
    BY StatementsAssumption
  <2> QED
    BY <2>1, AtType DEF Phases
<1>7. /\ chan'[j] = <<>> /\ ~error'[j] /\ current'[j] = NoBuffer /\ counted'[j] = 0 /\ j \notin spilled'
      /\ history'[j] = <<>>
  BY DEF Untouched
<1>8. Leads(j, c)'
  <2>1. \A s \in 1 .. MaxStmts : ~(s <= 0)
    OBVIOUS
  <2>2. Known(j, c)' /\ Stands(j, c)'
    BY <1>1, <1>6, <2>1 DEF Known, Stands, Complete
  <2> QED
    BY <1>6, <1>7, <2>2, LineBegins
<1>9. Heard(j, c)'
  <2>1. SumOf(truth'[j])[0] = 0
    BY NoneCounted
  <2>2. Len(<<>>) = 0 /\ Complete(c) = 0
    BY <1>6 DEF Complete
  <2> QED
    BY <1>6, <1>7, <2>1, <2>2 DEF Heard
<1>10. HistoryOK(j)' /\ ChipOK(j)'
  <2>1. 1 .. Len(<<>>) = {}
    OBVIOUS
  <2>2. HistoryOK(j)'
    BY <1>7, <2>1 DEF HistoryOK
  <2> QED
    BY <1>7, <2>2 DEF ChipOK
<1>11. ChanCap \in Nat /\ Len(<<>>) = 0
  BY StatementsAssumption
<1> QED
  BY <1>1, <1>5, <1>6, <1>7, <1>8, <1>9, <1>10, <1>11 DEF JobOK

(* A target that a new run does not have.                                  *)
LEMMA TargetStays ==
    ASSUME NEW j \in Jobs, Untouched(j), TaskOK(j), task[j].at = "none",
           \A s \in 1 .. MaxStmts : truth[j][s].state # "refused",
           task'[j] = task[j], chan' = chan, truth' = truth, text'[j[1]] \in Texts,
           status'[j] = status[j], error' = error, current' = current, counted' = counted, spilled' = spilled,
           history' = history
    PROVE  JobOK(j)'
<1>1. PICK sql \in Texts : sql = text'[j[1]]
  OBVIOUS
<1>2. Len(sql) \in Nat
  <2>1. Len(sql) \in 0 .. MaxStmts
    BY TextTypes
  <2> QED
    BY <2>1
<1>3. task[j].stmt = 0
  BY DEF TaskOK
<1>4. TaskOK(j)'
  <2>1. 0 <= Len(sql)
    BY <1>2
  <2> QED
    BY <1>1, <1>3, <2>1 DEF TaskOK, InStatement
<1>5. Untouched(j)'
  BY DEF Untouched
<1>6. HistoryOK(j)' /\ ChipOK(j)'
  <2>1. 1 .. Len(<<>>) = {}
    OBVIOUS
  <2> QED
    BY <1>5, <2>1 DEF HistoryOK, ChipOK, Untouched, Unfinished
<1>7. ChanCap \in Nat /\ Len(<<>>) = 0 /\ chan'[j] = <<>>
  BY StatementsAssumption DEF Untouched
<1> QED
  BY <1>4, <1>5, <1>6, <1>7 DEF JobOK

(* A run is dispatched: its connections refuse nothing.                    *)
LEMMA DispatchOK ==
    ASSUME IInv, NEW sql \in Texts, NEW n \in Targets, NEW readOnly,
           editorOpen, cancel = NoRun, Dispatch(sql, n, readOnly),
           Writes(sql) => (1 .. n) \cap readOnly = {},
           gate' \in {gate, NoGate},
           UNCHANGED <<editorOpen, error, current, counted, spilled, history>>
    PROVE  IInv'
<1>1. JobTypes /\ GridTypes /\ TabOK /\ \A k \in Jobs : JobOK(k)
  BY DEF IInv
<1>2. PICK r : r = generation + 1
  OBVIOUS
<1>3. PICK mine : mine = {r} \X (1 .. n)
  OBVIOUS
<1>4. /\ generation < MaxRuns
      /\ text' = [text EXCEPT ![r] = sql]
      /\ guard' = guard \cup {j \in mine : Writes(sql) /\ j[2] \in readOnly}
      /\ task' = [j \in Jobs |-> IF j \in mine THEN [Idle EXCEPT !.at = "pending"] ELSE task[j]]
      /\ status' = [j \in Jobs |-> IF j \in mine THEN "pending" ELSE status[j]]
      /\ loop' = [loop EXCEPT ![r] = "recv"]
      /\ cancel' = r
      /\ generation' = r
      /\ results' = results \cup {r}
      /\ UNCHANGED <<chan, fired, truth>>
  BY <1>2, <1>3 DEF Dispatch, WithinBounds
<1>5. /\ r \in Runs /\ r \in Nat /\ r > generation /\ r # NoRun /\ generation \in Nat /\ r \in 0 .. MaxRuns
      /\ MaxRuns \in Nat
  <2>1. MaxRuns \in Nat /\ generation \in 0 .. MaxRuns
    BY <1>1, StatementsAssumption DEF TabOK
  <2> QED
    BY <1>2, <1>4, <2>1 DEF Runs, NoRun
<1>6. mine \subseteq Jobs /\ \A j \in mine : j[1] = r /\ j[2] \in 1 .. n
  <2>1. 1 .. n \subseteq Targets
    BY StatementsAssumption DEF Targets
  <2> QED
    BY <1>3, <1>5, <2>1 DEF Jobs
<1>7. guard' = {}
  BY <1>1, <1>4, <1>6 DEF TabOK
<1>8. /\ text' \in [Runs -> Texts \cup {<<>>}] /\ text'[r] = sql
      /\ \A q \in Runs : q # r => text'[q] = text[q]
      /\ loop' \in [Runs -> {"none", "recv", "done"}] /\ loop'[r] = "recv"
      /\ \A q \in Runs : q # r => loop'[q] = loop[q]
  BY <1>1, <1>4, <1>5 DEF JobTypes
<1>9. /\ task' \in [Jobs -> [at : Places, stmt : 0 .. MaxStmts]]
      /\ \A j \in mine : task'[j] = [Idle EXCEPT !.at = "pending"]
      /\ \A j \in Jobs \ mine : task'[j] = task[j]
  <2>1. [Idle EXCEPT !.at = "pending"] \in [at : Places, stmt : 0 .. MaxStmts]
    <3>1. 0 \in 0 .. MaxStmts
      BY StatementsAssumption
    <3> QED
      BY <3>1 DEF Idle, Places
  <2>2. task \in [Jobs -> [at : Places, stmt : 0 .. MaxStmts]]
    BY <1>1 DEF JobTypes
  <2> QED
    BY <1>4, <1>6, <2>1, <2>2
<1>10. JobTypes'
  BY <1>1, <1>4, <1>8, <1>9 DEF JobTypes
<1>11. /\ status' \in [Jobs -> Chips]
       /\ \A j \in mine : status'[j] = "pending"
       /\ \A j \in Jobs \ mine : status'[j] = status[j]
  BY <1>1, <1>4, <1>6 DEF GridTypes, Chips, Unfinished
<1>12. GridTypes'
  BY <1>1, <1>11 DEF GridTypes
<1>13. TabOK'
  <2>1. gate' \in {NoGate} \cup [text : Texts, targets : Targets]
    BY <1>1 DEF TabOK
  <2>2. results' \subseteq 1 .. generation'
    BY <1>1, <1>2, <1>4, <1>5 DEF TabOK
  <2>3. \A q \in Runs : loop'[q] = "none" <=> q > generation'
    <3> SUFFICES ASSUME NEW q \in Runs PROVE loop'[q] = "none" <=> q > r
      BY <1>4
    <3>1. CASE q = r
      BY <1>5, <1>8, <3>1
    <3>2. CASE q # r
      <4>1. q > generation <=> q > r
        BY <1>2, <1>5, <3>2 DEF Runs
      <4> QED
        BY <1>1, <1>8, <3>2, <4>1 DEF TabOK
    <3> QED
      BY <3>1, <3>2
  <2>4. \A q \in Runs : (loop'[q] = "recv" /\ editorOpen') => cancel' = q \/ q \in fired'
    <3> SUFFICES ASSUME NEW q \in Runs, loop'[q] = "recv", q # r PROVE q \in fired
      BY <1>4
    <3>1. loop[q] = "recv" /\ q # NoRun
      BY <1>8, StatementsAssumption DEF Runs, NoRun
    <3> QED
      BY <1>1, <3>1 DEF TabOK
  <2> QED
    BY <1>1, <1>4, <1>5, <1>7, <1>8, <2>1, <2>2, <2>3, <2>4 DEF TabOK
<1>14. ASSUME NEW j \in Jobs, j[1] = r PROVE JobOK(j)'
  <2>1. task[j].at = "none" /\ Untouched(j) /\ TaskOK(j) /\ \A s \in 1 .. MaxStmts : truth[j][s].state # "refused"
    BY <1>1, <1>5, <1>14 DEF JobOK
  <2>2. text'[j[1]] \in Texts /\ loop'[j[1]] = "recv" /\ ~(j[1] > generation')
    BY <1>4, <1>5, <1>8, <1>14
  <2>3. CASE j \in mine
    BY <1>4, <1>9, <1>11, <2>1, <2>2, <2>3, TargetStarts
  <2>4. CASE j \notin mine
    BY <1>4, <1>9, <1>11, <2>1, <2>2, <2>4, TargetStays
  <2> QED
    BY <2>3, <2>4
<1>15. ASSUME NEW j \in Jobs, j[1] # r PROVE JobOK(j)'
  <2>1. j \notin mine /\ j[1] \in Runs /\ j[1] \in Int
    BY <1>1, <1>6, <1>15, JobFacts DEF Runs
  <2>2. j[1] > generation' => j[1] > generation
    BY <1>4, <1>5, <2>1
  <2>3. Still(j)
    BY <1>4, <1>8, <1>9, <1>11, <1>15, <2>1, <2>2 DEF Still, SameGrid
  <2> QED
    BY <1>1, <2>3, StillOK
<1> QED
  BY <1>10, <1>12, <1>13, <1>14, <1>15 DEF IInv

(* A text is run, or asked about first.                                    *)
LEMMA RunOnTargetsOK ==
    ASSUME IInv, RunOnTargets
    PROVE  IInv'
<1>1. TabOK /\ fired \subseteq Runs
  BY DEF IInv, JobTypes
<1>2. /\ editorOpen /\ cancel = NoRun
      /\ UNCHANGED <<editorOpen, error, current, counted, spilled, history>>
  BY DEF RunOnTargets, Busy
<1>3. PICK sql \in Texts, n \in Targets :
         IF Writes(sql)
         THEN /\ WithinBounds(sql, n)
              /\ gate' = [text |-> sql, targets |-> n]
              /\ UNCHANGED <<jobVars, cancel, generation, results, status>>
         ELSE Dispatch(sql, n, {}) /\ UNCHANGED gate
  BY DEF RunOnTargets
<1>4. CASE Writes(sql)
  <2>1. gate' = [text |-> sql, targets |-> n] /\ UNCHANGED <<jobVars, cancel, generation, results, status>>
    BY <1>3, <1>4
  <2>2. TabOK'
    BY <1>1, <1>2, <2>1 DEF TabOK, jobVars
  <2> QED
    BY <1>1, <1>2, <2>1, <2>2, TabMoves DEF jobVars, grid
<1>5. CASE ~Writes(sql)
  <2>1. Dispatch(sql, n, {}) /\ gate' = gate
    BY <1>3, <1>5
  <2> QED
    BY <1>2, <1>5, <2>1, DispatchOK
<1> QED
  BY <1>4, <1>5

(* The gate is confirmed.                                                  *)
LEMMA ConfirmWriteOK ==
    ASSUME IInv, ConfirmWrite
    PROVE  IInv'
<1>1. TabOK /\ fired \subseteq Runs
  BY DEF IInv, JobTypes
<1>2. /\ gate # NoGate /\ gate' = NoGate
      /\ UNCHANGED <<editorOpen, error, current, counted, spilled, history>>
  BY DEF ConfirmWrite
<1>3. PICK readOnly \in SUBSET (1 .. gate.targets) :
         IF editorOpen /\ ~Busy /\ Preflight(gate.text, gate.targets, readOnly)
         THEN Dispatch(gate.text, gate.targets, readOnly)
         ELSE UNCHANGED <<jobVars, cancel, generation, results, status>>
  BY DEF ConfirmWrite
<1>4. gate.text \in Texts /\ gate.targets \in Targets
  BY <1>1, <1>2 DEF TabOK
<1>5. CASE editorOpen /\ ~Busy /\ Preflight(gate.text, gate.targets, readOnly)
  <2>1. Dispatch(gate.text, gate.targets, readOnly)
    BY <1>3, <1>5
  <2>2. cancel = NoRun /\ (Writes(gate.text) => (1 .. gate.targets) \cap readOnly = {})
    BY <1>5 DEF Busy, Preflight
  <2>3. PICK sql \in Texts, n \in Targets : sql = gate.text /\ n = gate.targets
    BY <1>4
  <2>4. Dispatch(sql, n, readOnly) /\ (Writes(sql) => (1 .. n) \cap readOnly = {})
    BY <2>1, <2>2, <2>3
  <2> QED
    BY <1>2, <1>5, <2>2, <2>4, DispatchOK
<1>6. CASE ~(editorOpen /\ ~Busy /\ Preflight(gate.text, gate.targets, readOnly))
  <2>1. UNCHANGED <<jobVars, cancel, generation, results, status>>
    BY <1>3, <1>6
  <2>2. TabOK'
    BY <1>1, <1>2, <2>1 DEF TabOK, jobVars
  <2> QED
    BY <1>1, <1>2, <2>1, <2>2, TabMoves DEF jobVars, grid
<1> QED
  BY <1>5, <1>6

(* The invariant holds before the first run.                               *)
LEMMA InitIInv ==
    ASSUME Init
    PROVE  IInv
<1>1. /\ text = [r \in Runs |-> <<>>] /\ guard = {} /\ task = [j \in Jobs |-> Idle]
      /\ chan = [j \in Jobs |-> <<>>] /\ fired = {} /\ loop = [r \in Runs |-> "none"]
      /\ truth = [j \in Jobs |-> [s \in 1 .. MaxStmts |-> Unknown]]
  BY DEF Init, StatementsInit
<1>2. /\ editorOpen = TRUE /\ cancel = NoRun /\ generation = 0 /\ results = {} /\ gate = NoGate
      /\ status = [j \in Jobs |-> "none"] /\ error = [j \in Jobs |-> FALSE]
      /\ current = [j \in Jobs |-> NoBuffer] /\ counted = [j \in Jobs |-> 0] /\ spilled = {}
      /\ history = [j \in Jobs |-> <<>>]
  BY DEF Init
<1>3. MaxRuns \in Nat /\ MaxStmts \in Nat /\ MaxRows \in Nat /\ ChanCap \in Nat
  BY StatementsAssumption
<1>4. JobTypes
  <2>1. Idle \in [at : Places, stmt : 0 .. MaxStmts] /\ Unknown \in [state : States, rows : Nat]
    BY <1>3 DEF Idle, Unknown, Places, States
  <2>2. [s \in 1 .. MaxStmts |-> Unknown] \in Truths
    BY <2>1 DEF Truths
  <2>3. <<>> \in Seq(Events)
    OBVIOUS
  <2>4. /\ text \in [Runs -> Texts \cup {<<>>}] /\ fired \subseteq Runs
        /\ loop \in [Runs -> {"none", "recv", "done"}]
    BY <1>1
  <2>5. task \in [Jobs -> [at : Places, stmt : 0 .. MaxStmts]] /\ chan \in [Jobs -> Seq(Events)]
    BY <1>1, <2>1, <2>3
  <2>6. truth \in [Jobs -> Truths]
    BY <1>1, <2>2
  <2> QED
    BY <2>4, <2>5, <2>6 DEF JobTypes
<1>5. GridTypes
  <2>1. "none" \in Chips /\ NoBuffer \in -1 .. MaxRows /\ <<>> \in Seq(Entries)
    BY <1>3 DEF Chips, NoBuffer
  <2> QED
    BY <1>2, <2>1 DEF GridTypes
<1>6. TabOK
  <2>1. \A r \in Runs : loop[r] = "none" /\ r > 0
    BY <1>1 DEF Runs
  <2> QED
    BY <1>1, <1>2, <1>3, <2>1 DEF TabOK
<1>7. ASSUME NEW j \in Jobs
      PROVE  JobOK(j)
  <2>1. j[1] \in Runs
    BY DEF Jobs
  <2>2. /\ text[j[1]] = <<>> /\ task[j] = Idle /\ chan[j] = <<>> /\ loop[j[1]] = "none"
        /\ truth[j] = [s \in 1 .. MaxStmts |-> Unknown]
    BY <1>1, <2>1
  <2>3. /\ status[j] = "none" /\ ~error[j] /\ current[j] = NoBuffer /\ counted[j] = 0
        /\ j \notin spilled /\ history[j] = <<>>
    BY <1>2
  <2>4. task[j].at = "none" /\ task[j].stmt = 0
    BY <2>2 DEF Idle
  <2>5. \A s \in 1 .. MaxStmts : s > 0 /\ truth[j][s] = Unknown
    BY <1>3, <2>2
  <2>6. Len(<<>>) = 0
    OBVIOUS
  <2>7. TaskOK(j)
    <3>1. task[j].stmt <= Len(text[j[1]])
      BY <2>2, <2>4, <2>6
    <3> QED
      BY <2>4, <2>5, <3>1 DEF TaskOK, InStatement
  <2>8. Untouched(j)
    BY <2>2, <2>3 DEF Untouched
  <2>9. HistoryOK(j)
    BY <2>3, <2>6 DEF HistoryOK
  <2>10. ChipOK(j)
    BY <2>2, <2>3 DEF ChipOK
  <2>11. \A s \in 1 .. MaxStmts : truth[j][s].state # "refused"
    BY <2>5 DEF Unknown
  <2> QED
    BY <1>3, <2>2, <2>4, <2>6, <2>7, <2>8, <2>9, <2>10, <2>11 DEF JobOK
<1> QED
  BY <1>4, <1>5, <1>6, <1>7 DEF IInv

(* The event loop keeps the invariant.                                     *)
LEMMA EventLoopOK ==
    ASSUME IInv, NEW j \in Jobs, EventLoop(j)
    PROVE  IInv'
BY OnStartedOK, OnReadStartedOK, OnWriteStartedOK, OnBatchOK, OnReadFinishedOK, OnWriteFinishedOK,
   OnStatementFailedOK, OnRunFinishedOK, OnFinishedOK, GoneOK DEF EventLoop

(* The user keeps the invariant.                                           *)
LEMMA UserOK ==
    ASSUME IInv, User
    PROVE  IInv'
BY RunOnTargetsOK, ConfirmWriteOK, DismissGateOK, OnCancelOK, CloseEditorOK, CloseResultOK DEF User

(* Nothing happens.                                                        *)
LEMMA NothingOK ==
    ASSUME IInv, UNCHANGED vars
    PROVE  IInv'
<1>1. /\ JobTypes /\ GridTypes /\ TabOK /\ \A k \in Jobs : JobOK(k)
      /\ UNCHANGED <<jobVars, editor, gate, grid, history>>
  BY DEF IInv, vars
<1>2. fired \subseteq Runs
  BY <1>1 DEF JobTypes
<1>3. TabOK'
  BY <1>1 DEF TabOK, jobVars, editor
<1> QED
  BY <1>1, <1>2, <1>3, TabMoves DEF jobVars, editor

(* The invariant is inductive.                                             *)
LEMMA StepIInv ==
    ASSUME IInv, [Next]_vars
    PROVE  IInv'
<1>1. ASSUME NEW j \in Jobs, Fanout(j) PROVE IInv'
  BY <1>1, FanoutOK
<1>2. ASSUME NEW j \in Jobs, EventLoop(j) PROVE IInv'
  BY <1>2, EventLoopOK
<1>3. ASSUME NEW r \in Runs, ChannelClosed(r) PROVE IInv'
  BY <1>3, ChannelClosedOK
<1>4. CASE User
  BY <1>4, UserOK
<1>5. CASE Quiet
  BY <1>5, NothingOK DEF Quiet
<1>6. CASE UNCHANGED vars
  BY <1>6, NothingOK
<1> QED
  BY <1>1, <1>2, <1>3, <1>4, <1>5, <1>6 DEF Next, System

(* The invariant holds at every moment.                                    *)
LEMMA AlwaysIInv == Spec => []IInv
BY InitIInv, StepIInv, PTL DEF Spec

(* The invariant implies that the chips are honest.                        *)
LEMMA IInvChips ==
    ASSUME IInv
    PROVE  ChipsAreHonest
<1>1. \A j \in Jobs : ChipOK(j)
  BY DEF IInv, JobOK
<1> QED
  BY <1>1 DEF ChipsAreHonest, ChipOK, SomeFailed

(* The invariant implies that the history is.                              *)
LEMMA IInvHistory ==
    ASSUME IInv
    PROVE  HistoryIsHonest
<1> SUFFICES ASSUME NEW j \in Jobs
             PROVE  /\ \A i \in DOMAIN history[j] :
                         LET e == history[j][i] IN
                         /\ e.stmt = i
                         /\ e.ok => truth[j][i] = [state |-> "ok", rows |-> e.rows]
                         /\ ~e.ok => truth[j][i].state \in {"failed", "cancelled"} \/ j \in spilled
                    /\ status[j] = "done" => Len(history[j]) = Len(text[j[1]])
  BY DEF HistoryIsHonest
<1>1. HistoryOK(j) /\ ChipOK(j) /\ history[j] \in Seq(Entries)
  BY DEF IInv, JobOK, GridTypes
<1>2. DOMAIN history[j] = 1 .. Len(history[j])
  BY <1>1
<1>3. status[j] = "done" => Len(history[j]) = Len(text[j[1]])
  BY <1>1 DEF ChipOK
<1> QED
  BY <1>1, <1>2, <1>3 DEF HistoryOK

(* The invariant implies the types, that the gate holds and that the tab   *)
(* is freed.                                                               *)
LEMMA IInvSafe ==
    ASSUME IInv
    PROVE  Safe
<1>1. JobTypes /\ GridTypes /\ TabOK /\ \A j \in Jobs : JobOK(j)
  BY DEF IInv
<1>2. GateHolds
  BY <1>1 DEF JobOK, GateHolds
<1>3. TabIsFreed
  <2>1. cancel # NoRun => cancel \in Runs /\ loop[cancel] = "recv"
    BY <1>1, TabFacts DEF TabOK
  <2>2. \A j \in Jobs : loop[j[1]] = "done" => status[j] \notin Unfinished
    BY <1>1 DEF JobOK, ChipOK
  <2> QED
    BY <2>1, <2>2 DEF TabIsFreed
<1>4. StatementsType
  <2>1. /\ \A r \in Runs : text[r] \in Texts \cup {<<>>}
        /\ guard \subseteq Jobs /\ fired \subseteq Runs /\ loop \in [Runs -> {"none", "recv", "done"}]
    BY <1>1 DEF JobTypes, TabOK
  <2>2. ASSUME NEW j \in Jobs
        PROVE  /\ task[j].at \in {"none", "pending", "start", "next", "good", "bad",
                                  "done"} \cup InStatement
               /\ task[j].stmt \in 0 .. MaxStmts
               /\ Len(chan[j]) <= ChanCap
               /\ \A s \in 1 .. MaxStmts :
                    truth[j][s].state \in {"none", "running", "ok", "failed", "cancelled", "refused"}
    <3>1. task[j] \in [at : Places, stmt : 0 .. MaxStmts] /\ truth[j] \in Truths
      BY <1>1 DEF JobTypes
    <3>2. Len(chan[j]) <= ChanCap
      BY <1>1 DEF JobOK
    <3> QED
      BY <3>1, <3>2 DEF Places, Truths, States
  <2> QED
    BY <2>1, <2>2 DEF StatementsType
<1>5. TypeOK
  <2>1. /\ editorOpen \in BOOLEAN /\ cancel \in 0 .. generation /\ generation \in 0 .. MaxRuns
        /\ results \subseteq 1 .. generation
    BY <1>1, TabFacts DEF TabOK
  <2>2. \/ gate = NoGate
        \/ gate.text \in Texts /\ gate.targets \in Targets
    BY <1>1 DEF TabOK
  <2>3. /\ status \in [Jobs -> {"none", "done", "failed", "cancelled"} \cup Unfinished]
        /\ error \in [Jobs -> BOOLEAN]
        /\ \A j \in Jobs : current[j] \in -1 .. MaxRows
        /\ spilled \subseteq Jobs
    BY <1>1 DEF GridTypes, Chips
  <2>4. \A j \in Jobs : status[j] = "failed" => error[j]
    BY <1>1 DEF JobOK, ChipOK
  <2> QED
    BY <1>4, <2>1, <2>2, <2>3, <2>4 DEF TypeOK
<1> QED
  BY <1>2, <1>3, <1>5 DEF Safe

(* The tail of a loop takes no token but its own.                          *)
LEMMA TidySpares ==
    ASSUME TabOK, NEW r, Tidy(r)
    PROVE  cancel' = cancel \/ cancel = r
BY DEF TabOK, Tidy

(* The loop that ends is the one that leaves.                              *)
LEMMA LeaveEnds ==
    ASSUME JobTypes, NEW q, Leave(q), NEW r \in Runs, loop[r] = "recv", loop'[r] = "done"
    PROVE  r = q
BY DEF JobTypes, Leave

(* What a dispatch does to the loops and to the result tabs.               *)
LEMMA DispatchGrows ==
    ASSUME JobTypes, NEW sql, NEW n, NEW ro, Dispatch(sql, n, ro)
    PROVE  /\ \A r \in Runs : loop'[r] = loop[r] \/ loop'[r] = "recv"
           /\ results \subseteq results'
BY DEF JobTypes, Dispatch

(* The targets touch neither a loop nor a result tab.                      *)
LEMMA FanoutQuiet ==
    ASSUME IInv, NEW j \in Jobs, Fanout(j)
    PROVE  loop' = loop /\ results' = results
<1>1. Stepped(j) /\ UNCHANGED editor
  BY FanoutStep DEF IInv, JobOK
<1> QED
  BY <1>1 DEF Stepped, editor

(* An arm ends no loop but its own, and leaves the result tabs alone.      *)
LEMMA ArmQuiet ==
    ASSUME NEW j \in Jobs, EventLoop(j)
    PROVE  /\ results' = results
           /\ loop' = loop \/ (Leave(j[1]) /\ Tidy(j[1]))
<1>1. ASSUME NEW ev, Handle(j, ev) PROVE loop' = loop /\ results' = results
  BY <1>1 DEF Handle, Continue, editor
<1>2. Gone(j) => Leave(j[1]) /\ Tidy(j[1]) /\ results' = results
  BY DEF Gone
<1> QED
  BY <1>1, <1>2 DEF EventLoop, OnStarted, OnReadStarted, OnWriteStarted, OnBatch, OnReadFinished,
     OnWriteFinished, OnStatementFailed, OnRunFinished, OnFinished

(* The user ends no loop, and closes a result tab in two ways only, which  *)
(* are not among these.                                                    *)
LEMMA UserGrows ==
    ASSUME IInv, RunOnTargets \/ ConfirmWrite \/ DismissGate \/ OnCancel
    PROVE  /\ \A r \in Runs : loop'[r] = loop[r] \/ loop'[r] = "recv"
           /\ results \subseteq results'
<1>1. JobTypes
  BY DEF IInv
<1>2. CASE RunOnTargets
  BY <1>1, <1>2, DispatchGrows DEF RunOnTargets, jobVars
<1>3. CASE ConfirmWrite
  BY <1>1, <1>3, DispatchGrows DEF ConfirmWrite, jobVars
<1>4. CASE DismissGate
  BY <1>4 DEF DismissGate, jobVars, editor
<1>5. CASE OnCancel
  BY <1>5 DEF OnCancel
<1> QED
  BY <1>2, <1>3, <1>4, <1>5

(* What a step may not do: see RunsAreApart.                               *)
TailStep == \A r \in Runs : loop[r] = "recv" /\ loop'[r] = "done" => cancel' = cancel \/ cancel = r
CloseStep == \A r \in Runs : r \in results \ results' /\ editorOpen' /\ loop[r] = "recv" /\ ~AllFinished(r)
                               => r \in fired'

(* No step takes the token of a newer run when a loop ends.                *)
LEMMA StepTail ==
    ASSUME IInv, [Next]_vars
    PROVE  TailStep
<1>1. JobTypes /\ TabOK
  BY DEF IInv
<1>2. ASSUME NEW q \in Runs, Leave(q), Tidy(q) PROVE TailStep
  BY <1>1, <1>2, TidySpares, LeaveEnds DEF TailStep
<1>3. ASSUME \A r \in Runs : loop'[r] = loop[r] \/ loop'[r] = "recv" PROVE TailStep
  BY <1>3 DEF TailStep
<1>4. ASSUME NEW j \in Jobs, Fanout(j) PROVE TailStep
  BY <1>3, <1>4, FanoutQuiet
<1>5. ASSUME NEW j \in Jobs, EventLoop(j) PROVE TailStep
  <2>1. j[1] \in Runs
    BY <1>1, JobFacts
  <2> QED
    BY <1>2, <1>3, <1>5, <2>1, ArmQuiet
<1>6. ASSUME NEW r \in Runs, ChannelClosed(r) PROVE TailStep
  BY <1>2, <1>6 DEF ChannelClosed
<1>7. CASE User
  <2>1. CASE RunOnTargets \/ ConfirmWrite \/ DismissGate \/ OnCancel
    BY <1>3, <2>1, UserGrows
  <2>2. CASE CloseEditor \/ \E r \in Runs : CloseResult(r)
    BY <1>3, <2>2 DEF CloseEditor, CloseResult
  <2> QED
    BY <1>7, <2>1, <2>2 DEF User
<1>8. CASE UNCHANGED vars
  BY <1>3, <1>8 DEF vars, jobVars
<1> QED
  BY <1>4, <1>5, <1>6, <1>7, <1>8 DEF Next, System, Quiet

(* No step closes a result whose run goes on without firing its token.     *)
LEMMA StepClose ==
    ASSUME IInv, [Next]_vars
    PROVE  CloseStep
<1>1. JobTypes /\ TabOK
  BY DEF IInv
<1>2. ASSUME results \subseteq results' PROVE CloseStep
  BY <1>2 DEF CloseStep
<1>3. ASSUME NEW j \in Jobs, Fanout(j) PROVE CloseStep
  BY <1>2, <1>3, FanoutQuiet
<1>4. ASSUME NEW j \in Jobs, EventLoop(j) PROVE CloseStep
  BY <1>2, <1>4, ArmQuiet
<1>5. ASSUME NEW r \in Runs, ChannelClosed(r) PROVE CloseStep
  BY <1>2, <1>5 DEF ChannelClosed
<1>6. ASSUME NEW q \in Runs, CloseResult(q) PROVE CloseStep
  <2> SUFFICES ASSUME NEW r \in Runs, r \in results \ results', loop[r] = "recv", ~AllFinished(r)
               PROVE  r \in fired'
    BY DEF CloseStep
  <2>1. r = q /\ editorOpen
    BY <1>6 DEF CloseResult
  <2>2. cancel = r \/ r \in fired
    BY <1>1, <2>1 DEF TabOK
  <2>3. r # NoRun
    BY StatementsAssumption DEF Runs, NoRun
  <2>4. CASE Busy
    BY <1>6, <2>1, <2>2, <2>3, <2>4 DEF CloseResult, TakeToken
  <2>5. CASE ~Busy
    BY <1>6, <2>1, <2>2, <2>3, <2>5 DEF CloseResult, Busy
  <2> QED
    BY <2>4, <2>5
<1>7. CASE CloseEditor
  BY <1>7 DEF CloseEditor, CloseStep
<1>8. CASE RunOnTargets \/ ConfirmWrite \/ DismissGate \/ OnCancel
  BY <1>2, <1>8, UserGrows
<1>9. CASE UNCHANGED vars
  BY <1>2, <1>9 DEF vars, editor
<1> QED
  BY <1>3, <1>4, <1>5, <1>6, <1>7, <1>8, <1>9 DEF Next, System, User, Quiet

(* The chip of a target says done only if all its statements succeeded and *)
(* the rows on it are all there are; failed only if something did go wrong *)
(* that was not the cancel of the user; and, while the loop listens,       *)
(* cancelled only if the user did cancel: however its events, Esc, a       *)
(* failed push, a panic of a decoder and a closed tab fall. For every      *)
(* number of runs, targets, statements and rows.                           *)
THEOREM ChipsTellTheTruth == Spec => []ChipsAreHonest
BY AlwaysIInv, IInvChips, PTL

(* The history of a target has one entry for each of its first statements, *)
(* in their order and each once; what an entry says of its statement is    *)
(* what became of it, and a target whose chip says done has an entry for   *)
(* every one.                                                              *)
THEOREM HistoryTellsTheTruth == Spec => []HistoryIsHonest
BY AlwaysIInv, IInvHistory, PTL

(* No statement of a run is refused by the guard of a connection, since    *)
(* the gate had found what would be before it dispatched; and when no loop *)
(* is left the slot of the tab is free and no chip is unfinished. With the *)
(* types.                                                                  *)
THEOREM RunsAreSafe == Spec => []Safe
BY AlwaysIInv, IInvSafe, PTL

(* The tail of an old run's loop does not take the token of a newer run,   *)
(* which would leave that run without a Cancel; and closing the result of  *)
(* a run that goes on cancels it.                                          *)
THEOREM RunsStayApart == Spec => RunsAreApart
<1>1. IInv /\ [Next]_vars => [TailStep]_vars
  BY StepTail
<1>2. IInv /\ [Next]_vars => [CloseStep]_vars
  BY StepClose
<1>3. Spec => TailSparesNewerRun
  BY <1>1, AlwaysIInv, PTL DEF Spec, TailSparesNewerRun, TailStep
<1>4. Spec => ClosingCancels
  BY <1>2, AlwaysIInv, PTL DEF Spec, ClosingCancels, CloseStep
<1> QED
  BY <1>3, <1>4 DEF RunsAreApart

-----------------------------------------------------------------------------
(* Part 2: Sidebar. *)

(* Induction over the numbers up to n, for a set.                          *)
LEMMA UpTo ==
    ASSUME NEW n \in Nat, NEW T, 0 \in T, \A i \in 1 .. n : i - 1 \in T => i \in T
    PROVE  \A i \in 0 .. n : i \in T
<1> DEFINE Not == {i \in 0 .. n : i \notin T}
<1>1. ASSUME Not # {} PROVE FALSE
  <2>0. Not \subseteq Nat
    OBVIOUS
  <2>1. PICK m \in Not : \A i \in Not : m <= i
    <3> HIDE DEF Not
    <3> QED
      BY <1>1, <2>0, LeastMember
  <2>2. m \in 1 .. n /\ m - 1 \in 0 .. n /\ ~(m <= m - 1)
    BY <2>1
  <2>3. m - 1 \in T
    BY <2>1, <2>2
  <2> QED
    BY <2>1, <2>2, <2>3
<1> QED
  BY <1>1

-----------------------------------------------------------------------------
(* Sequences: what Only keeps. *)

(* No element of s comes twice.                                            *)
Distinct(s) == \A i, j \in 1 .. Len(s) : s[i] = s[j] => i = j

(* u is what Only has kept after each of the first n elements.             *)
Keeps(s, S, u, n) ==
    /\ u[0] = <<>>
    /\ \A i \in 1 .. n : u[i] = IF s[i] \in S THEN Append(u[i - 1], s[i]) ELSE u[i - 1]

(* There is such a function, for every n.                                  *)
LEMMA KeptExists ==
    ASSUME NEW s, NEW S, NEW n \in Nat
    PROVE  \E u : u = [i \in 0 .. n |-> u[i]] /\ Keeps(s, S, u, n)
<1> DEFINE T == {m \in Nat : \E u : u = [i \in 0 .. m |-> u[i]] /\ Keeps(s, S, u, m)}
<1>1. 0 \in T
  <2> DEFINE f == [i \in 0 .. 0 |-> <<>>]
  <2>1. f = [i \in 0 .. 0 |-> f[i]] /\ Keeps(s, S, f, 0)
    BY DEF Keeps
  <2> QED
    BY <2>1
<1>2. ASSUME NEW m \in 1 .. n, m - 1 \in T PROVE m \in T
  <2>1. PICK g : g = [i \in 0 .. m - 1 |-> g[i]] /\ Keeps(s, S, g, m - 1)
    BY <1>2
  <2> DEFINE last == IF s[m] \in S THEN Append(g[m - 1], s[m]) ELSE g[m - 1]
             h == [i \in 0 .. m |-> IF i = m THEN last ELSE g[i]]
  <2>2. h = [i \in 0 .. m |-> h[i]]
    OBVIOUS
  <2>3. Keeps(s, S, h, m)
    <3>1. h[0] = <<>>
      BY <2>1 DEF Keeps
    <3>2. ASSUME NEW i \in 1 .. m
          PROVE  h[i] = IF s[i] \in S THEN Append(h[i - 1], s[i]) ELSE h[i - 1]
      <4>1. CASE i = m
        BY <4>1
      <4>2. CASE i # m
        <5>1. i \in 1 .. m - 1 /\ i \in 0 .. m /\ i - 1 \in 0 .. m /\ i - 1 # m
          BY <4>2
        <5>2. h[i] = g[i] /\ h[i - 1] = g[i - 1]
          BY <5>1, <4>2
        <5> QED
          BY <5>1, <5>2, <2>1 DEF Keeps
      <4> QED
        BY <4>1, <4>2
    <3> QED
      BY <3>1, <3>2 DEF Keeps
  <2>4. \E u : u = [i \in 0 .. m |-> u[i]] /\ Keeps(s, S, u, m)
    <3> HIDE DEF h
    <3> QED
      BY <2>2, <2>3
  <2> QED
    BY <2>4
<1> HIDE DEF T
<1>3. n \in T
  BY <1>1, <1>2, UpTo
<1> QED
  BY <1>3 DEF T

(* Only is the last value of such a function.                              *)
LEMMA OnlyIs ==
    ASSUME NEW s, NEW S, Len(s) \in Nat
    PROVE  \E u : Keeps(s, S, u, Len(s)) /\ Only(s, S) = u[Len(s)]
<1> DEFINE n == Len(s)
           Step(u) == [i \in 0 .. n |-> IF i = 0 THEN <<>>
                                        ELSE IF s[i] \in S THEN Append(u[i - 1], s[i]) ELSE u[i - 1]]
           c == CHOOSE u : u = Step(u)
<1>1. PICK u : u = [i \in 0 .. n |-> u[i]] /\ Keeps(s, S, u, n)
  BY KeptExists
<1>2. ASSUME NEW i \in 0 .. n PROVE u[i] = Step(u)[i]
  <2>1. CASE i = 0
    BY <2>1, <1>1 DEF Keeps
  <2>2. CASE i # 0
    <3>1. i \in 1 .. n
      BY <2>2
    <3>2. u[i] = IF s[i] \in S THEN Append(u[i - 1], s[i]) ELSE u[i - 1]
      BY <3>1, <1>1 DEF Keeps
    <3> QED
      BY <2>2, <3>2
  <2> QED
    BY <2>1, <2>2
<1>3. u = Step(u)
  <2> DEFINE v == Step(u)
  <2>1. v = [i \in 0 .. n |-> v[i]]
    OBVIOUS
  <2>2. \A i \in 0 .. n : u[i] = v[i]
    BY <1>2
  <2> HIDE DEF v
  <2>3. u = v
    BY <1>1, <2>1, <2>2
  <2> QED
    BY <2>3 DEF v
<1>4. c = Step(c)
  BY <1>3
<1>5. Only(s, S) = c[n]
  BY DEF Only
<1>6. Keeps(s, S, c, n)
  <2> HIDE DEF c
  <2>1. \A i \in 0 .. n : c[i] = IF i = 0 THEN <<>>
                                 ELSE IF s[i] \in S THEN Append(c[i - 1], s[i]) ELSE c[i - 1]
    BY <1>4
  <2> QED
    BY <2>1 DEF Keeps
<1> QED
  BY <1>5, <1>6

(* Only keeps the elements in S, and none twice that was there once.       *)
LEMMA OnlyKeeps ==
    ASSUME NEW V, NEW s \in Seq(V), Distinct(s), NEW S
    PROVE  /\ Only(s, S) \in Seq(V)
           /\ Distinct(Only(s, S))
           /\ \A x : x \in ToSet(Only(s, S)) <=> x \in ToSet(s) /\ x \in S
<1> DEFINE n == Len(s)
<1>1. n \in Nat /\ DOMAIN s = 1 .. n /\ \A i \in 1 .. n : s[i] \in V
  BY LenProperties, ElementOfSeq
<1>2. PICK u : Keeps(s, S, u, n) /\ Only(s, S) = u[n]
  BY <1>1, OnlyIs
<1> HIDE DEF n
<1> DEFINE Before(i) == {s[j] : j \in 1 .. i}
           Good(i) == /\ u[i] \in Seq(V)
                      /\ Distinct(u[i])
                      /\ \A x : (\E j \in 1 .. Len(u[i]) : u[i][j] = x)
                                <=> (\E j \in 1 .. i : s[j] = x) /\ x \in S
           T == {i \in 0 .. n : Good(i)}
<1>3. 0 \in T
  <2>1. u[0] = <<>> /\ 0 \in 0 .. n
    BY <1>1, <1>2 DEF Keeps
  <2>2. <<>> \in Seq(V) /\ Len(<<>>) = 0
    BY EmptySeq
  <2>3. u[0] \in Seq(V) /\ Len(u[0]) = 0
    BY <2>1, <2>2
  <2>4. Distinct(u[0])
    BY <2>3 DEF Distinct
  <2>5. 1 .. Len(u[0]) = {} /\ 1 .. 0 = {}
    BY <2>3
  <2>6. \A x : (\E j \in 1 .. Len(u[0]) : u[0][j] = x) <=> (\E j \in 1 .. 0 : s[j] = x) /\ x \in S
    BY <2>5
  <2> QED
    BY <2>1, <2>3, <2>4, <2>6
<1>4. ASSUME NEW i \in 1 .. n, i - 1 \in T PROVE i \in T
  <2>0. i \in Nat /\ i - 1 \in Nat /\ i - 1 \in 0 .. n /\ i \in 0 .. n /\ 1 .. i = (1 .. (i - 1)) \cup {i}
    BY <1>1
  <2>1. Good(i - 1)
    BY <1>4
  <2>2. u[i] = IF s[i] \in S THEN Append(u[i - 1], s[i]) ELSE u[i - 1]
    BY <1>2 DEF Keeps
  <2>3. s[i] \in V
    BY <1>1
  <2>4. Good(i)
    <3>1. CASE s[i] \notin S
      <4>1. u[i] = u[i - 1]
        BY <3>1, <2>2
      <4>2. ASSUME NEW x PROVE (\E j \in 1 .. i : s[j] = x) /\ x \in S
                               <=> (\E j \in 1 .. i - 1 : s[j] = x) /\ x \in S
        BY <3>1, <2>0
      <4> QED
        BY <4>1, <4>2, <2>1
    <3>2. CASE s[i] \in S
      <4> DEFINE v == u[i - 1]
                 w == Append(v, s[i])
      <4>1. u[i] = w /\ v \in Seq(V) /\ Distinct(v)
        BY <3>2, <2>1, <2>2
      <4>2. /\ w \in Seq(V) /\ Len(w) = Len(v) + 1 /\ Len(v) \in Nat
            /\ \A j \in 1 .. Len(v) : w[j] = v[j]
            /\ w[Len(v) + 1] = s[i]
        BY <4>1, <2>3, AppendProperties, LenProperties
      <4>3. \A x : (\E j \in 1 .. Len(v) : v[j] = x) <=> (\E j \in 1 .. i - 1 : s[j] = x) /\ x \in S
        BY <2>1
      <4> HIDE DEF v, w
      <4>4. \A j \in 1 .. Len(v) : v[j] # s[i]
        <5> SUFFICES ASSUME NEW j \in 1 .. Len(v), v[j] = s[i] PROVE FALSE
          OBVIOUS
        <5>1. PICK m \in 1 .. i - 1 : s[m] = s[i]
          BY <4>3
        <5>2. m \in 1 .. Len(s) /\ i \in 1 .. Len(s) /\ m # i
          BY <2>0, <1>1 DEF n
        <5> QED
          BY <5>1, <5>2 DEF Distinct
      <4>5. Distinct(w)
        <5> SUFFICES ASSUME NEW a \in 1 .. Len(w), NEW b \in 1 .. Len(w), w[a] = w[b] PROVE a = b
          BY DEF Distinct
        <5>1. (a \in 1 .. Len(v) \/ a = Len(v) + 1) /\ (b \in 1 .. Len(v) \/ b = Len(v) + 1)
          BY <4>2
        <5>2. CASE a \in 1 .. Len(v) /\ b \in 1 .. Len(v)
          BY <5>2, <4>1, <4>2 DEF Distinct
        <5> QED
          BY <5>1, <5>2, <4>2, <4>4
      <4>6. ASSUME NEW x PROVE (\E j \in 1 .. Len(w) : w[j] = x)
                               <=> (\E j \in 1 .. i : s[j] = x) /\ x \in S
        <5>1. (\E j \in 1 .. Len(w) : w[j] = x) <=> (\E j \in 1 .. Len(v) : v[j] = x) \/ s[i] = x
          <6>1. \A j \in 1 .. Len(w) : j \in 1 .. Len(v) \/ j = Len(v) + 1
            BY <4>2
          <6>2. \A j \in 1 .. Len(v) : j \in 1 .. Len(w)
            BY <4>2
          <6>3. Len(v) + 1 \in 1 .. Len(w)
            BY <4>2
          <6> QED
            BY <6>1, <6>2, <6>3, <4>2
        <5>2. (\E j \in 1 .. i : s[j] = x) <=> (\E j \in 1 .. i - 1 : s[j] = x) \/ s[i] = x
          BY <2>0
        <5> QED
          BY <5>1, <5>2, <4>3, <3>2
      <4> QED
        BY <4>1, <4>2, <4>5, <4>6
    <3> QED
      BY <3>1, <3>2
  <2> QED
    BY <2>0, <2>4
<1>5. Good(n)
  <2> HIDE DEF Good
  <2>1. \A i \in 0 .. n : i \in T
    <3>1. n \in Nat
      BY <1>1
    <3> HIDE DEF T
    <3> QED
      BY <1>3, <1>4, <3>1, UpTo
  <2> QED
    BY <1>1, <2>1
<1> DEFINE o == Only(s, S)
<1>6. /\ o \in Seq(V) /\ Distinct(o)
      /\ \A x : (\E j \in 1 .. Len(o) : o[j] = x) <=> (\E j \in 1 .. n : s[j] = x) /\ x \in S
  BY <1>2, <1>5
<1> HIDE DEF o
<1>7. DOMAIN o = 1 .. Len(o)
  BY <1>6, LenProperties
<1>8. ASSUME NEW x PROVE x \in ToSet(o) <=> x \in ToSet(s) /\ x \in S
  BY <1>1, <1>6, <1>7 DEF ToSet
<1> QED
  BY <1>6, <1>8 DEF o

(* A sequence without repetitions is as long as it has elements.           *)
LEMMA DistinctCount ==
    ASSUME NEW V, NEW s \in Seq(V), Distinct(s)
    PROVE  IsFiniteSet(ToSet(s)) /\ Cardinality(ToSet(s)) = Len(s) /\ Len(s) \in Nat
<1>1. Len(s) \in Nat /\ DOMAIN s = 1 .. Len(s) /\ s \in [1 .. Len(s) -> ToSet(s)]
  BY LenProperties DEF ToSet
<1>2. s \in Bijection(1 .. Len(s), ToSet(s))
  BY <1>1 DEF Bijection, Injection, Surjection, IsInjective, Distinct, ToSet
<1>3. ExistsBijection(1 .. Len(s), ToSet(s))
  BY <1>2 DEF ExistsBijection
<1> QED
  BY <1>1, <1>3, FS_CountingElements, FS_NatBijection

-----------------------------------------------------------------------------
(* Trees. *)

(* A row, a slot or the fallback of a tree put in its place.               *)
LEMMA TreeParts ==
    ASSUME NEW t \in Trees
    PROVE  /\ t.lists \in [Conns -> Rows] /\ t.slots \in [Keys -> Slots] /\ t.lru \in Seq(Keys)
           /\ t.fallback # Nil => t.fallback.key \in Keys /\ t.fallback.slot \in Slots
<1> QED
  BY DEF Trees

LEMMA WithFallback ==
    ASSUME NEW t \in Trees, NEW fb, fb \in {Nil} \cup [key : Keys, slot : Slots], NEW u,
           u = [t EXCEPT !.fallback = fb]
    PROVE  /\ u \in Trees /\ u.lists = t.lists /\ u.slots = t.slots /\ u.lru = t.lru
           /\ u.fallback = fb
<1> QED
  BY DEF Trees

LEMMA WithLists ==
    ASSUME NEW t \in Trees, NEW l \in [Conns -> Rows], NEW u,
           u = [t EXCEPT !.lists = l]
    PROVE  /\ u \in Trees /\ u.fallback = t.fallback /\ u.slots = t.slots /\ u.lru = t.lru
           /\ u.lists = l
<1> QED
  BY DEF Trees

(* The lru and the memory: the keys of the loaded schemas, each once, and  *)
(* no more than Cap of them.                                               *)
RecentOK(t) ==
    /\ Distinct(t.lru) /\ LoadedKeys(t) \subseteq ToSet(t.lru)
    /\ Cardinality(LoadedKeys(t)) <= Cap

(* The first m elements of a sequence without repetitions.                 *)
LEMMA Firsts ==
    ASSUME NEW V, NEW s \in Seq(V), Distinct(s), NEW m \in Nat, m <= Len(s)
    PROVE  /\ SubSeq(s, 1, m) \in Seq(V) /\ Len(SubSeq(s, 1, m)) = m /\ Distinct(SubSeq(s, 1, m))
           /\ ToSet(SubSeq(s, 1, m)) \subseteq ToSet(s)
<1>1. Len(s) \in Nat /\ DOMAIN s = 1 .. Len(s) /\ \A i \in 1 .. Len(s) : s[i] \in V
  BY LenProperties, ElementOfSeq
<1> DEFINE o == SubSeq(s, 1, m)
<1>2. o \in Seq(V) /\ Len(o) = (IF 1 <= m THEN m - 1 + 1 ELSE 0)
      /\ \A i \in 1 .. m - 1 + 1 : o[i] = s[1 + i - 1]
  <2>1. \A i \in 1 .. m : s[i] \in V
    BY <1>1
  <2> QED
    BY <2>1, SubSeqProperties
<1> HIDE DEF o
<1>3. Len(o) = m /\ \A i \in 1 .. m : o[i] = s[i]
  BY <1>2
<1>4. DOMAIN o = 1 .. m
  BY <1>2, <1>3, LenProperties
<1>5. Distinct(o)
  <2>1. \A i \in 1 .. m : i \in 1 .. Len(s)
    BY <1>1
  <2> QED
    BY <2>1, <1>3 DEF Distinct
<1>6. ToSet(o) \subseteq ToSet(s)
  BY <1>1, <1>3, <1>4 DEF ToSet
<1> QED
  BY <1>2, <1>3, <1>5, <1>6 DEF o

(* The victims are loaded, leave Cap others, and spare the active schema.  *)
LEMMA VictimsAre ==
    ASSUME NEW s \in Seq(Keys), Distinct(s), Len(s) > Cap, NEW act
    PROVE  /\ Victims(s, act) \subseteq ToSet(s) \ {act}
           /\ Cardinality(ToSet(s) \ Victims(s, act)) = Cap
<1> DEFINE o == Only(s, Keys \ {act})
           m == Len(s) - Cap
           v == SubSeq(o, 1, m)
<1>1. o \in Seq(Keys) /\ Distinct(o) /\ \A x : x \in ToSet(o) <=> x \in ToSet(s) /\ x \in Keys \ {act}
  BY OnlyKeeps
<1>2. /\ IsFiniteSet(ToSet(s)) /\ Cardinality(ToSet(s)) = Len(s) /\ Len(s) \in Nat
      /\ Cardinality(ToSet(o)) = Len(o) /\ Len(o) \in Nat
  <2> HIDE DEF o
  <2> QED
    BY <1>1, DistinctCount
<1>3. ToSet(s) \subseteq Keys
  BY LenProperties DEF ToSet
<1>4. ToSet(o) = ToSet(s) \ {act}
  BY <1>1, <1>3
<1>5. Len(o) >= Len(s) - 1
  <2> HIDE DEF o
  <2>1. Cardinality(ToSet(s) \ {act}) = IF act \in ToSet(s) THEN Len(s) - 1 ELSE Len(s)
    BY ONLY <1>2, FS_RemoveElement
  <2> QED
    BY <1>2, <1>4, <2>1
<1>6. Cap \in Nat \ {0}
  BY SidebarAssumption
<1>7. m \in Nat /\ m <= Len(o)
  <2> HIDE DEF o
  <2> QED
    BY <1>2, <1>5, <1>6
<1>8. v \in Seq(Keys) /\ Len(v) = m /\ Distinct(v) /\ ToSet(v) \subseteq ToSet(o)
  <2> HIDE DEF o, m
  <2> QED
    BY <1>1, <1>7, Firsts
<1>9. Cardinality(ToSet(v)) = m
  <2> HIDE DEF v, m
  <2> QED
    BY <1>8, DistinctCount
<1>10. Victims(s, act) = ToSet(v)
  BY DEF Victims
<1>11. ToSet(v) \subseteq ToSet(s) \ {act}
  BY <1>4, <1>8
<1>12. Cardinality(ToSet(s) \ ToSet(v)) = Len(s) - m
  <2> HIDE DEF v, m
  <2>1. ToSet(s) \cap ToSet(v) = ToSet(v)
    BY <1>11
  <2>2. Cardinality(ToSet(s) \ ToSet(v)) = Len(s) - Cardinality(ToSet(s) \cap ToSet(v))
    BY ONLY <1>2, FS_Difference
  <2> QED
    BY <1>9, <2>1, <2>2
<1>13. Len(s) - m = Cap
  BY <1>2, <1>6
<1> HIDE DEF v, m, o
<1> QED
  BY <1>10, <1>11, <1>12, <1>13

(* touch_and_evict: the lists and the fallback stay, no slot is changed    *)
(* but by emptying it, never the active one, and the memory is bounded.    *)
LEMMA TouchAndEvictIs ==
    ASSUME NEW t \in Trees, NEW k \in Keys, NEW act, NEW u, u = TouchAndEvict(t, k, act),
           Distinct(t.lru), LoadedKeys(t) \subseteq ToSet(t.lru) \cup {k}
    PROVE  /\ u \in Trees /\ u.lists = t.lists /\ u.fallback = t.fallback
           /\ \A x \in Keys : u.slots[x] = t.slots[x] \/ (u.slots[x] = Empty /\ x # act)
           /\ RecentOK(u)
<1> DEFINE kept == Only(t.lru, Keys \ {k})
           touched == Append(kept, k)
           loaded == Only(touched, LoadedKeys(t))
           gone == IF Len(loaded) > Cap THEN Victims(loaded, act) ELSE {}
           lru == Only(touched, Keys \ gone)
           slots == [x \in Keys |-> IF x \in gone THEN Empty ELSE t.slots[x]]
<1>0. t.lru \in Seq(Keys) /\ t.slots \in [Keys -> Slots]
  BY TreeParts
<1>1. u = [t EXCEPT !.lru = lru, !.slots = slots]
  BY DEF TouchAndEvict
<1>2. kept \in Seq(Keys) /\ Distinct(kept)
      /\ \A x : x \in ToSet(kept) <=> x \in ToSet(t.lru) /\ x \in Keys \ {k}
  BY <1>0, OnlyKeeps
<1>3. touched \in Seq(Keys) /\ Distinct(touched) /\ ToSet(touched) = ToSet(kept) \cup {k}
  <2> HIDE DEF kept
  <2> DEFINE w == touched
  <2>1. /\ w \in Seq(Keys) /\ Len(w) = Len(kept) + 1 /\ Len(kept) \in Nat
        /\ \A j \in 1 .. Len(kept) : w[j] = kept[j]
        /\ w[Len(kept) + 1] = k
    BY <1>2, AppendProperties, LenProperties
  <2> HIDE DEF w
  <2>2. DOMAIN w = 1 .. Len(kept) + 1 /\ DOMAIN kept = 1 .. Len(kept)
    BY <1>2, <2>1, LenProperties
  <2>3. \A j \in 1 .. Len(kept) : kept[j] \in ToSet(kept) /\ kept[j] # k
    BY <1>2, <2>2 DEF ToSet
  <2>4. 1 .. Len(kept) + 1 = (1 .. Len(kept)) \cup {Len(kept) + 1}
    BY <2>1
  <2>5. Distinct(w)
    <3> SUFFICES ASSUME NEW a \in 1 .. Len(w), NEW b \in 1 .. Len(w), w[a] = w[b] PROVE a = b
      BY DEF Distinct
    <3>1. (a \in 1 .. Len(kept) \/ a = Len(kept) + 1) /\ (b \in 1 .. Len(kept) \/ b = Len(kept) + 1)
      BY <2>1
    <3>2. CASE a \in 1 .. Len(kept) /\ b \in 1 .. Len(kept)
      BY <3>2, <1>2, <2>1 DEF Distinct
    <3> QED
      BY <3>1, <3>2, <2>1, <2>3
  <2>6. ToSet(w) = ToSet(kept) \cup {k}
    BY <2>1, <2>2, <2>4 DEF ToSet
  <2> QED
    BY <2>1, <2>5, <2>6 DEF w
<1>4. ToSet(touched) = ToSet(t.lru) \cup {k}
  <2>1. ToSet(t.lru) \subseteq Keys
    BY <1>0, LenProperties DEF ToSet
  <2> QED
    BY <2>1, <1>2, <1>3
<1> HIDE DEF kept, touched
<1>5. loaded \in Seq(Keys) /\ Distinct(loaded) /\ ToSet(loaded) = LoadedKeys(t)
  <2>1. loaded \in Seq(Keys) /\ Distinct(loaded)
        /\ \A x : x \in ToSet(loaded) <=> x \in ToSet(touched) /\ x \in LoadedKeys(t)
    BY <1>3, OnlyKeeps
  <2> QED
    BY <2>1, <1>4
<1> HIDE DEF loaded
<1>6. Cardinality(LoadedKeys(t)) = Len(loaded) /\ Len(loaded) \in Nat
  BY <1>5, DistinctCount
<1>7. /\ gone \subseteq LoadedKeys(t) \ {act}
      /\ Cardinality(LoadedKeys(t) \ gone) <= Cap
  <2>0. Cap \in Nat
    BY SidebarAssumption
  <2>1. CASE Len(loaded) > Cap
    BY <2>0, <2>1, <1>5, VictimsAre
  <2>2. CASE ~(Len(loaded) > Cap)
    <3>1. gone = {} /\ LoadedKeys(t) \ gone = LoadedKeys(t)
      BY <2>2
    <3> QED
      BY <2>0, <2>2, <3>1, <1>6
  <2> QED
    BY <2>1, <2>2
<1> HIDE DEF gone
<1>8. lru \in Seq(Keys) /\ Distinct(lru)
      /\ \A x : x \in ToSet(lru) <=> x \in ToSet(touched) /\ x \in Keys \ gone
  BY <1>3, OnlyKeeps
<1> HIDE DEF lru
<1>9. slots \in [Keys -> Slots]
  <2>0. Empty \in Slots
    BY SidebarAssumption DEF Empty, Slots, SlotStates, Sources
  <2> QED
    BY <1>0, <2>0
<1>10. /\ u \in Trees /\ u.lists = t.lists /\ u.fallback = t.fallback
       /\ u.slots = slots /\ u.lru = lru
  <2> HIDE DEF slots
  <2>1. lru \in Seq(Keys)
    BY <1>8
  <2> QED
    BY ONLY <2>1, <1>1, <1>9, t \in Trees DEF Trees
<1>11. LoadedKeys(u) = LoadedKeys(t) \ gone
  <2>1. Empty.st # "loaded"
    BY DEF Empty
  <2>2. \A x \in Keys : u.slots[x] = IF x \in gone THEN Empty ELSE t.slots[x]
    BY <1>10
  <2> QED
    BY <1>10, <2>1, <2>2 DEF LoadedKeys, HasSlot
<1>12. RecentOK(u)
  <2>1. LoadedKeys(u) \subseteq ToSet(lru)
    <3>1. LoadedKeys(t) \subseteq Keys
      BY DEF LoadedKeys
    <3> QED
      BY <3>1, <1>4, <1>8, <1>11
  <2> QED
    BY <2>1, <1>7, <1>8, <1>10, <1>11 DEF RecentOK
<1>13. \A x \in Keys : u.slots[x] = t.slots[x] \/ (u.slots[x] = Empty /\ x # act)
  BY <1>7, <1>10
<1> QED
  BY <1>10, <1>12, <1>13

-----------------------------------------------------------------------------
(* The inductive invariant: what a tree, the fetches and the context in    *)
(* force have to do with each other.                                       *)

PaintedIn(t, c) == t.lists[c].from = "cache"

(* A loading row waits for a fetch of its own that is still to answer.     *)
RowOK(f, c, x, row) ==
    /\ row.from = "server" => row.ctx = c
    /\ row.from = "cache" => row.st = "loaded"
    /\ row.st = "loading" =>
         /\ row.gen \in DOMAIN f
         /\ f[row.gen].kind = "list" /\ f[row.gen].key[1] = x /\ f[row.gen].ctx = c
         /\ f[row.gen].live = "pending"

(* So does a loading slot, unless its list was painted over the fallback   *)
(* (row is the list's), and its fetch is the newest of its key.                 *)
SlotOK(f, c, k, slot, row) ==
    /\ slot.from = "server" => slot.ctx = c
    /\ slot.st = "loading" =>
         /\ slot.gen \in DOMAIN f
         /\ f[slot.gen].kind = "schema" /\ f[slot.gen].key = k /\ f[slot.gen].ctx = c
         /\ row.from # "cache" => f[slot.gen].live = "pending" /\ ~f[slot.gen].served
    /\ slot.st # "none" /\ row.from # "cache" =>
         \A g \in DOMAIN f : f[g].key = k /\ f[g].ctx = c => slot.gen >= g

TreeBut(t, f, c) ==
    /\ \A k \in Keys : t.slots[k].st # "none" => HasSlot(t, k)
    /\ \A x \in Conns : RowOK(f, c, x, t.lists[x])
    /\ \A k \in Keys : SlotOK(f, c, k, t.slots[k], t.lists[k[1]])
    /\ t.fallback # Nil => SlotOK(f, c, t.fallback.key, t.fallback.slot, t.lists[t.fallback.key[1]])

(* The fallback's schema has no place in its list but one it was painted   *)
(* with.                                                                   *)
FallbackOK(t) ==
    t.fallback # Nil /\ HasSlot(t, t.fallback.key) => PaintedIn(t, t.fallback.key[1])

TreeOK(t, f, c) == TreeBut(t, f, c) /\ FallbackOK(t)

LEMMA KeyParts ==
    ASSUME NEW k \in Keys
    PROVE  k[1] \in Conns /\ k[2] \in Dbs /\ k = <<k[1], k[2]>>
<1> QED
  BY DEF Keys

(* An emptied slot breaks nothing.                                         *)
LEMMA EvictedOK ==
    ASSUME NEW t, NEW u, NEW f, NEW c, TreeBut(t, f, c),
           u.lists = t.lists, u.fallback = t.fallback,
           \A x \in Keys : u.slots[x] = t.slots[x] \/ u.slots[x] = Empty
    PROVE  TreeBut(u, f, c) /\ (FallbackOK(t) => FallbackOK(u))
<1>1. Empty.st = "none" /\ Empty.from = "none"
  BY DEF Empty
<1>2. \A k, row : SlotOK(f, c, k, Empty, row)
  BY <1>1 DEF SlotOK
<1>3. \A k : HasSlot(u, k) = HasSlot(t, k) /\ PaintedIn(u, k[1]) = PaintedIn(t, k[1])
  BY DEF HasSlot, PaintedIn
<1>4. ASSUME NEW k \in Keys
      PROVE  /\ u.slots[k].st # "none" => HasSlot(u, k)
             /\ SlotOK(f, c, k, u.slots[k], u.lists[k[1]])
  <2>1. CASE u.slots[k] = Empty
    BY <2>1, <1>1, <1>2
  <2>2. CASE u.slots[k] = t.slots[k]
    BY <2>2, <1>3 DEF TreeBut
  <2> QED
    BY <2>1, <2>2
<1>5. TreeBut(u, f, c)
  <2>1. u.fallback # Nil =>
          SlotOK(f, c, u.fallback.key, u.fallback.slot, u.lists[u.fallback.key[1]])
    BY <1>3 DEF TreeBut
  <2>2. \A x \in Conns : RowOK(f, c, x, u.lists[x])
    BY DEF TreeBut
  <2> QED
    BY <1>4, <2>1, <2>2 DEF TreeBut
<1>6. FallbackOK(t) => FallbackOK(u)
  BY <1>3 DEF FallbackOK
<1> QED
  BY <1>5, <1>6

(* The fetches, when g is answered or served.                              *)
Marked(f, g, e) ==
    /\ DOMAIN e = DOMAIN f
    /\ \A i \in DOMAIN f : i # g => e[i] = f[i]
    /\ e[g].kind = f[g].kind /\ e[g].key = f[g].key /\ e[g].ctx = f[g].ctx

(* What nobody waits for g with is as it was.                              *)
LEMMA SlotStays ==
    ASSUME NEW f, NEW g, NEW e, Marked(f, g, e), NEW c, NEW k, NEW slot, NEW row,
           SlotOK(f, c, k, slot, row), ~Awaits(slot, g) \/ row.from = "cache"
    PROVE  SlotOK(e, c, k, slot, row)
<1>1. \A i \in DOMAIN e : i \in DOMAIN f /\ e[i].key = f[i].key /\ e[i].ctx = f[i].ctx /\ e[i].kind = f[i].kind
  BY DEF Marked
<1>2. slot.st # "none" /\ row.from # "cache" => \A i \in DOMAIN e : e[i].key = k /\ e[i].ctx = c => slot.gen >= i
  BY <1>1 DEF SlotOK
<1>3. ASSUME slot.st = "loading"
      PROVE  /\ slot.gen \in DOMAIN e
             /\ e[slot.gen].kind = "schema" /\ e[slot.gen].key = k /\ e[slot.gen].ctx = c
             /\ row.from # "cache" => e[slot.gen].live = "pending" /\ ~e[slot.gen].served
  <2>1. /\ slot.gen \in DOMAIN f
        /\ f[slot.gen].kind = "schema" /\ f[slot.gen].key = k /\ f[slot.gen].ctx = c
        /\ row.from # "cache" => f[slot.gen].live = "pending" /\ ~f[slot.gen].served
    BY <1>3 DEF SlotOK
  <2>2. row.from # "cache" => slot.gen # g
    BY <1>3 DEF Awaits
  <2>3. slot.gen # g => e[slot.gen] = f[slot.gen]
    BY <2>1 DEF Marked
  <2>4. slot.gen \in DOMAIN e
    BY <2>1 DEF Marked
  <2> QED
    BY <1>1, <2>1, <2>2, <2>3, <2>4
<1> QED
  BY <1>2, <1>3 DEF SlotOK

LEMMA RowStays ==
    ASSUME NEW f, NEW g, NEW e, Marked(f, g, e), NEW c, NEW x, NEW row,
           RowOK(f, c, x, row), ~Awaits(row, g)
    PROVE  RowOK(e, c, x, row)
<1> QED
  BY DEF RowOK, Awaits, Marked

(* The answers there are: of the server, in the context it was asked in,   *)
(* of the cache, or none.                                                  *)
Replies(c) == {Reply("server", c), Failure} \cup {Reply("cache", x) : x \in 0 .. MaxSwaps}

LEMMA AnswersAre ==
    ASSUME NEW c, NEW a \in Replies(c)
    PROVE  /\ a.st \in {"loaded", "error"} /\ a.from \in Sources
           /\ a.from = "server" => a.ctx = c
           /\ c \in 0 .. MaxSwaps => a.ctx \in 0 .. MaxSwaps
<1>1. CASE a = Reply("server", c)
  BY <1>1 DEF Reply, Sources
<1>2. CASE a = Failure
  BY <1>2, SidebarAssumption DEF Failure, Sources
<1>3. ASSUME NEW x \in 0 .. MaxSwaps, a = Reply("cache", x) PROVE a.st = "loaded" /\ a.from = "cache" /\ a.ctx = x
  BY <1>3 DEF Reply
<1> QED
  BY <1>1, <1>2, <1>3 DEF Replies, Sources

(* A slot that is settled, or not awaited, is as it should be.             *)
LEMMA SettledOK ==
    ASSUME NEW f \in Seq(Fetches), Len(f) <= MaxFetches, NEW g \in DOMAIN f, NEW e, Marked(f, g, e),
           NEW c, NEW k, NEW slot \in Slots, NEW row, SlotOK(f, c, k, slot, row),
           NEW a \in Replies(f[g].ctx), NEW s, s = Settle(slot, g, a)
    PROVE  /\ s \in Slots /\ SlotOK(e, c, k, s, row)
           /\ (s.st = "none") <=> (slot.st = "none")
           /\ slot.st = "loaded" => s = slot
<1>1. CASE ~Awaits(slot, g)
  <2>1. s = slot
    BY <1>1 DEF Settle
  <2> QED
    BY <1>1, <2>1, SlotStays
<1>2. CASE Awaits(slot, g)
  <2>0. slot.st = "loading" /\ slot.gen = g /\ s = Filled(g, a)
    BY <1>2 DEF Awaits, Settle
  <2>1. s = [st |-> a.st, gen |-> g, from |-> a.from, ctx |-> a.ctx]
    BY <2>0 DEF Filled
  <2>2. f[g].ctx \in 0 .. MaxSwaps /\ g \in 0 .. MaxFetches /\ f[g].ctx = c
    <3>1. DOMAIN f = 1 .. Len(f) /\ Len(f) \in Nat /\ MaxFetches \in Nat
      BY LenProperties, SidebarAssumption
    <3>2. f[g] \in Fetches
      BY <3>1, ElementOfSeq
    <3> QED
      BY <2>0, <3>1, <3>2 DEF Fetches, SlotOK
  <2>3. /\ a.st \in {"loaded", "error"} /\ a.from \in Sources
        /\ a.from = "server" => a.ctx = c
        /\ a.ctx \in 0 .. MaxSwaps
    <3> HIDE DEF Replies
    <3> QED
      BY <2>2, AnswersAre
  <2>4. s \in Slots
    BY <2>1, <2>2, <2>3 DEF Slots, SlotStates
  <2>5. s.st = a.st /\ s.gen = g /\ s.from = a.from /\ s.ctx = a.ctx
    BY <2>1
  <2>6. row.from # "cache" => \A i \in DOMAIN e : e[i].key = k /\ e[i].ctx = c => s.gen >= i
    <3>1. row.from # "cache" => \A i \in DOMAIN f : f[i].key = k /\ f[i].ctx = c => slot.gen >= i
      BY <2>0 DEF SlotOK
    <3>2. \A i \in DOMAIN e : i \in DOMAIN f /\ e[i].key = f[i].key /\ e[i].ctx = f[i].ctx
      BY DEF Marked
    <3> QED
      BY <2>0, <2>5, <3>1, <3>2
  <2>7. SlotOK(e, c, k, s, row)
    BY <2>3, <2>5, <2>6 DEF SlotOK
  <2> QED
    BY <2>0, <2>3, <2>4, <2>5, <2>7
<1> QED
  BY <1>1, <1>2

-----------------------------------------------------------------------------
(* Answers land. *)

(* The schema of act, once there, is there still.                          *)
Stays(t, u, act) ==
    act \in Keys /\ Shown(t, act).st = "loaded" /\ ~PaintedIn(t, act[1]) => Shown(u, act).st = "loaded"

LEMMA ShownIs ==
    ASSUME NEW t, NEW k
    PROVE  /\ HasSlot(t, k) => Shown(t, k) = t.slots[k]
           /\ ~HasSlot(t, k) /\ HasFallback(t, k) => Shown(t, k) = t.fallback.slot
           /\ ~HasSlot(t, k) /\ ~HasFallback(t, k) => Shown(t, k) = Empty
<1> QED
  BY DEF Shown

(* finish_schema_fetch and apply_schema_result.                            *)
LEMMA FinishSchemaOK ==
    ASSUME NEW t \in Trees, NEW f \in Seq(Fetches), Len(f) <= MaxFetches, NEW g \in DOMAIN f,
           NEW e, Marked(f, g, e), NEW c, TreeOK(t, f, c), RecentOK(t),
           NEW k \in Keys, f[g].key = k, f[g].kind = "schema",
           NEW act, NEW a \in Replies(f[g].ctx), NEW u, u = FinishSchema(t, act, k, g, a)
    PROVE  u \in Trees /\ TreeOK(u, e, c) /\ RecentOK(u) /\ Stays(t, u, act)
<1>0. /\ t.lists \in [Conns -> Rows] /\ t.slots \in [Keys -> Slots] /\ t.lru \in Seq(Keys)
      /\ t.fallback # Nil => t.fallback.key \in Keys /\ t.fallback.slot \in Slots
  BY TreeParts
<1>1. /\ \A x \in Keys : t.slots[x].st # "none" => HasSlot(t, x)
      /\ \A x \in Conns : RowOK(f, c, x, t.lists[x])
      /\ \A x \in Keys : SlotOK(f, c, x, t.slots[x], t.lists[x[1]])
      /\ t.fallback # Nil => SlotOK(f, c, t.fallback.key, t.fallback.slot, t.lists[t.fallback.key[1]])
      /\ FallbackOK(t)
  BY DEF TreeOK, TreeBut
<1>2. \A x \in Conns : RowOK(e, c, x, t.lists[x])
  <2> SUFFICES ASSUME NEW x \in Conns PROVE RowOK(e, c, x, t.lists[x])
    OBVIOUS
  <2>1. RowOK(f, c, x, t.lists[x])
    BY <1>1
  <2>2. ~Awaits(t.lists[x], g)
    BY <2>1 DEF RowOK, Awaits
  <2> QED
    BY <2>1, <2>2, RowStays
<1>3. ASSUME NEW x \in Keys, x # k PROVE SlotOK(e, c, x, t.slots[x], t.lists[x[1]])
  <2>1. SlotOK(f, c, x, t.slots[x], t.lists[x[1]])
    BY <1>1
  <2>2. ~Awaits(t.slots[x], g)
    BY <2>1, <1>3 DEF SlotOK, Awaits
  <2> QED
    BY <2>1, <2>2, SlotStays
<1>4. ASSUME t.fallback # Nil, t.fallback.key # k \/ HasSlot(t, k)
      PROVE  SlotOK(e, c, t.fallback.key, t.fallback.slot, t.lists[t.fallback.key[1]])
  <2>1. SlotOK(f, c, t.fallback.key, t.fallback.slot, t.lists[t.fallback.key[1]])
    BY <1>1, <1>4
  <2>2. CASE t.fallback.key # k
    <3>1. ~Awaits(t.fallback.slot, g)
      BY <2>1, <2>2 DEF SlotOK, Awaits
    <3> QED
      BY <2>1, <3>1, SlotStays
  <2>3. CASE t.fallback.key = k
    <3>1. PaintedIn(t, t.fallback.key[1])
      BY <1>1, <1>4, <2>3 DEF FallbackOK
    <3>2. t.lists[t.fallback.key[1]].from = "cache"
      BY <3>1 DEF PaintedIn
    <3> QED
      BY <2>1, <3>2, SlotStays
  <2> QED
    BY <2>2, <2>3
<1>5. CASE HasSlot(t, k)
  <2> DEFINE s == Settle(t.slots[k], g, a)
             v == [t EXCEPT !.slots[k] = s]
  <2>1. u = TouchAndEvict(v, k, act)
    <3>1. [t EXCEPT !.slots[k] = Settle(@, g, a)] = v
      OBVIOUS
    <3> HIDE DEF v
    <3> QED
      BY <1>5, <3>1 DEF FinishSchema
  <2>2. /\ s \in Slots /\ SlotOK(e, c, k, s, t.lists[k[1]])
        /\ (s.st = "none") <=> (t.slots[k].st = "none")
        /\ t.slots[k].st = "loaded" => s = t.slots[k]
    <3>1. t.slots[k] \in Slots
      BY <1>0
    <3>2. SlotOK(f, c, k, t.slots[k], t.lists[k[1]])
      BY <1>1
    <3>3. s = Settle(t.slots[k], g, a)
      OBVIOUS
    <3> HIDE DEF s
    <3> DEFINE sl == t.slots[k]
               row == t.lists[k[1]]
    <3>4. sl \in Slots /\ SlotOK(f, c, k, sl, row) /\ s = Settle(sl, g, a)
      BY <3>1, <3>2, <3>3
    <3> HIDE DEF sl, row
    <3>5. /\ s \in Slots /\ SlotOK(e, c, k, s, row)
          /\ (s.st = "none") <=> (sl.st = "none")
          /\ sl.st = "loaded" => s = sl
      BY <3>4, SettledOK
    <3> QED
      BY <3>5 DEF sl, row
  <2> HIDE DEF s
  <2>3. /\ v \in Trees /\ v.lists = t.lists /\ v.fallback = t.fallback /\ v.lru = t.lru
        /\ v.slots[k] = s /\ \A x \in Keys : x # k => v.slots[x] = t.slots[x]
    <3>1. s \in Slots
      BY <2>2
    <3> HIDE DEF v
    <3>2. v = [t EXCEPT !.slots[k] = s]
      BY DEF v
    <3>3. t.slots \in [Keys -> Slots]
      BY <1>0
    <3>4. [t.slots EXCEPT ![k] = s] \in [Keys -> Slots]
      BY <3>1, <3>3
    <3> QED
      BY ONLY t \in Trees, k \in Keys, <3>1, <3>2, <3>3, <3>4 DEF Trees
  <2> HIDE DEF v
  <2>4. \A x : HasSlot(v, x) = HasSlot(t, x) /\ PaintedIn(v, x[1]) = PaintedIn(t, x[1])
    BY <2>3 DEF HasSlot, PaintedIn
  <2>5. TreeBut(v, e, c) /\ FallbackOK(v)
    <3>1. ASSUME NEW x \in Keys
          PROVE  /\ v.slots[x].st # "none" => HasSlot(v, x)
                 /\ SlotOK(e, c, x, v.slots[x], v.lists[x[1]])
      <4>1. CASE x = k
        BY <4>1, <1>5, <2>2, <2>3, <2>4
      <4>2. CASE x # k
        BY <4>2, <1>1, <1>3, <2>3, <2>4
      <4> QED
        BY <4>1, <4>2
    <3>2. v.fallback # Nil =>
            SlotOK(e, c, v.fallback.key, v.fallback.slot, v.lists[v.fallback.key[1]])
      BY <1>4, <1>5, <2>3, <2>4
    <3>3. FallbackOK(v)
      BY <1>1, <2>3, <2>4 DEF FallbackOK
    <3>4. \A x \in Conns : RowOK(e, c, x, v.lists[x])
      BY <1>2, <2>3
    <3> QED
      BY <3>1, <3>2, <3>3, <3>4 DEF TreeBut
  <2>6. Distinct(v.lru) /\ LoadedKeys(v) \subseteq ToSet(v.lru) \cup {k}
    <3>1. LoadedKeys(v) \subseteq LoadedKeys(t) \cup {k}
      BY <2>3, <2>4 DEF LoadedKeys
    <3> QED
      BY <3>1, <2>3 DEF RecentOK
  <2>7. /\ u \in Trees /\ u.lists = v.lists /\ u.fallback = v.fallback
        /\ \A x \in Keys : u.slots[x] = v.slots[x] \/ (u.slots[x] = Empty /\ x # act)
        /\ RecentOK(u)
    BY <2>1, <2>3, <2>6, TouchAndEvictIs
  <2>8. TreeOK(u, e, c)
    BY <2>5, <2>7, EvictedOK DEF TreeOK
  <2>9. Stays(t, u, act)
    <3> SUFFICES ASSUME act \in Keys, Shown(t, act).st = "loaded" PROVE Shown(u, act).st = "loaded"
      BY DEF Stays
    <3>1. u.slots[act] = v.slots[act] /\ HasSlot(u, act) = HasSlot(t, act)
          /\ HasFallback(u, act) = HasFallback(t, act) /\ u.fallback = t.fallback
      BY <2>3, <2>7 DEF HasSlot, HasFallback
    <3>2. CASE HasSlot(t, act)
      <4>1. t.slots[act].st = "loaded"
        BY <3>2, ShownIs
      <4>2. v.slots[act] = t.slots[act]
        BY <4>1, <2>2, <2>3
      <4> QED
        BY <3>1, <3>2, <4>1, <4>2, ShownIs
    <3>3. CASE ~HasSlot(t, act)
      BY <3>1, <3>3 DEF Shown
    <3> QED
      BY <3>2, <3>3
  <2> QED
    BY <2>7, <2>8, <2>9
<1>6. CASE ~HasSlot(t, k) /\ HasFallback(t, k)
  <2> DEFINE s == Settle(t.fallback.slot, g, a)
             fb == [key |-> k, slot |-> s]
  <2>0. t.fallback # Nil /\ t.fallback.key = k
    BY <1>6 DEF HasFallback
  <2>2. /\ s \in Slots /\ SlotOK(e, c, k, s, t.lists[k[1]])
        /\ t.fallback.slot.st = "loaded" => s = t.fallback.slot
    <3>1. SlotOK(f, c, k, t.fallback.slot, t.lists[k[1]]) /\ t.fallback.slot \in Slots
      BY <1>0, <1>1, <2>0
    <3> QED
      BY <3>1, SettledOK
  <2> HIDE DEF s
  <2>1. u = [t EXCEPT !.fallback = fb]
    <3>1. t.fallback \in [key : Keys, slot : Slots]
      BY <2>0 DEF Trees
    <3>2. [t.fallback EXCEPT !.slot = s] = fb
      BY <3>1, <2>0
    <3>3. u = [t EXCEPT !.fallback.slot = s]
      BY <1>6 DEF FinishSchema, s
    <3> QED
      BY <3>2, <3>3 DEF Trees
  <2>3. u \in Trees /\ u.lists = t.lists /\ u.slots = t.slots /\ u.lru = t.lru /\ u.fallback = fb
    <3>1. fb \in {Nil} \cup [key : Keys, slot : Slots]
      BY <2>2
    <3> HIDE DEF fb
    <3> QED
      BY <2>1, <3>1, WithFallback
  <2>4. \A x : HasSlot(u, x) = HasSlot(t, x) /\ PaintedIn(u, x[1]) = PaintedIn(t, x[1])
    BY <2>3 DEF HasSlot, PaintedIn
  <2>5. TreeOK(u, e, c)
    <3>1. \A x \in Keys : /\ u.slots[x].st # "none" => HasSlot(u, x)
                          /\ SlotOK(e, c, x, u.slots[x], u.lists[x[1]])
      <4> SUFFICES ASSUME NEW x \in Keys
                   PROVE  /\ u.slots[x].st # "none" => HasSlot(u, x)
                          /\ SlotOK(e, c, x, u.slots[x], u.lists[x[1]])
        OBVIOUS
      <4>1. CASE x = k
        <5>1. u.slots[x].st = "none" /\ SlotOK(f, c, x, t.slots[x], t.lists[x[1]])
          BY <4>1, <1>1, <1>6, <2>3
        <5>2. ~Awaits(t.slots[x], g)
          BY <5>1, <2>3 DEF Awaits, PaintedIn
        <5> QED
          BY <5>1, <5>2, <2>3, <2>4, SlotStays
      <4>2. CASE x # k
        BY <4>2, <1>1, <1>3, <2>3, <2>4
      <4> QED
        BY <4>1, <4>2
    <3>2. u.fallback.key = k /\ u.fallback.slot = s
      BY <2>3
    <3>3. FallbackOK(u)
      BY <1>6, <2>4, <3>2 DEF FallbackOK
    <3>4. SlotOK(e, c, u.fallback.key, u.fallback.slot, u.lists[u.fallback.key[1]])
      BY <2>2, <2>3, <3>2
    <3>5. \A x \in Conns : RowOK(e, c, x, u.lists[x])
      BY <1>2, <2>3
    <3> QED
      BY <3>1, <3>3, <3>4, <3>5 DEF TreeOK, TreeBut
  <2>6. RecentOK(u)
    <3>1. LoadedKeys(u) = LoadedKeys(t)
      BY <2>3, <2>4 DEF LoadedKeys
    <3> QED
      BY <3>1, <2>3 DEF RecentOK
  <2>7. Stays(t, u, act)
    <3> SUFFICES ASSUME act \in Keys, Shown(t, act).st = "loaded" PROVE Shown(u, act).st = "loaded"
      BY DEF Stays
    <3>1. CASE HasSlot(t, act)
      BY <3>1, <2>3, <2>4, ShownIs
    <3>2. CASE ~HasSlot(t, act)
      <4>1. HasFallback(t, act) /\ t.fallback.slot.st = "loaded"
        BY <3>2, ShownIs DEF Empty
      <4>2. u.fallback.key = t.fallback.key /\ u.fallback.slot = t.fallback.slot /\ u.fallback # Nil
        <5>1. fb.key = k /\ fb.slot = s
          OBVIOUS
        <5>2. fb # Nil
          <6>1. Nil \notin [key : Keys, slot : Slots] \/ t.fallback # Nil
            BY <2>0
          <6> QED
            BY <4>1, <2>0, <2>2, <1>0, <2>3 DEF Trees
        <5> QED
          BY <4>1, <2>0, <2>2, <2>3, <5>1, <5>2
      <4> QED
        BY <3>2, <4>1, <4>2, <2>4, ShownIs DEF HasFallback
    <3> QED
      BY <3>1, <3>2
  <2> QED
    BY <2>3, <2>5, <2>6, <2>7
<1>7. CASE ~HasSlot(t, k) /\ ~HasFallback(t, k)
  <2>1. u = t
    BY <1>7 DEF FinishSchema
  <2>2. SlotOK(e, c, k, t.slots[k], t.lists[k[1]])
    <3>1. t.slots[k].st = "none" /\ SlotOK(f, c, k, t.slots[k], t.lists[k[1]])
      BY <1>1, <1>7
    <3>2. ~Awaits(t.slots[k], g)
      BY <3>1 DEF Awaits, PaintedIn
    <3> QED
      BY <3>1, <3>2, SlotStays
  <2>3. TreeOK(t, e, c)
    <3>1. t.fallback # Nil => t.fallback.key # k
      BY <1>7 DEF HasFallback
    <3>2. \A x \in Keys : SlotOK(e, c, x, t.slots[x], t.lists[x[1]])
      BY <1>3, <2>2
    <3> QED
      BY <1>1, <1>2, <1>4, <3>1, <3>2 DEF TreeOK, TreeBut
  <2> QED
    BY <2>1, <2>3 DEF Stays
<1> QED
  BY <1>5, <1>6, <1>7

LEMMA RecentShrinks ==
    ASSUME NEW t \in Trees, NEW u, RecentOK(t), u.lru = t.lru, LoadedKeys(u) \subseteq LoadedKeys(t)
    PROVE  RecentOK(u)
<1>1. t.lru \in Seq(Keys) /\ Cap \in Nat
  BY TreeParts, SidebarAssumption
<1>2. IsFiniteSet(ToSet(t.lru))
  BY <1>1, DistinctCount DEF RecentOK
<1>3. IsFiniteSet(LoadedKeys(t)) /\ Cardinality(LoadedKeys(t)) \in Nat
  BY <1>2, FS_Subset, FS_CardinalityType DEF RecentOK
<1>4. Cardinality(LoadedKeys(u)) <= Cardinality(LoadedKeys(t)) /\ Cardinality(LoadedKeys(u)) \in Nat
  BY <1>3, FS_Subset, FS_CardinalityType
<1> QED
  BY <1>1, <1>3, <1>4 DEF RecentOK

(* migrate_fallback: the fallback's schema finds its place, and the active *)
(* one is not lost on the way.                                             *)
LEMMA MigrateFallbackOK ==
    ASSUME NEW t \in Trees, NEW f, NEW c, TreeBut(t, f, c), RecentOK(t), NEW x \in Conns,
           t.fallback # Nil /\ HasSlot(t, t.fallback.key) /\ t.fallback.key[1] # x
             => PaintedIn(t, t.fallback.key[1]),
           NEW act, NEW u, u = MigrateFallback(t, act, x)
    PROVE  /\ u \in Trees /\ TreeOK(u, f, c) /\ RecentOK(u)
           /\ act \in Keys /\ HasSlot(t, act) /\ t.slots[act].st = "loaded" /\ ~HasFallback(t, act)
                => Shown(u, act).st = "loaded"
           /\ act \in Keys /\ HasFallback(t, act) /\ t.fallback.slot.st = "loaded"
                /\ (act[1] = x \/ ~HasSlot(t, act)) => Shown(u, act).st = "loaded"
<1> DEFINE k == t.fallback.key
<1>0. /\ t.slots \in [Keys -> Slots]
      /\ t.fallback # Nil => k \in Keys /\ t.fallback.slot \in Slots
  BY TreeParts
<1>1. CASE ~(t.fallback # Nil /\ k[1] = x /\ HasSlot(t, k))
  <2>1. u = t
    BY <1>1 DEF MigrateFallback
  <2>2. FallbackOK(t)
    BY <1>1 DEF FallbackOK
  <2>3. HasFallback(t, act) /\ HasSlot(t, act) => act[1] # x
    BY <1>1 DEF HasFallback
  <2> QED
    BY <2>1, <2>2, <2>3, ShownIs DEF TreeOK
<1>2. CASE t.fallback # Nil /\ k[1] = x /\ HasSlot(t, k)
  <2> DEFINE slots == [t.slots EXCEPT ![k] = t.fallback.slot]
             v == [t EXCEPT !.slots[k] = t.fallback.slot, !.fallback = Nil]
  <2>1. slots \in [Keys -> Slots] /\ k \in Keys
    BY <1>0, <1>2
  <2>2. /\ v \in Trees /\ v.lists = t.lists /\ v.fallback = Nil /\ v.lru = t.lru /\ v.slots = slots
    <3>1. v = [t EXCEPT !.slots = slots, !.fallback = Nil]
      BY DEF Trees
    <3> HIDE DEF v, slots, k
    <3> QED
      BY ONLY t \in Trees, <2>1, <3>1 DEF Trees
  <2>3. u = IF t.fallback.slot.st = "loaded" THEN TouchAndEvict(v, k, act) ELSE v
    <3> HIDE DEF v
    <3> USE DEF v
    <3> QED
      BY <1>2 DEF MigrateFallback
  <2>4. v.slots[k] = t.fallback.slot /\ \A y \in Keys : y # k => v.slots[y] = t.slots[y]
    BY <1>0, <2>1, <2>2
  <2> HIDE DEF v, slots
  <2>5. \A y : HasSlot(v, y) = HasSlot(t, y)
    BY <2>2 DEF HasSlot
  <2>6. TreeOK(v, f, c)
    <3>1. ASSUME NEW y \in Keys
          PROVE  /\ v.slots[y].st # "none" => HasSlot(v, y)
                 /\ SlotOK(f, c, y, v.slots[y], v.lists[y[1]])
      <4>1. CASE y = k
        <5>1. SlotOK(f, c, k, t.fallback.slot, t.lists[k[1]])
          BY <1>2 DEF TreeBut
        <5> HIDE DEF k
        <5> QED
          BY <4>1, <5>1, <1>2, <2>2, <2>4, <2>5
      <4>2. CASE y # k
        BY <4>2, <2>2, <2>4, <2>5 DEF TreeBut
      <4> QED
        BY <4>1, <4>2
    <3>2. \A y \in Conns : RowOK(f, c, y, v.lists[y])
      BY <2>2 DEF TreeBut
    <3>3. FallbackOK(v)
      BY <2>2 DEF FallbackOK
    <3> QED
      BY <2>2, <3>1, <3>2, <3>3 DEF TreeOK, TreeBut
  <2>7. act \in Keys /\ act # k /\ HasSlot(t, act) => v.slots[act] = t.slots[act]
    BY <2>4
  <2>8. HasFallback(t, act) => act = k
    BY DEF HasFallback
  <2>9. CASE t.fallback.slot.st # "loaded"
    <3>1. u = v
      BY <2>3, <2>9
    <3>2. RecentOK(v)
      <4>1. LoadedKeys(v) \subseteq LoadedKeys(t)
        <5> HIDE DEF k
        <5> QED
          BY <2>4, <2>5, <2>9 DEF LoadedKeys
      <4> QED
        BY <4>1, <2>2, RecentShrinks
    <3>3. act \in Keys /\ HasSlot(t, act) /\ t.slots[act].st = "loaded" /\ ~HasFallback(t, act)
                => Shown(v, act).st = "loaded"
      <4>1. ~HasFallback(t, act) => act # k
        BY <1>2 DEF HasFallback
      <4> QED
        BY <4>1, <2>5, <2>7, ShownIs
    <3> QED
      BY <2>2, <2>6, <2>9, <3>1, <3>2, <3>3
  <2>10. CASE t.fallback.slot.st = "loaded"
    <3>1. u = TouchAndEvict(v, k, act)
      BY <2>3, <2>10
    <3>2. Distinct(v.lru) /\ LoadedKeys(v) \subseteq ToSet(v.lru) \cup {k}
      <4>1. LoadedKeys(v) \subseteq LoadedKeys(t) \cup {k}
        <5> HIDE DEF k
        <5> QED
          BY <2>4, <2>5 DEF LoadedKeys
      <4> QED
        BY <4>1, <2>2 DEF RecentOK
    <3>3. /\ u \in Trees /\ u.lists = v.lists /\ u.fallback = v.fallback
          /\ \A y \in Keys : u.slots[y] = v.slots[y] \/ (u.slots[y] = Empty /\ y # act)
          /\ RecentOK(u)
      <4> HIDE DEF k
      <4> QED
        BY <2>1, <2>2, <3>1, <3>2, TouchAndEvictIs
    <3>4. TreeOK(u, f, c)
      BY <2>6, <3>3, EvictedOK DEF TreeOK
    <3>5. act \in Keys => u.slots[act] = v.slots[act] /\ HasSlot(u, act) = HasSlot(t, act)
      BY <2>2, <3>3 DEF HasSlot
    <3>6. act \in Keys /\ HasSlot(t, act) /\ t.slots[act].st = "loaded" => Shown(u, act).st = "loaded"
      <4>1. CASE act = k
        <5> SUFFICES ASSUME act \in Keys, HasSlot(t, act) PROVE Shown(u, act).st = "loaded"
          BY <4>1
        <5>1. v.slots[act] = t.fallback.slot
          BY <4>1, <2>4
        <5>2. HasSlot(u, act) /\ u.slots[act].st = "loaded"
          BY <5>1, <2>10, <3>5
        <5> QED
          BY <5>2, ShownIs
      <4>2. CASE act # k
        BY <4>2, <2>7, <3>5, ShownIs
      <4> QED
        BY <4>1, <4>2
    <3>7. act \in Keys /\ HasFallback(t, act) => Shown(u, act).st = "loaded"
      BY <1>2, <2>4, <2>8, <2>10, <3>5, ShownIs
    <3> QED
      BY <3>3, <3>4, <3>6, <3>7
  <2> QED
    BY <2>9, <2>10
<1> QED
  BY <1>1, <1>2

NameSets == SUBSET Dbs

(* finish_db_list_fetch and apply_db_list_result.                          *)
LEMMA FinishDbListOK ==
    ASSUME NEW t \in Trees, NEW f \in Seq(Fetches), Len(f) <= MaxFetches, NEW g \in DOMAIN f,
           NEW e, Marked(f, g, e), NEW c, TreeOK(t, f, c), RecentOK(t),
           NEW x \in Conns, f[g].key[1] = x, f[g].kind = "list",
           NEW act, NEW a \in Replies(f[g].ctx), a.from # "cache", NEW names \in NameSets,
           NEW u, u = FinishDbList(t, act, x, g, a, names)
    PROVE  u \in Trees /\ TreeOK(u, e, c) /\ RecentOK(u) /\ Stays(t, u, act)
<1> DEFINE row == [st |-> a.st, gen |-> g, from |-> a.from, ctx |-> a.ctx, names |-> names]
           lists == [t.lists EXCEPT ![x] = row]
           v == IF Awaits(t.lists[x], g) THEN [t EXCEPT !.lists[x] = row] ELSE t
<1>0. /\ t.lists \in [Conns -> Rows]
      /\ t.fallback # Nil => t.fallback.key \in Keys
  BY TreeParts
<1>1. /\ \A k \in Keys : t.slots[k].st # "none" => HasSlot(t, k)
      /\ \A y \in Conns : RowOK(f, c, y, t.lists[y])
      /\ \A k \in Keys : SlotOK(f, c, k, t.slots[k], t.lists[k[1]])
      /\ t.fallback # Nil => SlotOK(f, c, t.fallback.key, t.fallback.slot, t.lists[t.fallback.key[1]])
      /\ FallbackOK(t)
  BY DEF TreeOK, TreeBut
<1>2. u = MigrateFallback(v, act, x)
  BY DEF FinishDbList
<1>3. /\ a.st \in {"loaded", "error"} /\ a.from \in Sources
      /\ a.from = "server" => a.ctx = f[g].ctx
      /\ a.ctx \in 0 .. MaxSwaps /\ g \in 0 .. MaxFetches
  <2>1. DOMAIN f = 1 .. Len(f) /\ Len(f) \in Nat /\ MaxFetches \in Nat
    BY LenProperties, SidebarAssumption
  <2>2. f[g] \in Fetches
    BY <2>1, ElementOfSeq
  <2>3. f[g].ctx \in 0 .. MaxSwaps
    BY <2>2 DEF Fetches
  <2> HIDE DEF Replies
  <2> QED
    BY <2>1, <2>3, AnswersAre
<1>4. row \in Rows
  BY <1>3 DEF Rows, SlotStates, NameSets
<1>5. /\ row.st = a.st /\ row.gen = g /\ row.from = a.from /\ row.ctx = a.ctx
  OBVIOUS
<1> HIDE DEF row
<1>6. /\ v \in Trees /\ v.fallback = t.fallback /\ v.lru = t.lru /\ v.slots = t.slots
      /\ v.lists[x] = IF Awaits(t.lists[x], g) THEN row ELSE t.lists[x]
      /\ \A y \in Conns : y # x => v.lists[y] = t.lists[y]
  <2>1. CASE Awaits(t.lists[x], g)
    <3>1. lists \in [Conns -> Rows]
      BY <1>0, <1>4
    <3>2. [t EXCEPT !.lists[x] = row] = [t EXCEPT !.lists = lists]
      BY DEF Trees
    <3>3. v = [t EXCEPT !.lists = lists]
      BY <2>1, <3>2
    <3>4. lists[x] = row /\ \A y \in Conns : y # x => lists[y] = t.lists[y]
      BY <1>0
    <3> HIDE DEF v, lists
    <3>5. v \in Trees /\ v.fallback = t.fallback /\ v.lru = t.lru /\ v.slots = t.slots /\ v.lists = lists
      BY ONLY t \in Trees, <3>1, <3>3 DEF Trees
    <3> QED
      BY <2>1, <3>4, <3>5
  <2>2. CASE ~Awaits(t.lists[x], g)
    BY <2>2
  <2> QED
    BY <2>1, <2>2
<1> HIDE DEF v, lists
<1>7. Awaits(t.lists[x], g) => /\ t.lists[x].st = "loading" /\ t.lists[x].from # "cache"
                               /\ f[g].ctx = c
  BY <1>1 DEF RowOK, Awaits
<1>8. ASSUME NEW k \in Keys PROVE k[1] \in Conns /\ (HasSlot(t, k) => HasSlot(v, k))
  <2>1. k[1] \in Conns
    BY KeyParts
  <2>2. CASE k[1] # x
    BY <2>1, <2>2, <1>6 DEF HasSlot
  <2>3. CASE k[1] = x
    BY <2>1, <2>3, <1>6, <1>7 DEF HasSlot
  <2> QED
    BY <2>1, <2>2, <2>3
<1>9. \A y \in Conns : RowOK(e, c, y, v.lists[y])
  <2> SUFFICES ASSUME NEW y \in Conns PROVE RowOK(e, c, y, v.lists[y])
    OBVIOUS
  <2>1. CASE y = x /\ Awaits(t.lists[x], g)
    <3>1. RowOK(e, c, x, row)
      BY <2>1, <1>3, <1>5, <1>7 DEF RowOK
    <3> QED
      BY <2>1, <3>1, <1>6
  <2>2. CASE ~(y = x /\ Awaits(t.lists[x], g))
    <3>1. v.lists[y] = t.lists[y]
      BY <2>2, <1>6
    <3>2. RowOK(f, c, y, t.lists[y])
      BY <1>1
    <3>3. ~Awaits(t.lists[y], g)
      BY <2>2, <3>2 DEF RowOK, Awaits
    <3> QED
      BY <3>1, <3>2, <3>3, RowStays
  <2> QED
    BY <2>1, <2>2
<1>10. ASSUME NEW k \in Keys, NEW slot, SlotOK(f, c, k, slot, t.lists[k[1]])
       PROVE  SlotOK(e, c, k, slot, v.lists[k[1]])
  <2>1. ~Awaits(slot, g)
    BY <1>10 DEF SlotOK, Awaits
  <2>2. SlotOK(e, c, k, slot, t.lists[k[1]])
    BY <1>10, <2>1, SlotStays
  <2>3. t.lists[k[1]].from = "cache" => v.lists[k[1]].from = "cache"
    BY <1>6, <1>7, <1>8
  <2>4. k[1] = x /\ Awaits(t.lists[x], g) => t.lists[k[1]].from # "cache"
    BY <1>7
  <2>5. t.lists[k[1]].from # "cache" => SlotOK(e, c, k, slot, v.lists[k[1]])
    BY <2>2 DEF SlotOK
  <2>6. t.lists[k[1]].from = "cache" => v.lists[k[1]] = t.lists[k[1]]
    BY <1>6, <1>8, <2>4
  <2> QED
    BY <2>2, <2>5, <2>6
<1>11. TreeBut(v, e, c)
  <2>1. \A k \in Keys : v.slots[k].st # "none" => HasSlot(v, k)
    BY <1>1, <1>6, <1>8
  <2>2. \A k \in Keys : SlotOK(e, c, k, v.slots[k], v.lists[k[1]])
    BY <1>1, <1>6, <1>10
  <2>3. v.fallback # Nil => SlotOK(e, c, v.fallback.key, v.fallback.slot, v.lists[v.fallback.key[1]])
    BY <1>0, <1>1, <1>6, <1>10
  <2> QED
    BY <1>9, <2>1, <2>2, <2>3 DEF TreeBut
<1>12. RecentOK(v)
  <2>1. LoadedKeys(v) \subseteq LoadedKeys(t)
    BY <1>1, <1>6 DEF LoadedKeys
  <2> QED
    BY <2>1, <1>6, RecentShrinks
<1>13. v.fallback # Nil /\ HasSlot(v, v.fallback.key) /\ v.fallback.key[1] # x
         => PaintedIn(v, v.fallback.key[1])
  <2> SUFFICES ASSUME v.fallback # Nil, HasSlot(v, v.fallback.key), v.fallback.key[1] # x
               PROVE  PaintedIn(v, v.fallback.key[1])
    OBVIOUS
  <2>1. v.fallback.key \in Keys /\ v.fallback.key[1] \in Conns
    BY <1>0, <1>6, <1>8
  <2>2. v.lists[v.fallback.key[1]] = t.lists[v.fallback.key[1]]
    BY <1>6, <2>1
  <2>3. HasSlot(t, t.fallback.key)
    BY <1>6, <2>2 DEF HasSlot
  <2> QED
    BY <1>1, <1>6, <2>2, <2>3 DEF FallbackOK, PaintedIn
<1>14. /\ u \in Trees /\ TreeOK(u, e, c) /\ RecentOK(u)
       /\ act \in Keys /\ HasSlot(v, act) /\ v.slots[act].st = "loaded" /\ ~HasFallback(v, act)
            => Shown(u, act).st = "loaded"
       /\ act \in Keys /\ HasFallback(v, act) /\ v.fallback.slot.st = "loaded"
            /\ (act[1] = x \/ ~HasSlot(v, act)) => Shown(u, act).st = "loaded"
  BY ONLY x \in Conns, <1>2, <1>6, <1>11, <1>12, <1>13, MigrateFallbackOK
<1>15. Stays(t, u, act)
  <2> SUFFICES ASSUME act \in Keys, Shown(t, act).st = "loaded", ~PaintedIn(t, act[1])
               PROVE  Shown(u, act).st = "loaded"
    BY DEF Stays
  <2>1. HasFallback(v, act) = HasFallback(t, act)
    BY <1>6 DEF HasFallback
  <2>2. CASE HasSlot(t, act)
    <3>1. t.slots[act].st = "loaded"
      BY <2>2, ShownIs
    <3>2. ~HasFallback(t, act)
      BY <1>1, <2>2 DEF FallbackOK, HasFallback
    <3> QED
      BY <2>1, <2>2, <3>1, <3>2, <1>6, <1>8, <1>14
  <2>3. CASE ~HasSlot(t, act)
    <3>1. HasFallback(t, act) /\ t.fallback.slot.st = "loaded"
      BY <2>3, ShownIs DEF Empty
    <3>2. act[1] = x \/ ~HasSlot(v, act)
      BY <2>3, <1>6, <1>8 DEF HasSlot
    <3> QED
      BY <2>1, <3>1, <3>2, <1>6, <1>14
  <2> QED
    BY <2>2, <2>3
<1> QED
  BY <1>14, <1>15

-----------------------------------------------------------------------------
(* Fetches are dispatched. *)

Sound(d, c) ==
    /\ d.tree \in Trees /\ d.fetch \in Seq(Fetches) /\ Len(d.fetch) <= MaxFetches
    /\ TreeOK(d.tree, d.fetch, c) /\ RecentOK(d.tree)

(* e is f with requests for lists behind it.                               *)
Longer(f, e) ==
    /\ Len(f) <= Len(e)
    /\ \A i \in DOMAIN f : e[i] = f[i]
    /\ \A i \in DOMAIN e : i \in DOMAIN f \/ e[i].key \notin Keys

LEMMA RequestIs ==
    ASSUME SidebarTypeOK, NEW kind \in {"list", "schema"}, NEW k \in Conns \X (Dbs \cup {Nil}),
           kind = "schema" => k \in Keys, NEW r, r = Request(kind, k)
    PROVE  /\ r \in Fetches
           /\ r.kind = kind /\ r.key = k /\ r.ctx = ctx /\ r.live = "pending" /\ ~r.served
<1>1. ctx \in 0 .. MaxSwaps
  BY DEF SidebarTypeOK
<1> QED
  BY <1>1 DEF Request, Fetches

(* Rows with nothing behind them are painted or asked for: nothing that is *)
(* shown changes, and the fallback's schema has no place but a painted one. *)
LEMMA RowsChange ==
    ASSUME NEW t \in Trees, NEW f \in Seq(Fetches), NEW e \in Seq(Fetches), Longer(f, e),
           NEW c, TreeOK(t, f, c), RecentOK(t), NEW l \in [Conns -> Rows],
           NEW u, u = [t EXCEPT !.lists = l],
           \A x \in Conns : \/ l[x] = t.lists[x]
                            \/ /\ t.lists[x].st # "loaded" /\ RowOK(e, c, x, l[x])
                               /\ l[x].st = "loaded" => l[x].from = "cache"
    PROVE  u \in Trees /\ TreeOK(u, e, c) /\ RecentOK(u)
<1>0. /\ t.slots \in [Keys -> Slots]
      /\ t.fallback # Nil => t.fallback.key \in Keys /\ t.fallback.key[1] \in Conns
  BY TreeParts, KeyParts
<1>1. /\ u \in Trees /\ u.fallback = t.fallback /\ u.slots = t.slots /\ u.lru = t.lru
      /\ u.lists = l
  BY ONLY t \in Trees, l \in [Conns -> Rows], u = [t EXCEPT !.lists = l] DEF Trees
<1>2. /\ \A k \in Keys : t.slots[k].st # "none" => HasSlot(t, k)
      /\ \A x \in Conns : RowOK(f, c, x, t.lists[x])
      /\ \A k \in Keys : SlotOK(f, c, k, t.slots[k], t.lists[k[1]])
      /\ t.fallback # Nil => SlotOK(f, c, t.fallback.key, t.fallback.slot, t.lists[t.fallback.key[1]])
      /\ FallbackOK(t)
  BY DEF TreeOK, TreeBut
<1>3. \A i \in DOMAIN f : i \in DOMAIN e /\ e[i] = f[i]
  BY LenProperties DEF Longer
<1>4. ASSUME NEW x \in Conns PROVE RowOK(e, c, x, u.lists[x])
  <2>1. CASE l[x] = t.lists[x]
    <3>1. RowOK(f, c, x, l[x])
      BY <2>1, <1>2
    <3> QED
      BY <3>1, <1>1, <1>3 DEF RowOK
  <2>2. CASE l[x] # t.lists[x]
    BY <2>2, <1>1
  <2> QED
    BY <2>1, <2>2
<1>5. ASSUME NEW k \in Keys, NEW slot, SlotOK(f, c, k, slot, t.lists[k[1]])
      PROVE  SlotOK(e, c, k, slot, u.lists[k[1]])
  <2>1. k[1] \in Conns
    BY KeyParts
  <2>2. u.lists[k[1]] = t.lists[k[1]] \/ t.lists[k[1]].from # "cache"
    <3>1. RowOK(f, c, k[1], t.lists[k[1]])
      BY <1>2, <2>1
    <3> QED
      BY <3>1, <2>1, <1>1 DEF RowOK
  <2>3. \A i \in DOMAIN e : e[i].key = k => i \in DOMAIN f /\ f[i].key = k /\ f[i].ctx = e[i].ctx
    BY <1>3 DEF Longer
  <2> DEFINE old == t.lists[k[1]]
             new == u.lists[k[1]]
  <2>4. SlotOK(f, c, k, slot, old) /\ (new.from # "cache" => old.from # "cache")
    BY <1>5, <2>2
  <2> HIDE DEF old, new
  <2>5. SlotOK(e, c, k, slot, new)
    BY <2>3, <2>4, <1>3 DEF SlotOK
  <2> QED
    BY <2>5 DEF new
<1>6. ASSUME NEW k \in Keys, u.slots[k].st # "none" PROVE HasSlot(t, k) /\ HasSlot(u, k)
  <2>1. HasSlot(t, k) /\ k[1] \in Conns
    BY <1>1, <1>2, <1>6, KeyParts
  <2>2. l[k[1]] = t.lists[k[1]]
    BY <2>1 DEF HasSlot
  <2> QED
    BY <2>1, <2>2, <1>1 DEF HasSlot
<1>7. FallbackOK(u)
  <2> SUFFICES ASSUME u.fallback # Nil, HasSlot(u, u.fallback.key)
               PROVE  PaintedIn(u, u.fallback.key[1])
    BY DEF FallbackOK
  <2> DEFINE x == t.fallback.key[1]
  <2>1. x \in Conns /\ l[x].st = "loaded"
    BY <1>0, <1>1 DEF HasSlot
  <2>2. CASE l[x] = t.lists[x]
    <3>1. HasSlot(t, t.fallback.key)
      BY <2>2, <1>1 DEF HasSlot
    <3> QED
      BY <2>2, <3>1, <1>1, <1>2 DEF FallbackOK, PaintedIn
  <2>3. CASE l[x] # t.lists[x]
    <3>1. l[x].from = "cache"
      BY <2>1, <2>3
    <3> QED
      BY <3>1, <1>1 DEF PaintedIn
  <2> QED
    BY <2>2, <2>3
<1>8. TreeOK(u, e, c)
  <2>1. \A k \in Keys : SlotOK(e, c, k, u.slots[k], u.lists[k[1]])
    BY <1>1, <1>2, <1>5
  <2>2. u.fallback # Nil => SlotOK(e, c, u.fallback.key, u.fallback.slot, u.lists[u.fallback.key[1]])
    BY <1>0, <1>1, <1>2, <1>5
  <2> QED
    BY <1>4, <1>6, <1>7, <2>1, <2>2 DEF TreeOK, TreeBut
<1>9. RecentOK(u)
  <2>1. LoadedKeys(u) \subseteq LoadedKeys(t)
    BY <1>1, <1>6 DEF LoadedKeys
  <2> QED
    BY <2>1, <1>1, RecentShrinks
<1> QED
  BY <1>1, <1>8, <1>9

(* start_db_list_fetch of one row.                                         *)
LEMMA SeededRow ==
    ASSUME SidebarTypeOK, NEW x \in Conns, NEW row \in Rows, NEW g \in 1 .. MaxFetches,
           NEW n, n = BeginDbList(SeedDbList(row, x), g)
    PROVE  /\ n \in Rows
           /\ \/ n = row
              \/ row.st # "loaded" /\ n.st = "loaded" /\ n.from = "cache"
              \/ /\ row.st # "loaded" /\ n.st = "loading" /\ n.gen = g /\ n.from = "none"
<1>1. /\ disk.lists[x] # Nil => disk.lists[x].ctx \in 0 .. MaxSwaps /\ disk.lists[x].names \in SUBSET Dbs
  BY DEF SidebarTypeOK
<1>2. 0 \in 0 .. MaxSwaps /\ 0 \in 0 .. MaxFetches /\ g \in 0 .. MaxFetches
  BY SidebarAssumption
<1>3. CASE row.st = "none" /\ disk.lists[x] # Nil
  <2> DEFINE p == [st |-> "loaded", gen |-> 0, from |-> "cache",
                   ctx |-> disk.lists[x].ctx, names |-> disk.lists[x].names]
  <2>1. SeedDbList(row, x) = p /\ p.st = "loaded"
    BY <1>3 DEF SeedDbList
  <2>2. n = p
    BY <2>1 DEF BeginDbList
  <2> QED
    BY <2>2, <1>1, <1>2, <1>3 DEF Rows, SlotStates, Sources
<1>4. CASE ~(row.st = "none" /\ disk.lists[x] # Nil)
  <2>1. SeedDbList(row, x) = row
    BY <1>4 DEF SeedDbList
  <2>2. CASE row.st = "loaded"
    BY <2>1, <2>2 DEF BeginDbList
  <2>3. CASE row.st # "loaded"
    <3>1. n = [st |-> "loading", gen |-> g, from |-> "none", ctx |-> 0, names |-> {}]
      BY <2>1, <2>3 DEF BeginDbList, Unlisted
    <3> QED
      BY <2>3, <3>1, <1>2 DEF Rows, SlotStates, Sources
  <2> QED
    BY <2>2, <2>3
<1> QED
  BY <1>3, <1>4

LEMMA StartDbListOK ==
    ASSUME SidebarTypeOK, NEW d, Sound(d, ctx), NEW x \in Conns, NEW n, n = StartDbList(d, x),
           Len(n.fetch) <= MaxFetches
    PROVE  Sound(n, ctx) /\ Len(n.fetch) = Len(d.fetch) + 1
<1> DEFINE t == d.tree
           f == d.fetch
           g == Len(f) + 1
           r == Request("list", <<x, Nil>>)
           row == BeginDbList(SeedDbList(t.lists[x], x), g)
           l == [t.lists EXCEPT ![x] = row]
           e == Append(f, r)
<1>0. t \in Trees /\ f \in Seq(Fetches) /\ TreeOK(t, f, ctx) /\ RecentOK(t)
  BY DEF Sound
<1>1. t.lists \in [Conns -> Rows]
  BY <1>0, TreeParts
<1>2. n.tree = [t EXCEPT !.lists = l] /\ n.fetch = e
  <2>1. [t EXCEPT !.lists[x] = BeginDbList(SeedDbList(@, x), g)] = [t EXCEPT !.lists = l]
    BY <1>0 DEF Trees
  <2> QED
    BY <2>1 DEF StartDbList
<1>3. r \in Fetches /\ r.kind = "list" /\ r.key = <<x, Nil>> /\ r.ctx = ctx /\ r.live = "pending"
  <2>1. <<x, Nil>> \in Conns \X (Dbs \cup {Nil})
    OBVIOUS
  <2> DEFINE k == <<x, Nil>>
  <2>2. r = Request("list", k) /\ k \in Conns \X (Dbs \cup {Nil})
    BY <2>1
  <2> HIDE DEF r, k
  <2>3. r \in Fetches /\ r.kind = "list" /\ r.key = k /\ r.ctx = ctx /\ r.live = "pending"
    BY <2>2, RequestIs
  <2> QED
    BY <2>3 DEF k
<1>4. <<x, Nil>> \notin Keys
  BY SidebarAssumption DEF Keys
<1> HIDE DEF r
<1>5. /\ e \in Seq(Fetches) /\ Len(e) = g /\ Len(f) \in Nat /\ DOMAIN f = 1 .. Len(f)
      /\ DOMAIN e = 1 .. g /\ e[g] = r /\ \A i \in 1 .. Len(f) : e[i] = f[i]
  <2>1. e \in Seq(Fetches)
    BY <1>0, <1>3
  <2> QED
    BY <1>0, <1>3, <2>1, AppendProperties, LenProperties
<1>6. Longer(f, e)
  <2>1. \A i \in DOMAIN e : i \in DOMAIN f \/ i = g
    BY <1>5
  <2> QED
    BY <1>3, <1>4, <1>5, <2>1 DEF Longer
<1>7. g \in 1 .. MaxFetches
  BY <1>2, <1>5, SidebarAssumption
<1>8. /\ row \in Rows
      /\ \/ row = t.lists[x]
         \/ t.lists[x].st # "loaded" /\ row.st = "loaded" /\ row.from = "cache"
         \/ t.lists[x].st # "loaded" /\ row.st = "loading" /\ row.gen = g /\ row.from = "none"
  BY <1>1, <1>7, SeededRow
<1> HIDE DEF row, e
<1>9. row = t.lists[x] \/ (/\ t.lists[x].st # "loaded" /\ RowOK(e, ctx, x, row)
                           /\ row.st = "loaded" => row.from = "cache")
  <2>1. e[g].kind = "list" /\ e[g].key[1] = x /\ e[g].ctx = ctx /\ e[g].live = "pending" /\ g \in DOMAIN e
    BY <1>3, <1>5
  <2> QED
    BY <1>8, <2>1 DEF RowOK
<1>10. l \in [Conns -> Rows] /\ l[x] = row /\ \A y \in Conns : y # x => l[y] = t.lists[y]
  BY <1>1, <1>8
<1> HIDE DEF l
<1>11. \A y \in Conns : \/ l[y] = t.lists[y]
                        \/ /\ t.lists[y].st # "loaded" /\ RowOK(e, ctx, y, l[y])
                           /\ l[y].st = "loaded" => l[y].from = "cache"
  BY <1>9, <1>10
<1>12. n.tree \in Trees /\ TreeOK(n.tree, e, ctx) /\ RecentOK(n.tree)
  <2> HIDE DEF t, f
  <2> QED
    BY ONLY <1>0, <1>2, <1>5, <1>6, <1>10, <1>11, RowsChange
<1> QED
  BY <1>2, <1>5, <1>7, <1>12 DEF Sound

LEMMA StartSchemaOK ==
    ASSUME SidebarTypeOK, NEW d, Sound(d, ctx), NEW k \in Keys, NEW act, HasSlot(d.tree, k) \/ act = k,
           NEW n, n = StartSchema(d, act, k), Len(n.fetch) <= MaxFetches
    PROVE  Sound(n, ctx) /\ Len(n.fetch) = Len(d.fetch) + 1
<1> DEFINE t == d.tree
           f == d.fetch
           g == Len(f) + 1
           r == Request("schema", k)
           e == Append(f, r)
           u == BeginSchema(t, act, k, g)
           s == Loading(g)
<1>0. t \in Trees /\ f \in Seq(Fetches) /\ TreeOK(t, f, ctx) /\ RecentOK(t)
  BY DEF Sound
<1>1. /\ t.lists \in [Conns -> Rows] /\ t.slots \in [Keys -> Slots]
      /\ t.fallback # Nil => t.fallback.key \in Keys /\ t.fallback.slot \in Slots
  BY <1>0, TreeParts
<1>2. n.tree = u /\ n.fetch = e
  BY DEF StartSchema
<1>3. r \in Fetches /\ r.kind = "schema" /\ r.key = k /\ r.ctx = ctx /\ r.live = "pending" /\ ~r.served
  <2>1. k \in Conns \X (Dbs \cup {Nil})
    BY DEF Keys
  <2>2. r = Request("schema", k)
    OBVIOUS
  <2>3. "schema" \in {"list", "schema"}
    OBVIOUS
  <2> HIDE DEF r
  <2> QED
    BY ONLY SidebarTypeOK, <2>1, <2>2, <2>3, RequestIs
<1> HIDE DEF r
<1>4. /\ e \in Seq(Fetches) /\ Len(e) = g /\ Len(f) \in Nat /\ DOMAIN f = 1 .. Len(f)
      /\ DOMAIN e = 1 .. g /\ e[g] = r /\ \A i \in 1 .. Len(f) : e[i] = f[i]
  <2>1. e \in Seq(Fetches)
    BY <1>0, <1>3
  <2> QED
    BY <1>0, <1>3, <2>1, AppendProperties, LenProperties
<1>5. g \in 1 .. MaxFetches
  BY <1>2, <1>4, SidebarAssumption
<1> HIDE DEF e
<1>6. s \in Slots /\ s.st = "loading" /\ s.gen = g /\ s.from = "none"
  BY <1>5, SidebarAssumption DEF Loading, Slots, SlotStates, Sources
<1>7. \A row : SlotOK(e, ctx, k, s, row)
  BY <1>3, <1>4, <1>6 DEF SlotOK
<1>8. ASSUME NEW x, NEW slot, NEW row, SlotOK(f, ctx, x, slot, row),
             x # k \/ slot.st = "none" \/ row.from = "cache"
      PROVE  SlotOK(e, ctx, x, slot, row)
  <2>1. slot.st = "loading" => /\ slot.gen \in DOMAIN f /\ slot.gen \in DOMAIN e
                               /\ e[slot.gen] = f[slot.gen]
    BY <1>4, <1>8 DEF SlotOK
  <2>2. ASSUME x # k, slot.st # "none", row.from # "cache"
        PROVE  \A i \in DOMAIN e : e[i].key = x /\ e[i].ctx = ctx => slot.gen >= i
    <3>1. \A i \in DOMAIN e : e[i].key = x => i \in DOMAIN f /\ f[i] = e[i]
      BY <1>3, <1>4, <2>2
    <3> QED
      BY <1>8, <2>2, <3>1 DEF SlotOK
  <2> QED
    BY <1>8, <2>1, <2>2 DEF SlotOK
<1> HIDE DEF s
<1>9. /\ \A x \in Keys : t.slots[x].st # "none" => HasSlot(t, x)
      /\ \A x \in Conns : RowOK(f, ctx, x, t.lists[x])
      /\ \A x \in Keys : SlotOK(f, ctx, x, t.slots[x], t.lists[x[1]])
      /\ t.fallback # Nil => SlotOK(f, ctx, t.fallback.key, t.fallback.slot, t.lists[t.fallback.key[1]])
      /\ FallbackOK(t)
  BY <1>0 DEF TreeOK, TreeBut
<1>10. \A x \in Conns : RowOK(e, ctx, x, t.lists[x])
  BY <1>4, <1>9 DEF RowOK
<1>11. u \in Trees /\ TreeOK(u, e, ctx) /\ RecentOK(u)
  <2>1. CASE HasSlot(t, k)
    <3> DEFINE slots == [t.slots EXCEPT ![k] = s]
    <3>1. /\ slots \in [Keys -> Slots] /\ slots[k] = s
          /\ \A x \in Keys : x # k => slots[x] = t.slots[x]
      BY <1>1, <1>6
    <3>2. u = [t EXCEPT !.slots = slots]
      <4>1. u = [t EXCEPT !.slots[k] = s]
        BY <2>1 DEF BeginSchema, s
      <4> QED
        BY <4>1, <1>0 DEF Trees
    <3> HIDE DEF u, slots
    <3>3. u \in Trees /\ u.lists = t.lists /\ u.fallback = t.fallback /\ u.lru = t.lru /\ u.slots = slots
      <4> HIDE DEF t
      <4> QED
        BY ONLY <1>0, <3>1, <3>2 DEF Trees
    <3>4. \A x : HasSlot(u, x) = HasSlot(t, x)
      BY <3>3 DEF HasSlot
    <3>5. ASSUME NEW x \in Keys
          PROVE  (u.slots[x].st # "none" => HasSlot(u, x)) /\ SlotOK(e, ctx, x, u.slots[x], u.lists[x[1]])
      <4>1. CASE x = k
        BY <4>1, <2>1, <3>1, <3>3, <3>4, <1>7
      <4>2. CASE x # k
        <5>1. SlotOK(e, ctx, x, t.slots[x], t.lists[x[1]])
          BY <4>2, <1>8, <1>9
        <5> QED
          BY <4>2, <5>1, <3>1, <3>3, <3>4, <1>9
      <4> QED
        BY <4>1, <4>2
    <3>6. u.fallback # Nil => SlotOK(e, ctx, u.fallback.key, u.fallback.slot, u.lists[u.fallback.key[1]])
      <4>1. t.fallback # Nil /\ t.fallback.key = k => t.lists[t.fallback.key[1]].from = "cache"
        BY <2>1, <1>9 DEF FallbackOK, PaintedIn
      <4> QED
        BY <4>1, <3>3, <1>8, <1>9
    <3>7. FallbackOK(u)
      BY <1>9, <3>3, <3>4 DEF FallbackOK, PaintedIn
    <3>8. TreeOK(u, e, ctx)
      BY <3>3, <3>5, <3>6, <3>7, <1>10 DEF TreeOK, TreeBut
    <3>9. LoadedKeys(u) \subseteq LoadedKeys(t)
      BY <3>1, <3>3, <3>4, <1>6 DEF LoadedKeys
    <3> HIDE DEF t, f
    <3> QED
      BY <1>0, <3>3, <3>8, <3>9, RecentShrinks
  <2>2. CASE ~HasSlot(t, k)
    <3> DEFINE fb == [key |-> k, slot |-> s]
    <3>1. u = [t EXCEPT !.fallback = fb]
      BY <2>2 DEF BeginSchema, s
    <3>2. fb \in [key : Keys, slot : Slots] /\ fb.key = k /\ fb.slot = s
      BY <1>6
    <3> HIDE DEF u, fb
    <3>3. u \in Trees /\ u.lists = t.lists /\ u.fallback = fb /\ u.lru = t.lru /\ u.slots = t.slots
      <4> HIDE DEF t
      <4> QED
        BY ONLY <1>0, <3>1, <3>2 DEF Trees
    <3>4. \A x : HasSlot(u, x) = HasSlot(t, x)
      BY <3>3 DEF HasSlot
    <3>5. ASSUME NEW x \in Keys
          PROVE  (u.slots[x].st # "none" => HasSlot(u, x)) /\ SlotOK(e, ctx, x, u.slots[x], u.lists[x[1]])
      <4>1. x = k => t.slots[x].st = "none"
        BY <2>2, <1>9
      <4>2. SlotOK(e, ctx, x, t.slots[x], t.lists[x[1]])
        BY <4>1, <1>8, <1>9
      <4> QED
        BY <4>2, <3>3, <3>4, <1>9
    <3>6. SlotOK(e, ctx, u.fallback.key, u.fallback.slot, u.lists[u.fallback.key[1]])
      BY <3>2, <3>3, <1>7
    <3>7. FallbackOK(u)
      BY <2>2, <3>2, <3>3, <3>4 DEF FallbackOK
    <3>8. TreeOK(u, e, ctx)
      BY <3>3, <3>5, <3>6, <3>7, <1>10 DEF TreeOK, TreeBut
    <3>9. LoadedKeys(u) \subseteq LoadedKeys(t)
      BY <3>3, <3>4 DEF LoadedKeys
    <3> HIDE DEF t, f
    <3> QED
      BY <1>0, <3>3, <3>8, <3>9, RecentShrinks
  <2> QED
    BY <2>1, <2>2
<1> QED
  BY <1>2, <1>4, <1>5, <1>11 DEF Sound

(* The rows of a set, each once, in some order.                            *)
LEMMA SetToSeqIs ==
    ASSUME NEW S, IsFiniteSet(S)
    PROVE  /\ SetToSeq(S) \in Seq(S) /\ Len(SetToSeq(S)) \in Nat
           /\ DOMAIN SetToSeq(S) = 1 .. Len(SetToSeq(S))
           /\ \A x : x \in ToSet(SetToSeq(S)) <=> x \in S
<1> DEFINE n == Cardinality(S)
           P(f) == f \in [1 .. n -> S] /\ IsInjective(f)
           s == CHOOSE f : P(f)
<1>1. n \in Nat /\ ExistsBijection(1 .. n, S)
  BY FS_CardinalityType
<1>2. PICK b \in Bijection(1 .. n, S) : TRUE
  BY <1>1 DEF ExistsBijection
<1>3. P(b)
  BY <1>2 DEF Bijection, Injection, IsInjective
<1>4. P(s)
  <2> HIDE DEF P
  <2> QED
    BY <1>3
<1>5. SetToSeq(S) = s
  BY DEF SetToSeq
<1> HIDE DEF s
<1>6. s \in Injection(1 .. n, S)
  BY <1>4 DEF Injection, IsInjective
<1>7. IsFiniteSet(1 .. n) /\ Cardinality(1 .. n) = n
  <2> HIDE DEF n
  <2> QED
    BY <1>1, FS_Interval
<1>8. s \in Surjection(1 .. n, S)
  <2>1. Cardinality(1 .. n) = Cardinality(S)
    BY <1>7
  <2> HIDE DEF n
  <2> QED
    BY <1>6, <2>1, FS_Injection
<1>9. s \in [1 .. n -> S] /\ \A x \in S : \E i \in 1 .. n : s[i] = x
  BY <1>8 DEF Surjection
<1> HIDE DEF n
<1>10. s \in Seq(S) /\ Len(s) = n
  BY <1>1, <1>9
<1>11. \A x : x \in ToSet(s) <=> x \in S
  BY <1>9 DEF ToSet
<1> QED
  BY <1>1, <1>5, <1>9, <1>10, <1>11

(* The requests of load_missing_db_lists.                                  *)
ListRequests(rows) == [i \in DOMAIN rows |-> Request("list", <<rows[i], Nil>>)]

(* e is f with the requests for the rows of S behind it.                   *)
Missing(S, f, rows, e) ==
    S \subseteq Conns /\ rows = SetToSeq(S) /\ e = f \o ListRequests(rows)

AllAsked(S, f, rows, e) ==
    /\ e \in Seq(Fetches) /\ Len(e) = Len(f) + Len(rows)
    /\ Len(rows) \in Nat /\ DOMAIN rows = 1 .. Len(rows)
    /\ Longer(f, e)
    /\ \A x : x \in ToSet(rows) <=> x \in S
    /\ \A i \in 1 .. Len(rows) :
         /\ Len(f) + i \in DOMAIN e
         /\ e[Len(f) + i].kind = "list" /\ e[Len(f) + i].key[1] = rows[i]
         /\ e[Len(f) + i].ctx = ctx /\ e[Len(f) + i].live = "pending"

LEMMA MissingIs ==
    ASSUME SidebarTypeOK, NEW S, NEW f \in Seq(Fetches), NEW rows, NEW e, Missing(S, f, rows, e)
    PROVE  AllAsked(S, f, rows, e)
<1> DEFINE q == ListRequests(rows)
           n == Len(rows)
<1>1. /\ rows \in Seq(S) /\ n \in Nat /\ DOMAIN rows = 1 .. n
      /\ \A x : x \in ToSet(rows) <=> x \in S
  <2>1. IsFiniteSet(S)
    BY SidebarAssumption, FS_Subset DEF Missing
  <2> QED
    BY <2>1, SetToSeqIs DEF Missing
<1>2. ASSUME NEW i \in 1 .. n
      PROVE  /\ rows[i] \in Conns /\ q[i] \in Fetches /\ q[i].kind = "list" /\ q[i].key[1] = rows[i]
             /\ q[i].ctx = ctx /\ q[i].live = "pending" /\ q[i].key \notin Keys
  <2>1. rows[i] \in Conns
    BY <1>1, ElementOfSeq DEF Missing
  <2> DEFINE k == <<rows[i], Nil>>
             r == q[i]
  <2>2. k \in Conns \X (Dbs \cup {Nil}) /\ "list" \in {"list", "schema"}
    BY <2>1
  <2>3. r = Request("list", k)
    BY <1>1 DEF ListRequests
  <2>4. k[1] = rows[i] /\ k \notin Keys
    BY SidebarAssumption DEF Keys
  <2> HIDE DEF k, r
  <2>5. r \in Fetches /\ r.kind = "list" /\ r.key = k /\ r.ctx = ctx /\ r.live = "pending"
    BY ONLY SidebarTypeOK, <2>2, <2>3, RequestIs
  <2> QED
    BY <2>1, <2>4, <2>5 DEF r
<1>3. DOMAIN q = 1 .. n
  BY <1>1 DEF ListRequests
<1>4. q = [i \in 1 .. n |-> q[i]]
  BY <1>1 DEF ListRequests
<1>5. e = f \o q
  BY DEF Missing
<1> HIDE DEF q, n
<1>6. q \in Seq(Fetches) /\ Len(q) = n
  <2>1. q \in [1 .. n -> Fetches]
    BY <1>2, <1>4
  <2>2. Len(q) = n
    BY <1>1, <2>1
  <2>3. q \in Seq(Fetches)
    BY <1>1, <2>1
  <2> QED
    BY <2>2, <2>3
<1>7. /\ e \in Seq(Fetches) /\ Len(e) = Len(f) + n /\ Len(f) \in Nat
      /\ DOMAIN f = 1 .. Len(f) /\ DOMAIN e = 1 .. Len(f) + n
      /\ \A i \in 1 .. Len(f) + n : e[i] = IF i <= Len(f) THEN f[i] ELSE q[i - Len(f)]
  <2>1. /\ e \in Seq(Fetches) /\ Len(e) = Len(f) + n
        /\ \A i \in 1 .. Len(f) + n : e[i] = IF i <= Len(f) THEN f[i] ELSE q[i - Len(f)]
    BY ONLY f \in Seq(Fetches), <1>5, <1>6, ConcatProperties
  <2> QED
    BY <1>1, <2>1, LenProperties
<1>8. \A i \in 1 .. n : Len(f) + i \in DOMAIN e /\ e[Len(f) + i] = q[i]
  <2> SUFFICES ASSUME NEW i \in 1 .. n PROVE Len(f) + i \in DOMAIN e /\ e[Len(f) + i] = q[i]
    OBVIOUS
  <2> DEFINE j == Len(f) + i
  <2>1. j \in 1 .. Len(f) + n /\ ~(j <= Len(f)) /\ j - Len(f) = i
    BY <1>1, <1>7
  <2> HIDE DEF j
  <2>2. j \in DOMAIN e /\ e[j] = q[j - Len(f)]
    BY <1>7, <2>1
  <2> QED
    BY <2>1, <2>2 DEF j
<1>9. Longer(f, e)
  <2>1. \A i \in DOMAIN f : e[i] = f[i]
    BY <1>1, <1>7
  <2>2. \A i \in DOMAIN e : i \in DOMAIN f \/ e[i].key \notin Keys
    <3> SUFFICES ASSUME NEW i \in DOMAIN e, i \notin DOMAIN f PROVE e[i].key \notin Keys
      OBVIOUS
    <3>1. i - Len(f) \in 1 .. n /\ e[i] = q[i - Len(f)]
      BY <1>1, <1>7
    <3> QED
      BY <1>2, <3>1
  <2>3. Len(f) <= Len(e)
    BY <1>1, <1>7
  <2> QED
    BY <2>1, <2>2, <2>3 DEF Longer
<1> QED
  BY <1>1, <1>2, <1>7, <1>8, <1>9 DEF n, AllAsked

(* start_db_list_fetch of every open row with nothing behind it.           *)
LEMMA LoadMissingOK ==
    ASSUME SidebarTypeOK, NEW d, Sound(d, ctx), NEW open, open \subseteq Conns,
           NEW n, n = LoadMissing(d, open), Len(n.fetch) <= MaxFetches
    PROVE  Sound(n, ctx) /\ Len(n.fetch) >= Len(d.fetch)
<1> DEFINE t == d.tree
           f == d.fetch
           S == {c \in open : t.lists[c].st = "none"}
           rows == SetToSeq(S)
           turn(c) == CHOOSE i \in DOMAIN rows : rows[i] = c
           row(c) == BeginDbList(SeedDbList(t.lists[c], c), Len(f) + turn(c))
           l == [c \in Conns |-> IF c \in ToSet(rows) THEN row(c) ELSE t.lists[c]]
           e == f \o ListRequests(rows)
<1>0. t \in Trees /\ f \in Seq(Fetches) /\ TreeOK(t, f, ctx) /\ RecentOK(t)
  BY DEF Sound
<1>1. t.lists \in [Conns -> Rows]
  BY <1>0, TreeParts
<1>2. n.tree = [t EXCEPT !.lists = l] /\ n.fetch = e
  <2>1. [t EXCEPT !.lists = [c \in Conns |-> IF c \in ToSet(rows)
                               THEN BeginDbList(SeedDbList(@[c], c), Len(f) + turn(c)) ELSE @[c]]]
        = [t EXCEPT !.lists = l]
    BY <1>0 DEF Trees
  <2> QED
    BY <2>1 DEF LoadMissing, ListRequests
<1>3. S \subseteq Conns /\ \A c \in S : t.lists[c].st = "none"
  OBVIOUS
<1>4. /\ e \in Seq(Fetches) /\ Len(e) = Len(f) + Len(rows)
      /\ Len(rows) \in Nat /\ DOMAIN rows = 1 .. Len(rows)
      /\ Longer(f, e)
      /\ \A x : x \in ToSet(rows) <=> x \in S
      /\ \A i \in 1 .. Len(rows) :
                /\ Len(f) + i \in DOMAIN e
                /\ e[Len(f) + i].kind = "list" /\ e[Len(f) + i].key[1] = rows[i]
                /\ e[Len(f) + i].ctx = ctx /\ e[Len(f) + i].live = "pending"
  <2>1. Missing(S, f, rows, e)
    BY <1>3 DEF Missing
  <2> HIDE DEF S, rows, e, f, t
  <2>2. AllAsked(S, f, rows, e)
    BY ONLY SidebarTypeOK, <1>0, <2>1, MissingIs
  <2> QED
    BY <2>2 DEF AllAsked
<1> HIDE DEF e, S
<1>5. ASSUME NEW c \in S PROVE turn(c) \in 1 .. Len(rows) /\ rows[turn(c)] = c
  <2>1. \E i \in DOMAIN rows : rows[i] = c
    BY <1>4 DEF ToSet
  <2> HIDE DEF rows
  <2> QED
    BY <1>4, <2>1
<1> HIDE DEF rows, turn
<1>6. Len(f) \in Nat /\ MaxFetches \in Nat
  BY <1>0, LenProperties, SidebarAssumption
<1>7. ASSUME NEW c \in S
      PROVE  /\ row(c) \in Rows
             /\ row(c) = t.lists[c] \/ (/\ t.lists[c].st # "loaded" /\ RowOK(e, ctx, c, row(c))
                                        /\ row(c).st = "loaded" => row(c).from = "cache")
  <2> DEFINE g == Len(f) + turn(c)
             old == t.lists[c]
             w == row(c)
  <2>1. g \in 1 .. MaxFetches
    BY <1>2, <1>4, <1>5, <1>6
  <2>2. c \in Conns /\ old \in Rows /\ w = BeginDbList(SeedDbList(old, c), g)
    BY <1>1, <1>3
  <2>3. /\ g \in DOMAIN e
        /\ e[g].kind = "list" /\ e[g].key[1] = c /\ e[g].ctx = ctx /\ e[g].live = "pending"
    BY <1>4, <1>5
  <2> HIDE DEF g, old, w
  <2>4. /\ w \in Rows
        /\ \/ w = old
           \/ old.st # "loaded" /\ w.st = "loaded" /\ w.from = "cache"
           \/ old.st # "loaded" /\ w.st = "loading" /\ w.gen = g /\ w.from = "none"
    BY ONLY SidebarTypeOK, <2>1, <2>2, SeededRow
  <2>5. w = old \/ (/\ old.st # "loaded" /\ RowOK(e, ctx, c, w)
                    /\ w.st = "loaded" => w.from = "cache")
    BY <2>3, <2>4 DEF RowOK
  <2> QED
    BY <2>4, <2>5 DEF old, w
<1>8. l \in [Conns -> Rows]
  <2>1. \A c \in Conns : c \in ToSet(rows) => c \in S
    BY <1>4
  <2> HIDE DEF row
  <2> QED
    BY <1>1, <1>7, <2>1
<1>9. \A c \in Conns : l[c] = IF c \in S THEN row(c) ELSE t.lists[c]
  <2> HIDE DEF row
  <2> QED
    BY <1>4
<1> HIDE DEF l, row
<1>10. \A y \in Conns : \/ l[y] = t.lists[y]
                        \/ /\ t.lists[y].st # "loaded" /\ RowOK(e, ctx, y, l[y])
                           /\ l[y].st = "loaded" => l[y].from = "cache"
  BY <1>7, <1>9
<1>11. n.tree \in Trees /\ TreeOK(n.tree, e, ctx) /\ RecentOK(n.tree)
  <2> HIDE DEF t, f
  <2> QED
    BY ONLY <1>0, <1>2, <1>4, <1>8, <1>10, RowsChange
<1> QED
  BY <1>2, <1>4, <1>6, <1>11 DEF Sound

(* No dispatch takes a fetch back.                                         *)
LEMMA FetchesGrow ==
    ASSUME SidebarTypeOK, NEW d, d.fetch \in Seq(Fetches)
    PROVE  /\ \A k \in Keys : \A act :
                  LET n == StartSchema(d, act, k)
                  IN n.fetch \in Seq(Fetches) /\ Len(n.fetch) = Len(d.fetch) + 1
           /\ \A x \in Conns : LET n == StartDbList(d, x)
                               IN n.fetch \in Seq(Fetches) /\ Len(n.fetch) = Len(d.fetch) + 1
           /\ \A open \in SUBSET Conns : LET n == LoadMissing(d, open)
                                         IN n.fetch \in Seq(Fetches) /\ Len(n.fetch) >= Len(d.fetch)
<1>1. ASSUME NEW k \in Conns \X (Dbs \cup {Nil}), NEW kind \in {"list", "schema"},
             kind = "schema" => k \in Keys
      PROVE  LET e == Append(d.fetch, Request(kind, k))
             IN e \in Seq(Fetches) /\ Len(e) = Len(d.fetch) + 1
  <2>1. Request(kind, k) \in Fetches
    BY <1>1, RequestIs
  <2> QED
    BY <2>1, AppendProperties
<1>2. ASSUME NEW k \in Keys, NEW act
      PROVE  LET n == StartSchema(d, act, k)
             IN n.fetch \in Seq(Fetches) /\ Len(n.fetch) = Len(d.fetch) + 1
  <2>1. k \in Conns \X (Dbs \cup {Nil}) /\ "schema" \in {"list", "schema"}
    BY DEF Keys
  <2>2. StartSchema(d, act, k).fetch = Append(d.fetch, Request("schema", k))
    BY DEF StartSchema
  <2> QED
    BY <1>1, <2>1, <2>2
<1>3. ASSUME NEW x \in Conns
      PROVE  LET n == StartDbList(d, x)
             IN n.fetch \in Seq(Fetches) /\ Len(n.fetch) = Len(d.fetch) + 1
  <2>1. <<x, Nil>> \in Conns \X (Dbs \cup {Nil}) /\ "list" \in {"list", "schema"}
    OBVIOUS
  <2>2. StartDbList(d, x).fetch = Append(d.fetch, Request("list", <<x, Nil>>))
    BY DEF StartDbList
  <2> QED
    BY <1>1, <2>1, <2>2
<1>4. ASSUME NEW open \in SUBSET Conns
      PROVE  LET n == LoadMissing(d, open)
             IN n.fetch \in Seq(Fetches) /\ Len(n.fetch) >= Len(d.fetch)
  <2> DEFINE S == {c \in open : d.tree.lists[c].st = "none"}
             rows == SetToSeq(S)
             e == d.fetch \o ListRequests(rows)
             f == d.fetch
  <2>1. LoadMissing(d, open).fetch = e
    BY DEF LoadMissing, ListRequests
  <2>2. Missing(S, f, rows, e)
    BY DEF Missing
  <2>3. f \in Seq(Fetches)
    OBVIOUS
  <2> HIDE DEF S, rows, e, f
  <2>4. e \in Seq(Fetches) /\ Len(e) = Len(f) + Len(rows) /\ Len(rows) \in Nat /\ Len(f) \in Nat
    <3>1. AllAsked(S, f, rows, e)
      BY ONLY SidebarTypeOK, <2>2, <2>3, MissingIs
    <3> QED
      BY <3>1, <2>3, LenProperties DEF AllAsked
  <2> QED
    BY <2>1, <2>4 DEF f
<1> QED
  BY <1>2, <1>3, <1>4

-----------------------------------------------------------------------------
(* The steps. *)

(* What TypeOK says of everything but the tree and the fetches.            *)
RestOK ==
    /\ switches \in Seq([key : Keys, ctx : 0 .. MaxSwaps, listed : BOOLEAN])
    /\ flying \subseteq DOMAIN switches
    /\ lastSwitch \in {0} \cup DOMAIN switches
    /\ active \in {0} \cup DOMAIN switches
    /\ ctx \in 0 .. MaxSwaps
    /\ disk \in [lists : [Conns -> {Nil} \cup [ctx : 0 .. MaxSwaps, names : SUBSET Dbs]],
                 schemas : [Keys -> {Nil} \cup 0 .. MaxSwaps]]
    /\ prefetch \in [armed : BOOLEAN, target : {Nil} \cup [key : Keys, ctx : 0 .. MaxSwaps],
                     fails : 0 .. MaxFails]

(* The active connection, and the switch that may land, are of the context *)
(* in force.                                                               *)
SwitchesOK ==
    /\ active # 0 => switches[active].ctx = ctx
    /\ lastSwitch # 0 => switches[lastSwitch].ctx = ctx

SidebarIInv == SidebarTypeOK /\ Sound(Now, ctx) /\ SwitchesOK

LEMMA SoundNow ==
    ASSUME NEW t, NEW f, NEW c
    PROVE  Sound([tree |-> t, fetch |-> f], c)
           <=> t \in Trees /\ f \in Seq(Fetches) /\ Len(f) <= MaxFetches /\ TreeOK(t, f, c) /\ RecentOK(t)
<1> QED
  BY DEF Sound

LEMMA SwitchIs ==
    ASSUME SidebarTypeOK, NEW i \in DOMAIN switches
    PROVE  switches[i] \in [key : Keys, ctx : 0 .. MaxSwaps, listed : BOOLEAN]
<1> DEFINE S == [key : Keys, ctx : 0 .. MaxSwaps, listed : BOOLEAN]
<1>1. switches \in Seq(S)
  BY DEF SidebarTypeOK
<1> HIDE DEF S
<1>2. switches[i] \in S
  BY <1>1, LenProperties, ElementOfSeq
<1> QED
  BY <1>2 DEF S

LEMMA ActiveKeyIs ==
    ASSUME SidebarTypeOK
    PROVE  active # 0 => ActiveKey \in Keys /\ ActiveKey = switches[active].key
<1>1. active # 0 => active \in DOMAIN switches
  BY DEF SidebarTypeOK
<1>2. active # 0 => switches[active] \in [key : Keys, ctx : 0 .. MaxSwaps, listed : BOOLEAN]
  BY <1>1, SwitchIs
<1> QED
  BY <1>2 DEF ActiveKey

(* An empty tree is sound under every context.                             *)
LEMMA BareOK ==
    ASSUME NEW f, NEW c
    PROVE  Bare \in Trees /\ TreeOK(Bare, f, c) /\ RecentOK(Bare)
<1>0. 0 \in 0 .. MaxSwaps /\ 0 \in 0 .. MaxFetches /\ Cap \in Nat
  BY SidebarAssumption
<1>1. /\ Empty \in Slots /\ Unlisted \in Rows
      /\ Empty.st = "none" /\ Empty.from = "none" /\ Unlisted.st = "none" /\ Unlisted.from = "none"
  BY <1>0 DEF Empty, Unlisted, Slots, Rows, SlotStates, Sources
<1> DEFINE l == [c_1 \in Conns |-> Unlisted]
           s == [k \in Keys |-> Empty]
<1>2. /\ Bare.lists = l /\ Bare.slots = s /\ Bare.fallback = Nil /\ Bare.lru = <<>>
      /\ \A x \in Conns : Bare.lists[x] = Unlisted
      /\ \A k \in Keys : Bare.slots[k] = Empty
  BY DEF Bare
<1>3. Bare \in Trees
  <2>1. l \in [Conns -> Rows] /\ s \in [Keys -> Slots] /\ <<>> \in Seq(Keys)
    BY <1>1
  <2>2. Bare = [lists |-> l, slots |-> s, fallback |-> Nil, lru |-> <<>>]
    BY DEF Bare
  <2> HIDE DEF l, s
  <2> QED
    BY <2>1, <2>2 DEF Trees
<1>4. \A k, row : SlotOK(f, c, k, Empty, row)
  BY <1>1 DEF SlotOK
<1>5. \A x : RowOK(f, c, x, Unlisted)
  BY <1>1 DEF RowOK
<1>6. TreeOK(Bare, f, c)
  <2>1. \A x \in Conns : RowOK(f, c, x, Bare.lists[x])
    BY <1>2, <1>5
  <2>2. \A k \in Keys : SlotOK(f, c, k, Bare.slots[k], Bare.lists[k[1]])
    BY <1>2, <1>4
  <2>3. \A k \in Keys : Bare.slots[k].st = "none"
    BY <1>1, <1>2
  <2> QED
    BY <1>2, <2>1, <2>2, <2>3 DEF TreeOK, TreeBut, FallbackOK
<1>7. RecentOK(Bare)
  <2>1. LoadedKeys(Bare) = {}
    BY <1>1, <1>2 DEF LoadedKeys
  <2>2. Distinct(<<>>)
    BY DEF Distinct
  <2> QED
    BY <1>0, <1>2, <2>1, <2>2, FS_EmptySet DEF RecentOK
<1> QED
  BY <1>3, <1>6, <1>7

(* A fetch marked as answered or as served.                                *)
LEMMA MarkedIs ==
    ASSUME NEW f \in Seq(Fetches), NEW g \in DOMAIN f, NEW e,
           NEW l \in {"pending", "ok", "error"}, NEW s \in BOOLEAN,
           e = [f EXCEPT ![g] = [f[g] EXCEPT !.live = l, !.served = s]]
    PROVE  e \in Seq(Fetches) /\ Len(e) = Len(f) /\ Marked(f, g, e)
<1> DEFINE r == [f[g] EXCEPT !.live = l, !.served = s]
<1>1. DOMAIN f = 1 .. Len(f) /\ Len(f) \in Nat /\ f[g] \in Fetches
  BY LenProperties, ElementOfSeq
<1>2. r \in Fetches /\ r.kind = f[g].kind /\ r.key = f[g].key /\ r.ctx = f[g].ctx
  BY <1>1 DEF Fetches
<1> HIDE DEF r
<1>3. e = [f EXCEPT ![g] = r]
  BY DEF r
<1>4. /\ e \in Seq(Fetches) /\ Len(e) = Len(f)
      /\ \A j \in 1 .. Len(f) : e[j] = IF j = g THEN r ELSE f[j]
  BY <1>1, <1>2, <1>3, ExceptSeq
<1>5. DOMAIN e = DOMAIN f
  BY <1>1, <1>4, LenProperties
<1> QED
  BY <1>1, <1>2, <1>4, <1>5 DEF Marked

(* A failed refresh of what the cache has served changes no slot.          *)
LEMMA ServedOK ==
    ASSUME NEW t \in Trees, NEW f, NEW g, NEW e, Marked(f, g, e), NEW c, TreeOK(t, f, c),
           f[g].kind = "schema", f[g].served
    PROVE  TreeOK(t, e, c)
<1>1. ASSUME NEW x \in Conns PROVE RowOK(e, c, x, t.lists[x])
  <2>1. RowOK(f, c, x, t.lists[x])
    BY DEF TreeOK, TreeBut
  <2>2. ~Awaits(t.lists[x], g)
    BY <2>1 DEF RowOK, Awaits
  <2> QED
    BY <2>1, <2>2, RowStays
<1>2. ASSUME NEW k, NEW slot, NEW row, SlotOK(f, c, k, slot, row) PROVE SlotOK(e, c, k, slot, row)
  <2>1. ~Awaits(slot, g) \/ row.from = "cache"
    BY <1>2 DEF SlotOK, Awaits
  <2> QED
    BY <1>2, <2>1, SlotStays
<1> QED
  BY <1>1, <1>2 DEF TreeOK, TreeBut

(* A step leaves the tree and the fetches sound, and takes the schema of   *)
(* the active database away with a fetch or a swap only.                   *)
Moves == /\ Sound([tree |-> tree', fetch |-> fetch'], ctx')
         /\ Len(fetch') > Len(fetch) \/ Stays(tree, tree', ActiveKey) \/ active' = 0

LEMMA DispatchedOK ==
    ASSUME SidebarIInv, NEW d, Dispatched(d), Sound(d, ctx), Len(d.fetch) > Len(fetch), ctx' = ctx
    PROVE  Moves
<1>1. tree' = d.tree /\ fetch' = d.fetch
  BY DEF Dispatched
<1> QED
  BY <1>1, SoundNow DEF Sound, Moves

LEMMA NowIs ==
    ASSUME SidebarIInv
    PROVE  /\ Sound(Now, ctx) /\ SidebarTypeOK /\ Now.tree = tree /\ Now.fetch = fetch
           /\ tree \in Trees /\ fetch \in Seq(Fetches) /\ Len(fetch) <= MaxFetches /\ Len(fetch) \in Nat
           /\ DOMAIN fetch = 1 .. Len(fetch) /\ TreeOK(tree, fetch, ctx) /\ RecentOK(tree)
<1>1. Now.tree = tree /\ Now.fetch = fetch
  BY DEF Now
<1>2. /\ Sound(Now, ctx) /\ SidebarTypeOK /\ tree \in Trees /\ fetch \in Seq(Fetches) /\ Len(fetch) <= MaxFetches
      /\ TreeOK(tree, fetch, ctx) /\ RecentOK(tree)
  BY <1>1 DEF SidebarIInv, Sound
<1> QED
  BY <1>1, <1>2, LenProperties

LEMMA AskListMoves ==
    ASSUME SidebarIInv, NEW c \in Conns, AskList(c)
    PROVE  Moves
<1> DEFINE d == StartDbList(Now, c)
<1>1. Dispatched(d) /\ ctx' = ctx
  BY DEF AskList
<1>2. Len(d.fetch) <= MaxFetches
  BY <1>1 DEF Dispatched
<1>3. Sound(d, ctx) /\ Len(d.fetch) = Len(Now.fetch) + 1
  <2>1. d = StartDbList(Now, c)
    OBVIOUS
  <2> HIDE DEF d
  <2> QED
    BY <1>2, <2>1, NowIs, StartDbListOK
<1> HIDE DEF d
<1> QED
  BY <1>1, <1>3, NowIs, DispatchedOK

LEMMA LoadSchemaMoves ==
    ASSUME SidebarIInv, NEW k \in Keys, LoadSchema(k)
    PROVE  Moves
<1> DEFINE d == StartSchema(Now, ActiveKey, k)
<1>1. Dispatched(d) /\ ctx' = ctx /\ (HasSlot(tree, k) \/ ActiveKey = k)
  BY DEF LoadSchema
<1>2. Len(d.fetch) <= MaxFetches
  BY <1>1 DEF Dispatched
<1>3. Sound(d, ctx) /\ Len(d.fetch) = Len(Now.fetch) + 1
  <2>1. d = StartSchema(Now, ActiveKey, k) /\ (HasSlot(Now.tree, k) \/ ActiveKey = k)
    BY <1>1, NowIs
  <2> HIDE DEF d
  <2> QED
    BY <1>2, <2>1, NowIs, StartSchemaOK
<1> HIDE DEF d
<1> QED
  BY <1>1, <1>3, NowIs, DispatchedOK

LEMMA SwitchLandsMoves ==
    ASSUME SidebarIInv, NEW i, NEW open \in SUBSET Conns, SwitchLands(i, open)
    PROVE  Moves
<1> DEFINE k == switches[i].key
           schema == StartSchema(Now, k, k)
           list == IF switches[i].listed THEN StartDbList(schema, k[1]) ELSE schema
           some == open \cup {k[1]}
           d == LoadMissing(list, some)
<1>1. Dispatched(d) /\ ctx' = ctx /\ i \in flying
  BY DEF SwitchLands
<1>2. k \in Keys /\ k[1] \in Conns /\ some \in SUBSET Conns
  <2>1. i \in DOMAIN switches
    BY <1>1, NowIs DEF SidebarTypeOK
  <2>2. switches[i] \in [key : Keys, ctx : 0 .. MaxSwaps, listed : BOOLEAN]
    BY <2>1, NowIs, SwitchIs
  <2>3. k \in Keys
    BY <2>2
  <2> HIDE DEF k
  <2> QED
    BY <2>3, KeyParts
<1>3. schema = StartSchema(Now, k, k) /\ d = LoadMissing(list, some)
      /\ (list = StartDbList(schema, k[1]) \/ list = schema)
  OBVIOUS
<1> HIDE DEF k, schema, list, some, d
<1>4. schema.fetch \in Seq(Fetches) /\ Len(schema.fetch) = Len(fetch) + 1
  BY <1>2, <1>3, NowIs, FetchesGrow
<1>5. list.fetch \in Seq(Fetches) /\ Len(list.fetch) >= Len(schema.fetch)
  <2>1. CASE list = StartDbList(schema, k[1])
    <3>1. Len(list.fetch) = Len(schema.fetch) + 1 /\ list.fetch \in Seq(Fetches)
      BY <2>1, <1>2, <1>4, NowIs, FetchesGrow
    <3> QED
      BY <3>1, <1>4, NowIs
  <2>2. CASE list = schema
    BY <2>2, <1>4, NowIs
  <2> QED
    BY <1>3, <2>1, <2>2
<1>6. d.fetch \in Seq(Fetches) /\ Len(d.fetch) >= Len(list.fetch) /\ Len(d.fetch) <= MaxFetches
  BY <1>1, <1>2, <1>3, <1>5, NowIs, FetchesGrow DEF Dispatched
<1>7. Len(schema.fetch) \in Nat /\ Len(list.fetch) \in Nat /\ Len(d.fetch) \in Nat /\ MaxFetches \in Nat
  BY <1>4, <1>5, <1>6, LenProperties, SidebarAssumption
<1>8. Sound(schema, ctx)
  <2>1. Len(schema.fetch) <= MaxFetches
    BY <1>5, <1>6, <1>7
  <2> QED
    BY <1>2, <1>3, <2>1, NowIs, StartSchemaOK
<1>9. Sound(list, ctx)
  <2>1. Len(list.fetch) <= MaxFetches
    BY <1>6, <1>7
  <2>2. CASE list = StartDbList(schema, k[1])
    BY <2>1, <2>2, <1>2, <1>8, NowIs, StartDbListOK
  <2> QED
    BY <1>3, <1>8, <2>2
<1>10. Sound(d, ctx)
  BY <1>2, <1>3, <1>6, <1>9, NowIs, LoadMissingOK
<1>11. Len(d.fetch) > Len(fetch)
  BY <1>4, <1>5, <1>6, <1>7, NowIs
<1> QED
  BY <1>1, <1>10, <1>11, DispatchedOK

LEMMA ListLandsMoves ==
    ASSUME SidebarIInv, NEW g, NEW names \in Lists \cup {{}}, ListLands(g, names)
    PROVE  Moves
<1> DEFINE l == IF names # {} THEN "ok" ELSE "error"
           a == IF names # {} THEN Reply("server", fetch[g].ctx) ELSE Failure
           x == fetch[g].key[1]
<1>1. /\ g \in DOMAIN fetch /\ fetch[g].kind = "list" /\ ctx' = ctx
      /\ fetch' = [fetch EXCEPT ![g].live = l]
      /\ tree' = FinishDbList(tree, ActiveKey, x, g, a, names)
  BY DEF ListLands
<1>2. fetch[g] \in Fetches
  BY <1>1, NowIs, ElementOfSeq
<1>3. x \in Conns /\ fetch[g].served \in BOOLEAN /\ l \in {"pending", "ok", "error"}
  BY <1>2 DEF Fetches
<1>4. fetch' \in Seq(Fetches) /\ Len(fetch') = Len(fetch) /\ Marked(fetch, g, fetch')
  <2> DEFINE s == fetch[g].served
  <2>1. fetch' = [fetch EXCEPT ![g] = [fetch[g] EXCEPT !.live = l, !.served = s]]
    <3>1. [fetch[g] EXCEPT !.live = l] = [fetch[g] EXCEPT !.live = l, !.served = s]
      BY <1>2 DEF Fetches
    <3>2. fetch' = [fetch EXCEPT ![g] = [fetch[g] EXCEPT !.live = l]]
      BY <1>1
    <3> QED
      BY <3>1, <3>2
  <2>2. s \in BOOLEAN
    BY <1>3
  <2> HIDE DEF l, s
  <2> QED
    BY <1>1, <1>3, <2>1, <2>2, NowIs, MarkedIs
<1>5. a \in Replies(fetch[g].ctx) /\ a.from # "cache"
  BY DEF Replies, Reply, Failure
<1>6. names \in NameSets
  BY SidebarAssumption DEF NameSets
<1> HIDE DEF a, x, l
<1>7. tree' \in Trees /\ TreeOK(tree', fetch', ctx) /\ RecentOK(tree') /\ Stays(tree, tree', ActiveKey)
  <2>1. fetch[g].key[1] = x
    BY DEF x
  <2>2. /\ tree \in Trees /\ fetch \in Seq(Fetches) /\ Len(fetch) <= MaxFetches
        /\ TreeOK(tree, fetch, ctx) /\ RecentOK(tree)
    BY NowIs
  <2>3. g \in DOMAIN fetch /\ fetch[g].kind = "list"
    BY <1>1
  <2>4. tree' = FinishDbList(tree, ActiveKey, x, g, a, names)
    BY <1>1
  <2>5. PICK t, f, e, c, y, b, u, act :
           /\ t = tree /\ f = fetch /\ e = fetch' /\ c = ctx
           /\ y = x /\ b = a /\ u = tree' /\ act = ActiveKey
    OBVIOUS
  <2>6. /\ t \in Trees /\ f \in Seq(Fetches) /\ Len(f) <= MaxFetches /\ g \in DOMAIN f
        /\ Marked(f, g, e) /\ TreeOK(t, f, c) /\ RecentOK(t)
        /\ y \in Conns /\ f[g].key[1] = y /\ f[g].kind = "list"
        /\ b \in Replies(f[g].ctx) /\ b.from # "cache" /\ names \in NameSets
        /\ u = FinishDbList(t, act, y, g, b, names)
    BY <1>3, <1>4, <1>5, <1>6, <2>1, <2>2, <2>3, <2>4, <2>5
  <2>7. u \in Trees /\ TreeOK(u, e, c) /\ RecentOK(u) /\ Stays(t, u, act)
    BY ONLY <2>6, FinishDbListOK
  <2> QED
    BY <2>5, <2>7
<1> QED
  BY <1>1, <1>4, <1>7, NowIs, SoundNow DEF Moves

(* The answer of a fetch of a schema lands.                                *)
LEMMA AnswerMoves ==
    ASSUME SidebarIInv, NEW g \in DOMAIN fetch, fetch[g].kind = "schema",
           NEW l \in {"pending", "ok", "error"}, NEW s \in BOOLEAN,
           fetch' = [fetch EXCEPT ![g] = [fetch[g] EXCEPT !.live = l, !.served = s]],
           NEW a \in Replies(fetch[g].ctx), ctx' = ctx,
           \/ tree' = FinishSchema(tree, ActiveKey, fetch[g].key, g, a)
           \/ tree' = tree /\ fetch[g].served
    PROVE  Moves
<1>0. /\ tree \in Trees /\ fetch \in Seq(Fetches) /\ Len(fetch) <= MaxFetches
      /\ TreeOK(tree, fetch, ctx) /\ RecentOK(tree)
  BY NowIs
<1>1. fetch' \in Seq(Fetches) /\ Len(fetch') = Len(fetch) /\ Marked(fetch, g, fetch')
  <2>1. fetch' = [fetch EXCEPT ![g] = [fetch[g] EXCEPT !.live = l, !.served = s]]
    OBVIOUS
  <2> QED
    BY ONLY g \in DOMAIN fetch, l \in {"pending", "ok", "error"}, s \in BOOLEAN, <1>0, <2>1, MarkedIs
<1>2. fetch[g].key \in Keys
  <2>1. fetch[g] \in Fetches
    BY NowIs, ElementOfSeq
  <2> QED
    BY <2>1 DEF Fetches
<1>3. tree' \in Trees /\ TreeOK(tree', fetch', ctx) /\ RecentOK(tree') /\ Stays(tree, tree', ActiveKey)
  <2> DEFINE k == fetch[g].key
  <2>1. CASE tree' = FinishSchema(tree, ActiveKey, k, g, a)
    <3>1. k \in Keys /\ fetch[g].key = k
      BY <1>2
    <3> HIDE DEF k
    <3>2. fetch[g].kind = "schema" /\ a \in Replies(fetch[g].ctx)
      OBVIOUS
    <3> QED
      BY ONLY g \in DOMAIN fetch, <1>0, <1>1, <2>1, <3>1, <3>2, FinishSchemaOK
  <2>2. CASE tree' = tree /\ fetch[g].served
    <3>1. TreeOK(tree, fetch', ctx)
      BY <1>1, <2>2, NowIs, ServedOK
    <3>2. Stays(tree, tree', ActiveKey)
      BY <2>2 DEF Stays
    <3> QED
      BY <2>2, <3>1, <3>2, NowIs
  <2> QED
    BY <2>1, <2>2
<1> QED
  BY <1>1, <1>3, NowIs, SoundNow DEF Moves

LEMMA CacheLandsMoves ==
    ASSUME SidebarIInv, NEW g, CacheLands(g)
    PROVE  Moves
<1> DEFINE k == fetch[g].key
           a == Reply("cache", disk.schemas[k])
           l == fetch[g].live
<1>1. /\ g \in DOMAIN fetch /\ fetch[g].kind = "schema" /\ ctx' = ctx
      /\ fetch' = [fetch EXCEPT ![g].served = TRUE]
      /\ disk.schemas[k] # Nil
      /\ tree' = FinishSchema(tree, ActiveKey, k, g, a)
  BY DEF CacheLands
<1>2. fetch[g] \in Fetches
  BY <1>1, NowIs, ElementOfSeq
<1>3. k \in Keys /\ l \in {"pending", "ok", "error"}
  BY <1>1, <1>2 DEF Fetches
<1>4. fetch' = [fetch EXCEPT ![g] = [fetch[g] EXCEPT !.live = l, !.served = TRUE]]
  <2>1. [fetch[g] EXCEPT !.served = TRUE] = [fetch[g] EXCEPT !.live = l, !.served = TRUE]
    BY <1>2 DEF Fetches
  <2>2. fetch' = [fetch EXCEPT ![g] = [fetch[g] EXCEPT !.served = TRUE]]
    BY <1>1
  <2> QED
    BY <2>1, <2>2
<1>5. a \in Replies(fetch[g].ctx)
  <2>1. disk.schemas[k] \in 0 .. MaxSwaps
    BY <1>1, <1>3, NowIs DEF SidebarTypeOK
  <2> QED
    BY <2>1 DEF Replies
<1>6. TRUE \in BOOLEAN /\ tree' = FinishSchema(tree, ActiveKey, fetch[g].key, g, a)
  BY <1>1
<1> HIDE DEF k, a, l
<1> QED
  BY <1>1, <1>3, <1>4, <1>5, <1>6, AnswerMoves

LEMMA SchemaLandsMoves ==
    ASSUME SidebarIInv, NEW g, NEW ok \in BOOLEAN, SchemaLands(g, ok)
    PROVE  Moves
<1> DEFINE l == IF ok THEN "ok" ELSE "error"
           a == IF ok THEN Reply("server", fetch[g].ctx) ELSE Failure
<1>1. /\ g \in DOMAIN fetch /\ fetch[g].kind = "schema" /\ ctx' = ctx
      /\ fetch' = [fetch EXCEPT ![g].live = l, ![g].served = FALSE]
      /\ tree' = IF ~ok /\ fetch[g].served THEN tree
                 ELSE FinishSchema(tree, ActiveKey, fetch[g].key, g, a)
  BY DEF SchemaLands
<1>2. fetch[g] \in Fetches
  BY <1>1, NowIs, ElementOfSeq
<1>3. l \in {"pending", "ok", "error"} /\ FALSE \in BOOLEAN
  OBVIOUS
<1>4. fetch' = [fetch EXCEPT ![g] = [fetch[g] EXCEPT !.live = l, !.served = FALSE]]
  BY <1>1, NowIs
<1>5. a \in Replies(fetch[g].ctx)
  BY DEF Replies
<1>6. \/ tree' = FinishSchema(tree, ActiveKey, fetch[g].key, g, a)
      \/ tree' = tree /\ fetch[g].served
  BY <1>1
<1> HIDE DEF a, l
<1> QED
  BY <1>1, <1>3, <1>4, <1>5, <1>6, AnswerMoves

LEMMA SwapContextMoves ==
    ASSUME SidebarIInv, SwapContext
    PROVE  Moves
<1>1. tree' = Bare /\ fetch' = fetch /\ active' = 0
  BY DEF SwapContext, Cleared
<1> QED
  BY <1>1, NowIs, BareOK, SoundNow DEF Moves

LEMMA OthersMove ==
    ASSUME SidebarIInv, UNCHANGED <<tree, fetch, ctx>>
    PROVE  Moves
<1>1. Stays(tree, tree', ActiveKey)
  BY DEF Stays
<1> QED
  BY <1>1, NowIs, SoundNow DEF Moves

LEMMA NextMoves ==
    ASSUME SidebarIInv, [SidebarNext]_sidebarVars
    PROVE  Moves
<1>1. ASSUME NEW c \in Conns, AskList(c) PROVE Moves
  BY <1>1, AskListMoves
<1>2. ASSUME NEW k \in Keys, LoadSchema(k) PROVE Moves
  BY <1>2, LoadSchemaMoves
<1>3. ASSUME NEW k \in Keys, NEW listed \in BOOLEAN, SwitchTo(k, listed) PROVE Moves
  BY <1>3, OthersMove DEF SwitchTo
<1>4. CASE SwapContext
  BY <1>4, SwapContextMoves
<1>5. ASSUME NEW g, Lands(g) PROVE Moves
  BY <1>5, ListLandsMoves, SchemaLandsMoves DEF Lands
<1>6. ASSUME NEW g, CacheLands(g) PROVE Moves
  BY <1>6, CacheLandsMoves
<1>7. ASSUME NEW i, NEW open \in SUBSET Conns, SwitchLands(i, open) PROVE Moves
  BY <1>7, SwitchLandsMoves
<1>8. CASE Lap
  BY <1>8, OthersMove DEF Lap, PrefetchStarts, PrefetchEnds
<1>9. ASSUME NEW ok \in BOOLEAN, PrefetchLands(ok) PROVE Moves
  BY <1>9, OthersMove DEF PrefetchLands
<1>10. CASE UNCHANGED sidebarVars
  BY <1>10, OthersMove DEF sidebarVars
<1> QED
  BY <1>1, <1>2, <1>3, <1>4, <1>5, <1>6, <1>7, <1>8, <1>9, <1>10 DEF SidebarNext, SidebarUser

-----------------------------------------------------------------------------
(* Everything but the tree and the fetches. *)

LEMMA RestIs ==
    SidebarTypeOK <=> tree \in Trees /\ fetch \in Seq(Fetches) /\ Len(fetch) <= MaxFetches /\ RestOK
<1> QED
  BY DEF SidebarTypeOK, RestOK

LEMMA RestStep ==
    ASSUME SidebarIInv, [SidebarNext]_sidebarVars
    PROVE  RestOK' /\ SwitchesOK'
<1>0. RestOK /\ SwitchesOK /\ SidebarTypeOK
  BY RestIs DEF SidebarIInv
<1>1. CASE UNCHANGED <<switches, flying, lastSwitch, active, ctx, disk, prefetch>>
  BY <1>0, <1>1 DEF RestOK, SwitchesOK
<1>2. ASSUME NEW k \in Keys, NEW listed \in BOOLEAN, SwitchTo(k, listed) PROVE RestOK' /\ SwitchesOK'
  <2> DEFINE S == [key : Keys, ctx : 0 .. MaxSwaps, listed : BOOLEAN]
             r == [key |-> k, ctx |-> ctx, listed |-> listed]
  <2>1. /\ switches' = Append(switches, r) /\ flying' = flying \cup {Len(switches')}
        /\ lastSwitch' = Len(switches') /\ UNCHANGED <<active, ctx, disk, prefetch>>
    BY <1>2 DEF SwitchTo
  <2>2. r \in S /\ r.ctx = ctx /\ switches \in Seq(S)
    BY <1>0 DEF RestOK
  <2> HIDE DEF S, r
  <2>3. /\ switches' \in Seq(S) /\ Len(switches') = Len(switches) + 1
        /\ switches'[Len(switches) + 1] = r
        /\ \A i \in 1 .. Len(switches) : switches'[i] = switches[i]
    <3>1. switches' \in Seq(S)
      BY <2>1, <2>2
    <3> QED
      BY <2>1, <2>2, <3>1, AppendProperties
  <2>4. DOMAIN switches = 1 .. Len(switches) /\ Len(switches) \in Nat /\ DOMAIN switches' = 1 .. Len(switches')
    BY <2>2, <2>3, LenProperties
  <2>5. RestOK'
    <3>1. flying' \subseteq DOMAIN switches' /\ lastSwitch' \in DOMAIN switches'
          /\ active' \in {0} \cup DOMAIN switches'
      BY <1>0, <2>1, <2>3, <2>4 DEF RestOK
    <3> QED
      BY <1>0, <2>1, <2>3, <3>1 DEF RestOK, S
  <2>6. SwitchesOK'
    <3>1. switches'[lastSwitch'].ctx = ctx'
      BY <2>1, <2>2, <2>3
    <3>2. active' # 0 => switches'[active'] = switches[active] /\ active # 0
      BY <1>0, <2>1, <2>3, <2>4 DEF RestOK
    <3> QED
      BY <1>0, <2>1, <3>1, <3>2 DEF SwitchesOK
  <2> QED
    BY <2>5, <2>6
<1>3. CASE SwapContext
  BY <1>0, <1>3, SidebarAssumption DEF SwapContext, RestOK, SwitchesOK
<1>4. ASSUME NEW i, NEW open \in SUBSET Conns, SwitchLands(i, open) PROVE RestOK' /\ SwitchesOK'
  <2>1. /\ i \in flying /\ i = lastSwitch /\ flying' = flying \ {i} /\ active' = i
        /\ UNCHANGED <<switches, lastSwitch, ctx, disk, prefetch>>
    BY <1>4 DEF SwitchLands, Superseded
  <2>2. RestOK'
    BY <1>0, <2>1 DEF RestOK
  <2>3. SwitchesOK'
    <3>1. i # 0
      <4>1. i \in DOMAIN switches
        BY <1>0, <2>1 DEF RestOK
      <4>2. DOMAIN switches = 1 .. Len(switches)
        BY <1>0, LenProperties DEF RestOK
      <4> QED
        BY <4>1, <4>2
    <3> QED
      BY <1>0, <2>1, <3>1 DEF SwitchesOK
  <2> QED
    BY <2>2, <2>3
<1> DEFINE Disks == [lists : [Conns -> {Nil} \cup [ctx : 0 .. MaxSwaps, names : SUBSET Dbs]],
                     schemas : [Keys -> {Nil} \cup 0 .. MaxSwaps]]
           Prefetches == [armed : BOOLEAN, target : {Nil} \cup [key : Keys, ctx : 0 .. MaxSwaps],
                          fails : 0 .. MaxFails]
<1>5. ASSUME UNCHANGED <<switches, flying, lastSwitch, active, ctx>>, disk' \in Disks, prefetch' \in Prefetches
      PROVE  RestOK' /\ SwitchesOK'
  BY <1>0, <1>5 DEF RestOK, SwitchesOK
<1>6. disk \in Disks /\ prefetch \in Prefetches
  BY <1>0 DEF RestOK
<1>7. ASSUME NEW g, NEW names \in Lists \cup {{}}, ListLands(g, names) PROVE RestOK' /\ SwitchesOK'
  <2> DEFINE x == fetch[g].key[1]
             e == [ctx |-> fetch[g].ctx, names |-> names]
  <2>1. /\ g \in DOMAIN fetch /\ UNCHANGED <<switches, flying, lastSwitch, active, ctx>>
        /\ disk' = IF names # {} THEN [disk EXCEPT !.lists[x] = e] ELSE disk
        /\ prefetch' = [prefetch EXCEPT !.armed = TRUE]
    BY <1>7 DEF ListLands
  <2>2. fetch[g] \in Fetches
    BY <2>1, NowIs, ElementOfSeq
  <2>3. x \in Conns /\ e \in [ctx : 0 .. MaxSwaps, names : SUBSET Dbs]
    BY <2>2, SidebarAssumption DEF Fetches
  <2> HIDE DEF x, e
  <2>4. disk' \in Disks /\ prefetch' \in Prefetches
    BY <1>6, <2>1, <2>3
  <2> HIDE DEF Disks, Prefetches
  <2> QED
    BY <1>5, <2>1, <2>4
<1>8. ASSUME NEW g, NEW ok \in BOOLEAN, SchemaLands(g, ok) PROVE RestOK' /\ SwitchesOK'
  <2> DEFINE k == fetch[g].key
             c == fetch[g].ctx
  <2>1. /\ g \in DOMAIN fetch /\ fetch[g].kind = "schema"
        /\ UNCHANGED <<switches, flying, lastSwitch, active, ctx, prefetch>>
        /\ disk' = IF ok THEN [disk EXCEPT !.schemas[k] = c] ELSE disk
    BY <1>8 DEF SchemaLands
  <2>2. fetch[g] \in Fetches
    BY <2>1, NowIs, ElementOfSeq
  <2>3. k \in Keys /\ c \in 0 .. MaxSwaps
    BY <2>1, <2>2 DEF Fetches
  <2> HIDE DEF k, c
  <2>4. disk' \in Disks /\ prefetch' \in Prefetches
    BY <1>6, <2>1, <2>3
  <2> HIDE DEF Disks, Prefetches
  <2> QED
    BY <1>5, <2>1, <2>4
<1>9. CASE PrefetchStarts
  <2>1. active # 0 /\ UNCHANGED <<switches, flying, lastSwitch, active, ctx, disk>>
    BY <1>9 DEF PrefetchStarts, PrefetchMayStart
  <2>2. PICK k \in Candidates(ActiveKey[1]) :
              prefetch' = [prefetch EXCEPT !.target = [key |-> k, ctx |-> ctx]]
    BY <1>9 DEF PrefetchStarts
  <2>3. k \in Keys
    <3> DEFINE x == ActiveKey[1]
    <3>1. x \in Conns
      BY <1>0, <2>1, ActiveKeyIs, KeyParts
    <3>2. tree.lists[x] \in Rows
      <4> HIDE DEF x
      <4> QED
        BY <3>1, NowIs, TreeParts
    <3>3. tree.lists[x].names \subseteq Dbs
      <4> HIDE DEF x
      <4> QED
        BY <3>2 DEF Rows
    <3>4. k \in {x} \X tree.lists[x].names
      BY DEF Candidates
    <3> HIDE DEF x
    <3> QED
      BY <3>1, <3>3, <3>4 DEF Keys
  <2>4. ctx \in 0 .. MaxSwaps
    BY <1>0 DEF RestOK
  <2>5. disk' \in Disks /\ prefetch' \in Prefetches
    BY <1>6, <2>1, <2>2, <2>3, <2>4
  <2> HIDE DEF Disks, Prefetches
  <2> QED
    BY <1>5, <2>1, <2>5
<1>10. CASE PrefetchEnds
  <2>1. /\ UNCHANGED <<switches, flying, lastSwitch, active, ctx, disk>>
        /\ prefetch' = [prefetch EXCEPT !.armed = FALSE]
    BY <1>10 DEF PrefetchEnds
  <2>2. disk' \in Disks /\ prefetch' \in Prefetches
    BY <1>6, <2>1
  <2> HIDE DEF Disks, Prefetches
  <2> QED
    BY <1>5, <2>1, <2>2
<1>11. ASSUME NEW ok \in BOOLEAN, PrefetchLands(ok) PROVE RestOK' /\ SwitchesOK'
  <2> DEFINE w == prefetch.target
             n == prefetch.fails + (IF ok THEN 0 ELSE 1)
  <2>1. /\ UNCHANGED <<switches, flying, lastSwitch, active, ctx>> /\ w # Nil
        /\ ok \/ prefetch.fails < MaxFails
        /\ disk' = IF ok THEN [disk EXCEPT !.schemas[w.key] = w.ctx] ELSE disk
        /\ prefetch' = [prefetch EXCEPT !.target = Nil, !.fails = n]
    BY <1>11 DEF PrefetchLands
  <2>2. w \in [key : Keys, ctx : 0 .. MaxSwaps]
    BY <1>6, <2>1
  <2>3. n \in 0 .. MaxFails
    <3>1. prefetch.fails \in 0 .. MaxFails /\ MaxFails \in Nat
      BY <1>6, SidebarAssumption
    <3> QED
      BY <2>1, <3>1
  <2> HIDE DEF w, n
  <2>4. disk' \in Disks /\ prefetch' \in Prefetches
    BY <1>6, <2>1, <2>2, <2>3
  <2> HIDE DEF Disks, Prefetches
  <2> QED
    BY <1>5, <2>1, <2>4
<1> HIDE DEF Disks, Prefetches
<1>12. ASSUME NEW g, CacheLands(g) PROVE RestOK' /\ SwitchesOK'
  BY <1>1, <1>12 DEF CacheLands
<1>13. ASSUME NEW c \in Conns, AskList(c) PROVE RestOK' /\ SwitchesOK'
  BY <1>1, <1>13 DEF AskList
<1>14. ASSUME NEW k \in Keys, LoadSchema(k) PROVE RestOK' /\ SwitchesOK'
  BY <1>1, <1>14 DEF LoadSchema
<1>15. CASE UNCHANGED sidebarVars
  BY <1>1, <1>15 DEF sidebarVars
<1> QED
  BY <1>2, <1>3, <1>4, <1>7, <1>8, <1>9, <1>10, <1>11, <1>12, <1>13, <1>14, <1>15
     DEF SidebarNext, SidebarUser, Lands, Lap

-----------------------------------------------------------------------------
(* The theorems. *)

LEMMA SidebarStarts ==
    ASSUME SidebarInit
    PROVE  SidebarIInv
<1>1. tree = Bare /\ fetch = <<>> /\ active = 0 /\ lastSwitch = 0 /\ ctx = 0
  BY DEF SidebarInit
<1>2. <<>> \in Seq(Fetches) /\ Len(<<>>) = 0 /\ MaxFetches \in Nat
  BY SidebarAssumption
<1>3. Sound(Now, ctx)
  <2>1. tree \in Trees /\ TreeOK(tree, fetch, ctx) /\ RecentOK(tree)
    BY <1>1, BareOK
  <2>2. Now.tree = tree /\ Now.fetch = fetch
    BY DEF Now
  <2> QED
    BY <1>1, <1>2, <2>1, <2>2 DEF Sound
<1>4. RestOK
  <2>1. 0 \in 0 .. MaxSwaps /\ 0 \in 0 .. MaxFails
    BY SidebarAssumption
  <2>2. /\ disk \in [lists : [Conns -> {Nil} \cup [ctx : 0 .. MaxSwaps, names : SUBSET Dbs]],
                     schemas : [Keys -> {Nil} \cup 0 .. MaxSwaps]]
        /\ prefetch \in [armed : BOOLEAN, target : {Nil} \cup [key : Keys, ctx : 0 .. MaxSwaps],
                         fails : 0 .. MaxFails]
    BY <2>1 DEF SidebarInit
  <2>3. <<>> \in Seq([key : Keys, ctx : 0 .. MaxSwaps, listed : BOOLEAN])
    OBVIOUS
  <2> QED
    BY <2>1, <2>2, <2>3 DEF SidebarInit, RestOK
<1>5. SidebarTypeOK
  BY <1>1, <1>2, <1>3, <1>4, RestIs, BareOK
<1> QED
  BY <1>1, <1>3, <1>5 DEF SidebarIInv, SwitchesOK

LEMMA SidebarStep ==
    ASSUME SidebarIInv, [SidebarNext]_sidebarVars
    PROVE  SidebarIInv'
<1>1. Sound([tree |-> tree', fetch |-> fetch'], ctx')
  BY NextMoves DEF Moves
<1>2. Sound(Now, ctx)'
  BY <1>1 DEF Now
<1>3. tree' \in Trees /\ fetch' \in Seq(Fetches) /\ Len(fetch') <= MaxFetches
  BY <1>1, SoundNow
<1>4. RestOK' /\ SwitchesOK'
  BY RestStep
<1>5. SidebarTypeOK'
  BY <1>3, <1>4 DEF SidebarTypeOK, RestOK
<1> QED
  BY <1>2, <1>4, <1>5 DEF SidebarIInv

LEMMA SidebarSafe ==
    ASSUME SidebarIInv
    PROVE  SidebarInv
<1>1. SidebarTypeOK /\ tree \in Trees /\ TreeOK(tree, fetch, ctx) /\ RecentOK(tree) /\ SwitchesOK
  BY NowIs DEF SidebarIInv
<1>2. CacheBounded
  BY <1>1 DEF RecentOK, CacheBounded
<1>3. /\ \A c \in Conns : RowOK(fetch, ctx, c, tree.lists[c])
      /\ \A k \in Keys : SlotOK(fetch, ctx, k, tree.slots[k], tree.lists[k[1]])
      /\ tree.fallback # Nil => SlotOK(fetch, ctx, tree.fallback.key, tree.fallback.slot, tree.lists[tree.fallback.key[1]])
  BY <1>1 DEF TreeOK, TreeBut
<1>4. ASSUME NEW k \in Keys PROVE SlotOK(fetch, ctx, k, Shown(tree, k), tree.lists[k[1]])
  <2>1. CASE HasSlot(tree, k)
    BY <2>1, <1>3, ShownIs
  <2>2. CASE ~HasSlot(tree, k) /\ HasFallback(tree, k)
    BY <2>2, <1>3, ShownIs DEF HasFallback
  <2>3. CASE ~HasSlot(tree, k) /\ ~HasFallback(tree, k)
    BY <2>3, ShownIs DEF SlotOK, Empty
  <2> QED
    BY <2>1, <2>2, <2>3
<1>5. ContextsApart
  BY <1>1, <1>3, <1>4 DEF ContextsApart, RowOK, SlotOK, SwitchesOK
<1>6. LoadingIsAwaited
  BY <1>3, <1>4 DEF LoadingIsAwaited, RowOK, SlotOK, Painted
<1>7. NewestWins
  BY <1>4 DEF NewestWins, SlotOK, Painted
<1> QED
  BY <1>1, <1>2, <1>5, <1>6, <1>7 DEF SidebarInv

LEMMA SidebarIsInductive == SidebarSpec => []SidebarIInv
<1> QED
  BY SidebarStarts, SidebarStep, PTL DEF SidebarSpec

(* No more schemas in memory than the cache's cap, nothing shown of        *)
(* another context, every loading row awaited, and the newest answer wins, *)
(* for any number of connections, databases and fetches in flight          *)
(* (schema_tree.rs, and the handlers of main.rs behind it).                *)
THEOREM SidebarIsSafe == SidebarSpec => []SidebarInv
<1> QED
  BY SidebarIsInductive, SidebarSafe, PTL

LEMMA ActiveStep ==
    ASSUME SidebarIInv, [SidebarNext]_sidebarVars, active # 0, active' = active, Len(fetch') = Len(fetch),
           ~Painted(ActiveKey[1]), Shown(tree, ActiveKey).st = "loaded"
    PROVE  Shown(tree', ActiveKey).st = "loaded"
<1>1. Len(fetch') > Len(fetch) \/ Stays(tree, tree', ActiveKey) \/ active' = 0
  BY NextMoves DEF Moves
<1>2. ~(Len(fetch') > Len(fetch))
  BY NowIs
<1>3. ActiveKey \in Keys
  BY NowIs, ActiveKeyIs
<1> QED
  BY <1>1, <1>2, <1>3 DEF Stays, Painted, PaintedIn

(* The schema of the active database is not taken away by an answer to     *)
(* something else, an eviction or the prefetch (touch_and_evict,           *)
(* migrate_fallback).                                                      *)
THEOREM ActiveSchemaStays == SidebarSpec => ActiveKeepsItsSchema
<1>1. SidebarIInv /\ [SidebarNext]_sidebarVars =>
        [ active # 0 /\ active' = active /\ Len(fetch') = Len(fetch) /\ ~Painted(ActiveKey[1])
          /\ Shown(tree, ActiveKey).st = "loaded"
          => Shown(tree', ActiveKey).st = "loaded" ]_sidebarVars
  BY ActiveStep
<1> QED
  BY <1>1, SidebarIsInductive, PTL DEF SidebarSpec, ActiveKeepsItsSchema
=============================================================================
