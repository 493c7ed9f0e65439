--------------------------- MODULE RunManyProofs ----------------------------
(***************************************************************************)
(* Theorems about RunMany, for every number of runs, editor tabs,          *)
(* statements and rows. The loop works on the tab that is active, so what  *)
(* is said of the tabs (EditorsOK, ResultClosed) is for a user who stays   *)
(* in one; what is said of a run (Heard, HistoryOK) holds in any case,     *)
(* because the locals of a loop are its own.                               *)
(***************************************************************************)
EXTENDS RunMany, StatementsProofs

(* The entries of the history, and the types of the tabs and of what the   *)
(* loops keep.                                                             *)
Entries == [ok : BOOLEAN, rows : Nat]

LocalTypes ==
    /\ guard \subseteq Jobs
    /\ open \subseteq Editors /\ active \in open
    /\ cancel \in [Editors -> 0 .. MaxRuns]
    /\ generation \in [Editors -> Nat]
    /\ results \in [Editors -> SUBSET (Nat \ {0})]
    /\ nextId \in [Editors -> Nat \ {0}]
    /\ home \in [Runs -> Nat]
    /\ mine \in [Runs -> Nat]
    /\ tabId \in [Runs -> Nat]
    /\ stored \in [Runs -> Nat]
    /\ counted \in [Runs -> Nat]
    /\ errored \subseteq Runs
    /\ history \in [Runs -> Seq(Entries)]
    /\ moved \in BOOLEAN

(* The editor tabs.  For a user who stays in one, every run is of that     *)
(* tab, and the token in its slot is that of its newest run, which is      *)
(* going on.                                                               *)
EditorsOK ==
    /\ \A e \in Editors : \A i \in results[e] : i < nextId[e]
    /\ ~moved =>
         /\ \A r \in Runs : loop[r] # "none" => home[r] = active
         /\ cancel[active] # NoRun => /\ loop[cancel[active]] = "recv"
                                      /\ mine[cancel[active]] = generation[active]

(* A run that has not begun.                                               *)
Untouched(r) ==
    /\ task[JobOf(r)].at = "none" /\ chan[JobOf(r)] = <<>>
    /\ tabId[r] = 0 /\ stored[r] = 0 /\ counted[r] = 0 /\ r \notin errored /\ history[r] = <<>>

(* What the loop has made of the events up to c.                           *)
Heard(r, c) ==
    /\ c.phase \in {"next", "stream", "exec"} =>
         /\ Len(history[r]) = 0
         /\ r \notin errored => counted[r] = SumOf(truth[JobOf(r)])[Complete(c)]
    /\ c.phase = "stream" => tabId[r] # 0 /\ (r \notin errored => stored[r] = c.rows)
    /\ c.phase \in {"good", "bad"} => Len(history[r]) = 1

(* One entry at most; one that says ok is true, and stays true because the *)
(* task has nothing left to do.                                            *)
HistoryOK(r) ==
    /\ Len(history[r]) <= 1
    /\ \A i \in 1 .. Len(history[r]) :
         history[r][i].ok => /\ task[JobOf(r)].at \in {"good", "done"}
                             /\ AllOk(JobOf(r)) /\ history[r][i].rows = RowsThere(JobOf(r))

(* The task has died in mid-statement.                                     *)
Dead(r) ==
    /\ task[JobOf(r)].at = "done"
    /\ \E s \in DOMAIN text[r] : truth[JobOf(r)][s].state = "running"

(* A run that ended is recorded, or there is a reason why not; while the   *)
(* loop listens, the event that makes it record may be on its way.         *)
Recorded(r) == r \in fired \/ Len(history[r]) = 1 \/ Dead(r)
(* The event that will make the loop record the run is on its way.         *)
Coming(r) ==
    \E i \in 1 .. Len(chan[JobOf(r)]) : chan[JobOf(r)][i].ev \in {"StatementFailed", "RunFinished"}
(* The result tab of the run is closed: told as long as the user stays in  *)
(* the tab.                                                                *)
ResultClosed(r) == tabId[r] # 0 /\ (~moved => tabId[r] \notin results[home[r]])

(* What holds of every run.                                                *)
RunOK(r) ==
    /\ loop[r] = "none" => Untouched(r)
    /\ loop[r] # "none" => /\ task[JobOf(r)].at # "none"
                           /\ home[r] \in Editors /\ mine[r] <= generation[home[r]]
                           /\ ~moved => tabId[r] < nextId[home[r]]
    /\ TaskOK(JobOf(r))
    /\ Len(chan[JobOf(r)]) <= ChanCap
    /\ tabId[r] = 0 => stored[r] = 0
    /\ HistoryOK(r)
    /\ loop[r] = "recv" => \E c \in Cursors : Leads(JobOf(r), c) /\ Heard(r, c)
    /\ loop[r] = "recv" /\ task[JobOf(r)].at \in {"good", "bad", "done"} => Recorded(r) \/ Coming(r)
    /\ loop[r] = "done" => Recorded(r) \/ ResultClosed(r)

(* The inductive invariant.                                                *)
IInv == JobTypes /\ LocalTypes /\ EditorsOK /\ \A r \in Runs : RunOK(r)

(* The run r does nothing: at most its token fires, and tabs change.       *)
Still(r) ==
    /\ task'[JobOf(r)] = task[JobOf(r)] /\ chan'[JobOf(r)] = chan[JobOf(r)]
    /\ truth'[JobOf(r)] = truth[JobOf(r)]
    /\ text'[r] = text[r] /\ loop'[r] = loop[r]
    /\ r \in fired => r \in fired'
    /\ home'[r] = home[r] /\ mine'[r] = mine[r] /\ tabId'[r] = tabId[r]
    /\ stored'[r] = stored[r] /\ counted'[r] = counted[r]
    /\ r \in errored' <=> r \in errored
    /\ history'[r] = history[r]

(* What a step may do to the editor tabs, as far as a run notices.         *)
TabsGrow ==
    /\ moved => moved'
    /\ \A e \in Editors : /\ generation[e] <= generation'[e] /\ nextId[e] <= nextId'[e]
                          /\ \A i \in results'[e] : i \in results[e] \/ i >= nextId[e]

(* The jobs are those of the runs.                                         *)
LEMMA JobsAreRuns ==
    /\ \A r \in Runs : JobOf(r) \in Jobs /\ JobOf(r)[1] = r
    /\ \A j \in Jobs : j[1] \in Runs /\ j = JobOf(j[1])
    /\ \A r \in Runs, q \in Runs : r # q => JobOf(r) # JobOf(q)
BY RunManyAssumption DEF JobOf, Jobs, Targets

(* What the loop has heard stays, if nothing happens to it.                *)
LEMMA HeardStays ==
    ASSUME JobTypes, NEW r \in Runs, NEW c \in Cursors, Known(JobOf(r), c), Heard(r, c), Settles(JobOf(r)),
           tabId'[r] = tabId[r], stored'[r] = stored[r], counted'[r] = counted[r],
           r \in errored' <=> r \in errored, history'[r] = history[r]
    PROVE  Heard(r, c)'
<1>1. PICK j \in Jobs : j = JobOf(r)
  BY JobsAreRuns
<1>2. c.phase \notin {"bad", "done"} => SumOf(truth'[j])[Complete(c)] = SumOf(truth[j])[Complete(c)]
  BY <1>1, SumStays
<1>3. JobOf(r)' = JobOf(r)
  BY DEF JobOf
<1> QED
  BY <1>1, <1>2, <1>3 DEF Heard

(* What the types say of one run and of the tabs.                          *)
LEMMA LocalFacts ==
    ASSUME LocalTypes, NEW r \in Runs
    PROVE  /\ home[r] \in Nat /\ mine[r] \in Nat /\ tabId[r] \in Nat /\ stored[r] \in Nat /\ counted[r] \in Nat
           /\ history[r] \in Seq(Entries) /\ Len(history[r]) \in Nat
           /\ active \in Editors /\ Editors \subseteq Nat
           /\ \A e \in Editors : /\ generation[e] \in Nat /\ nextId[e] \in Nat \ {0}
                                 /\ cancel[e] \in 0 .. MaxRuns /\ results[e] \subseteq Nat \ {0}
<1>1. Editors \subseteq Nat
  BY RunManyAssumption DEF Editors
<1>2. history[r] \in Seq(Entries)
  BY DEF LocalTypes
<1>3. Len(history[r]) \in Nat
  BY <1>2
<1> QED
  BY <1>1, <1>2, <1>3 DEF LocalTypes

(* A closed result stays closed: the ids of result tabs are used once.     *)
LEMMA ClosedStays ==
    ASSUME LocalTypes, LocalTypes', NEW r \in Runs, ResultClosed(r), TabsGrow,
           home[r] \in Editors, ~moved => tabId[r] < nextId[home[r]],
           home'[r] = home[r], tabId'[r] = tabId[r]
    PROVE  ResultClosed(r)'
<1> SUFFICES ASSUME ~moved', tabId[r] \in results'[home[r]] PROVE FALSE
  BY DEF ResultClosed
<1>1. ~moved /\ tabId[r] < nextId[home[r]] /\ tabId[r] \notin results[home[r]]
  BY DEF TabsGrow, ResultClosed
<1>2. tabId[r] >= nextId[home[r]]
  BY <1>1 DEF TabsGrow
<1>3. tabId[r] \in Nat /\ nextId[home[r]] \in Nat
  BY LocalFacts
<1> QED
  BY <1>1, <1>2, <1>3

(* Nothing happens to the run.                                             *)
LEMMA StillOK ==
    ASSUME JobTypes, LocalTypes, LocalTypes', NEW r \in Runs, RunOK(r), Still(r), TabsGrow
    PROVE  RunOK(r)'
<1>1. PICK j \in Jobs : j = JobOf(r) /\ j[1] = r
  BY JobsAreRuns
<1>2. JobOf(r)' = JobOf(r)
  BY DEF JobOf
<1>3. Settles(j)
  BY <1>1 DEF Still, Settles
<1>4. TaskOK(j)'
  BY <1>1 DEF RunOK, TaskOK, Still
<1>5. AllOk(j)' = AllOk(j) /\ RowsThere(j)' = RowsThere(j)
  BY <1>1 DEF AllOk, RowsThere, Still
<1>6. HistoryOK(r)'
  BY <1>1, <1>2, <1>5 DEF RunOK, HistoryOK, Still
<1>7. Untouched(r) => Untouched(r)'
  BY <1>2 DEF Untouched, Still
<1>8. \A c \in Cursors : Leads(j, c) /\ Heard(r, c) => Leads(j, c)' /\ Heard(r, c)'
  <2> SUFFICES ASSUME NEW c \in Cursors, Leads(j, c), Heard(r, c)
               PROVE  Leads(j, c)' /\ Heard(r, c)'
    OBVIOUS
  <2>1. \A d \in Cursors : Known(j, d) /\ Stands(j, d) => Stands(j, d)'
    BY <1>1 DEF Stands, Still
  <2>2. Leads(j, c)'
    BY <1>1, <1>3, <2>1, LineStays DEF Still
  <2>3. Heard(r, c)'
    BY <1>1, <1>3, LeadsKnown, HeardStays DEF Still
  <2> QED
    BY <2>2, <2>3
<1>9. Recorded(r) => Recorded(r)'
  BY <1>1, <1>2 DEF Recorded, Dead, Still
<1>10. Coming(r) => Coming(r)'
  BY <1>1, <1>2 DEF Coming, Still
<1>11. loop[r] # "none" => mine'[r] <= generation'[home'[r]] /\ (~moved' => tabId'[r] < nextId'[home'[r]])
  <2> SUFFICES ASSUME loop[r] # "none"
               PROVE  mine'[r] <= generation'[home'[r]] /\ (~moved' => tabId'[r] < nextId'[home'[r]])
    OBVIOUS
  <2>1. /\ home[r] \in Editors /\ home'[r] = home[r] /\ mine'[r] = mine[r] /\ tabId'[r] = tabId[r]
        /\ mine[r] <= generation[home[r]] /\ (~moved' => tabId[r] < nextId[home[r]])
    BY DEF RunOK, Still, TabsGrow
  <2>2. generation[home[r]] <= generation'[home[r]] /\ nextId[home[r]] <= nextId'[home[r]]
    BY <2>1 DEF TabsGrow
  <2>3. generation'[home[r]] \in Nat /\ nextId'[home[r]] \in Nat
    BY <2>1 DEF LocalTypes
  <2>4. mine[r] \in Nat /\ tabId[r] \in Nat /\ generation[home[r]] \in Nat /\ nextId[home[r]] \in Nat
    BY <2>1, LocalFacts
  <2> QED
    BY <2>1, <2>2, <2>3, <2>4
<1>12. loop[r] # "none" /\ ResultClosed(r) => ResultClosed(r)'
  BY ClosedStays DEF RunOK, Still
<1>13. loop'[r] = loop[r] /\ task'[j] = task[j] /\ chan'[j] = chan[j] /\ home'[r] = home[r] /\ tabId'[r] = tabId[r] /\ stored'[r] = stored[r]
  BY <1>1 DEF Still
<1> QED
  BY <1>1, <1>2, <1>4, <1>6, <1>7, <1>8, <1>9, <1>10, <1>11, <1>12, <1>13 DEF RunOK

(* A step of run r alone.                                                  *)
LEMMA OneRunOK ==
    ASSUME IInv, NEW r \in Runs, JobTypes', LocalTypes', EditorsOK', RunOK(r)', TabsGrow,
           \A q \in Runs \ {r} : Still(q)
    PROVE  IInv'
BY StillOK DEF IInv

(* The program moves, and the application does nothing.                    *)
Background == UNCHANGED <<editor, locals, moved>>

(* The tabs keep what is said of them when the program moves.              *)
LEMMA BackgroundFacts ==
    ASSUME IInv, Background, loop' = loop, guard' = guard
    PROVE  LocalTypes' /\ EditorsOK' /\ TabsGrow
<1>1. LocalTypes /\ EditorsOK
  BY DEF IInv
<1>2. LocalTypes'
  BY <1>1 DEF LocalTypes, Background, editor, locals
<1>3. EditorsOK'
  BY <1>1 DEF EditorsOK, Background, editor, locals
<1>4. TabsGrow
  BY <1>1 DEF TabsGrow, Background, editor, locals, LocalTypes
<1> QED
  BY <1>2, <1>3, <1>4

(* A step of the program that runs the statements.                         *)
LEMMA TaskStepOK ==
    ASSUME IInv, NEW r \in Runs, Task(r)
    PROVE  IInv'
<1>1. PICK j \in Jobs : j = JobOf(r) /\ j[1] = r
  BY JobsAreRuns
<1>2. JobOf(r)' = JobOf(r)
  BY DEF JobOf
<1>3. JobTypes /\ LocalTypes /\ EditorsOK /\ RunOK(r) /\ TaskOK(j) /\ Job(j) /\ Background
  BY <1>1 DEF IInv, RunOK, Task, Background
<1>4. Stepped(j)
  BY <1>3, JobStep
<1>5. /\ task[j].at \in {"start", "next"} \cup InStatement
      /\ task'[j].at \in {"next", "good", "bad"} \cup InStatement
  BY <1>3, JobPlaces
<1>6. /\ JobTypes' /\ TaskOK(j)' /\ Settles(j)
      /\ UNCHANGED <<text, guard, fired, loop>>
      /\ \A k \in Jobs \ {j} : task'[k] = task[k] /\ chan'[k] = chan[k] /\ truth'[k] = truth[k]
      /\ Len(chan'[j]) <= ChanCap
      /\ loop[r] = "recv" => \A c \in Cursors : Leads(j, c) => Leads(j, c)'
  BY <1>1, <1>3, <1>4 DEF Stepped, RunOK
<1>7. LocalTypes' /\ EditorsOK' /\ TabsGrow
  BY <1>3, <1>6, BackgroundFacts
<1>8. UNCHANGED <<home, mine, tabId, stored, counted, errored, history, generation, nextId, results, moved>>
  BY <1>3 DEF Background, editor, locals
<1>9. \A q \in Runs \ {r} : Still(q)
  <2> SUFFICES ASSUME NEW q \in Runs \ {r} PROVE Still(q)
    OBVIOUS
  <2>1. JobOf(q) \in Jobs \ {j}
    BY <1>1, JobsAreRuns
  <2> QED
    BY <1>6, <1>8, <2>1 DEF Still
<1>10. RunOK(r)'
  <2>1. loop[r] # "none" /\ task'[j].at # "none" /\ task[j].at \notin {"none", "good", "bad", "done"}
    BY <1>1, <1>3, <1>5 DEF RunOK, Untouched, InStatement
  <2>2. HistoryOK(r)'
    BY <1>1, <1>2, <1>3, <1>8, <2>1 DEF RunOK, HistoryOK
  <2>3. loop[r] = "recv" => \E c \in Cursors : Leads(j, c)' /\ Heard(r, c)'
    <3> SUFFICES ASSUME loop[r] = "recv" PROVE \E c \in Cursors : Leads(j, c)' /\ Heard(r, c)'
      OBVIOUS
    <3>1. PICK c \in Cursors : Leads(j, c) /\ Heard(r, c)
      BY <1>1, <1>3 DEF RunOK
    <3>2. Leads(j, c)'
      BY <1>6, <3>1
    <3>3. Heard(r, c)'
      BY <1>1, <1>3, <1>6, <1>8, <3>1, LeadsKnown, HeardStays
    <3> QED
      BY <3>2, <3>3
  <2>4. loop[r] = "recv" /\ task'[j].at \in {"good", "bad", "done"} => Recorded(r)' \/ Coming(r)'
    <3> SUFFICES ASSUME loop[r] = "recv", task'[j].at \in {"good", "bad"}, r \notin fired
                 PROVE  Coming(r)'
      BY <1>5, <1>6 DEF InStatement, Recorded
    <3>1. PICK e \in Events : chan'[j] = Append(chan[j], e) /\ e.ev \in {"StatementFailed", "RunFinished"}
      BY <1>1, <1>3, JobReports
    <3>2. PICK s \in Seq(Events) : s = chan[j]
      BY <1>3, JobFacts
    <3>3. Len(Append(s, e)) + 0 = Len(s) + 1 /\ Append(s, e)[Len(s) + 1] = e /\ Len(s) + 1 \in 1 .. Len(Append(s, e))
      OBVIOUS
    <3> QED
      BY <1>1, <1>2, <3>1, <3>2, <3>3 DEF Coming
  <2>5. loop[r] = "done" => Recorded(r)' \/ ResultClosed(r)'
    <3>1. ResultClosed(r) => ResultClosed(r)'
      BY <1>8 DEF ResultClosed
    <3>2. Recorded(r) => Recorded(r)'
      BY <1>1, <1>6, <1>8, <2>1 DEF Recorded, Dead
    <3> QED
      BY <1>3, <3>1, <3>2 DEF RunOK
  <2> QED
    BY <1>1, <1>2, <1>3, <1>6, <1>8, <2>1, <2>2, <2>3, <2>4, <2>5 DEF RunOK
<1> QED
  BY <1>6, <1>7, <1>9, <1>10, OneRunOK

(* The task ends, in a panic or otherwise.                                 *)
LEMMA EndsOK ==
    ASSUME IInv, NEW r \in Runs, task[JobOf(r)].at \in {"good", "bad", "stream"}, Go(JobOf(r), "done"),
           UNCHANGED <<text, guard, chan, fired, loop, truth, editor, locals, moved>>
    PROVE  IInv'
<1>1. PICK j \in Jobs : j = JobOf(r) /\ j[1] = r
  BY JobsAreRuns
<1>2. JobOf(r)' = JobOf(r)
  BY DEF JobOf
<1>3. JobTypes /\ LocalTypes /\ EditorsOK /\ RunOK(r) /\ TaskOK(j) /\ Background
  BY <1>1 DEF IInv, RunOK, Background
<1>4. PICK n \in 0 .. MaxStmts : n = task[j].stmt
  BY <1>3, JobFacts
<1>5. Place("done", n) \in [at : Places, stmt : 0 .. MaxStmts]
  BY <1>4, PlaceType DEF Places
<1>6. task' = [task EXCEPT ![j] = Place("done", n)]
  BY <1>1, <1>3, <1>4, GoMoves
<1>7. /\ task' \in [Jobs -> [at : Places, stmt : 0 .. MaxStmts]]
      /\ task'[j].at = "done" /\ task'[j].stmt = task[j].stmt
      /\ \A k \in Jobs \ {j} : task'[k] = task[k]
  BY <1>3, <1>4, <1>5, <1>6 DEF JobTypes, Place
<1>8. JobTypes'
  BY <1>3, <1>7 DEF JobTypes
<1>9. TaskOK(j)'
  BY <1>1, <1>3, <1>7 DEF TaskOK, InStatement
<1>10. Settles(j)
  BY DEF Settles
<1>11. LocalTypes' /\ EditorsOK' /\ TabsGrow
  BY <1>3, BackgroundFacts
<1>12. UNCHANGED <<home, mine, tabId, stored, counted, errored, history, generation, nextId, results, moved>>
  BY <1>3 DEF Background, editor, locals
<1>13. \A q \in Runs \ {r} : Still(q)
  <2> SUFFICES ASSUME NEW q \in Runs \ {r} PROVE Still(q)
    OBVIOUS
  <2>1. JobOf(q) \in Jobs \ {j}
    BY <1>1, JobsAreRuns
  <2> QED
    BY <1>7, <1>12, <2>1 DEF Still
<1>14. RunOK(r)'
  <2>1. loop[r] # "none" /\ task'[j].at # "none"
    BY <1>1, <1>3, <1>7 DEF RunOK, Untouched
  <2>2. HistoryOK(r)'
    <3>1. AllOk(j)' = AllOk(j) /\ RowsThere(j)' = RowsThere(j)
      BY DEF AllOk, RowsThere
    <3> QED
      BY <1>1, <1>2, <1>3, <1>7, <1>12, <3>1 DEF RunOK, HistoryOK
  <2>3. loop[r] = "recv" => \E c \in Cursors : Leads(j, c)' /\ Heard(r, c)'
    <3> SUFFICES ASSUME loop[r] = "recv" PROVE \E c \in Cursors : Leads(j, c)' /\ Heard(r, c)'
      OBVIOUS
    <3>1. PICK c \in Cursors : Leads(j, c) /\ Heard(r, c)
      BY <1>1, <1>3 DEF RunOK
    <3>2. Leads(j, c)'
      <4>1. \A d \in Cursors : Stands(j, d)'
        BY <1>7 DEF Stands
      <4> QED
        BY <1>3, <1>10, <3>1, <4>1, LineStays
    <3>3. Heard(r, c)'
      BY <1>1, <1>3, <1>10, <1>12, <3>1, LeadsKnown, HeardStays
    <3> QED
      BY <3>2, <3>3
  <2>4. task[j].at = "stream" => Dead(r)'
    <3> SUFFICES ASSUME task[j].at = "stream" PROVE Dead(r)'
      OBVIOUS
    <3>1. /\ n \in 1 .. MaxStmts /\ n <= Len(text[r]) /\ truth[j][n].state = "running"
      BY <1>1, <1>3, <1>4, JobFacts DEF TaskOK, InStatement
    <3>2. DOMAIN text[r] = 1 .. Len(text[r]) /\ Len(text[r]) \in 0 .. MaxStmts
      <4>1. text[r] \in Texts \cup {<<>>}
        BY <1>1, <1>3, JobFacts
      <4> QED
        BY <4>1, TextTypes
    <3>3. n \in DOMAIN text[r]
      BY <3>1, <3>2
    <3> QED
      BY <1>1, <1>2, <1>7, <3>1, <3>3 DEF Dead
  <2>5. Recorded(r) => Recorded(r)'
    BY <1>1, <1>12 DEF Recorded, Dead
  <2>6. Coming(r) => Coming(r)'
    BY <1>2 DEF Coming
  <2>7. ResultClosed(r) => ResultClosed(r)'
    BY <1>12 DEF ResultClosed
  <2>8. loop[r] = "recv" => Recorded(r)' \/ Coming(r)'
    BY <1>1, <1>3, <2>4, <2>5, <2>6 DEF RunOK, Recorded
  <2> QED
    BY <1>1, <1>2, <1>3, <1>7, <1>9, <1>12, <2>1, <2>2, <2>3, <2>5, <2>7, <2>8 DEF RunOK
<1> QED
  BY <1>8, <1>11, <1>13, <1>14, OneRunOK

(* The user cancels, switches, or closes a tab: the runs notice at most    *)
(* that their token fires.                                                 *)
LEMMA UserMoves ==
    ASSUME IInv, LocalTypes', EditorsOK', TabsGrow, fired \subseteq fired', fired' \subseteq Runs,
           UNCHANGED <<text, guard, task, chan, loop, truth, locals>>
    PROVE  IInv'
<1>1. JobTypes /\ LocalTypes /\ \A r \in Runs : RunOK(r)
  BY DEF IInv
<1>2. JobTypes'
  BY <1>1 DEF JobTypes
<1>3. \A r \in Runs : Still(r)
  BY DEF Still, locals
<1>4. \A r \in Runs : RunOK(r)'
  BY <1>1, <1>3, StillOK
<1> QED
  BY <1>2, <1>4 DEF IInv

(* The token in the slot of a tab is fired.                                *)
LEMMA TakeFacts ==
    ASSUME LocalTypes, fired \subseteq Runs, NEW e \in Editors, Take(e)
    PROVE  /\ fired \subseteq fired' /\ fired' \subseteq Runs
           /\ cancel' \in [Editors -> 0 .. MaxRuns] /\ cancel'[e] = NoRun
           /\ \A d \in Editors : d # e => cancel'[d] = cancel[d]
<1>1. cancel[e] \in 0 .. MaxRuns /\ MaxRuns \in Nat /\ NoRun \in 0 .. MaxRuns
  BY StatementsAssumption DEF LocalTypes, NoRun
<1>2. {cancel[e]} \ {NoRun} \subseteq Runs
  BY <1>1 DEF Runs, NoRun
<1>3. fired \subseteq fired' /\ fired' \subseteq Runs
  BY <1>2 DEF Take
<1>4. cancel' \in [Editors -> 0 .. MaxRuns] /\ cancel'[e] = NoRun
      /\ \A d \in Editors : d # e => cancel'[d] = cancel[d]
  BY <1>1 DEF Take, LocalTypes
<1> QED
  BY <1>3, <1>4

(* Esc: the token in the slot of the active tab is fired.                  *)
LEMMA OnCancelOK ==
    ASSUME IInv, OnCancel
    PROVE  IInv'
<1>1. JobTypes /\ LocalTypes /\ EditorsOK /\ active \in Editors /\ fired \subseteq Runs
  BY DEF IInv, LocalTypes, JobTypes
<1>2. /\ Take(active)
      /\ UNCHANGED <<text, guard, task, chan, loop, truth, open, active, generation, results, nextId, locals, moved>>
  BY DEF OnCancel
<1>3. /\ fired \subseteq fired' /\ fired' \subseteq Runs
      /\ cancel' \in [Editors -> 0 .. MaxRuns] /\ cancel'[active] = NoRun
  BY <1>1, <1>2, TakeFacts
<1>4. LocalTypes'
  BY <1>1, <1>2, <1>3 DEF LocalTypes, locals
<1>5. EditorsOK' /\ TabsGrow
  BY <1>1, <1>2, <1>3 DEF EditorsOK, TabsGrow, LocalTypes, locals
<1> QED
  BY <1>2, <1>3, <1>4, <1>5, UserMoves

(* A result tab is closed: a run may find its result gone.                 *)
LEMMA CloseResultOK ==
    ASSUME IInv, CloseResult
    PROVE  IInv'
<1>1. JobTypes /\ LocalTypes /\ EditorsOK /\ active \in Editors /\ fired \subseteq Runs
  BY DEF IInv, LocalTypes, JobTypes
<1>2. PICK id : results' = [results EXCEPT ![active] = @ \ {id}]
  BY DEF CloseResult
<1>3. /\ UNCHANGED <<text, guard, task, chan, loop, truth, fired, open, active, cancel, generation, nextId, moved>>
      /\ UNCHANGED locals
  BY DEF CloseResult, jobVars
<1>4. /\ results' \in [Editors -> SUBSET (Nat \ {0})]
      /\ \A e \in Editors : results'[e] \subseteq results[e]
  BY <1>1, <1>2 DEF LocalTypes
<1>5. LocalTypes'
  BY <1>1, <1>3, <1>4 DEF LocalTypes, locals
<1>6. EditorsOK' /\ TabsGrow
  BY <1>1, <1>3, <1>4 DEF EditorsOK, TabsGrow, LocalTypes, locals
<1> QED
  BY <1>1, <1>3, <1>5, <1>6, UserMoves

(* The user goes to another editor tab: from here on a loop works on a tab *)
(* that may not be its own.                                                *)
LEMMA SwitchEditorOK ==
    ASSUME IInv, SwitchEditor
    PROVE  IInv'
<1>1. JobTypes /\ LocalTypes /\ EditorsOK /\ fired \subseteq Runs
  BY DEF IInv, JobTypes
<1>2. /\ active' \in open /\ moved' = TRUE
      /\ UNCHANGED <<text, guard, task, chan, loop, truth, fired, open, cancel, generation, results, nextId>>
      /\ UNCHANGED locals
  BY DEF SwitchEditor, jobVars
<1>3. LocalTypes'
  BY <1>1, <1>2 DEF LocalTypes, locals
<1>4. EditorsOK' /\ TabsGrow
  BY <1>1, <1>2 DEF EditorsOK, TabsGrow, LocalTypes
<1> QED
  BY <1>1, <1>2, <1>3, <1>4, UserMoves

(* The active editor tab is closed, its token fired.                       *)
LEMMA CloseEditorOK ==
    ASSUME IInv, CloseEditor
    PROVE  IInv'
<1>1. JobTypes /\ LocalTypes /\ EditorsOK /\ active \in Editors /\ fired \subseteq Runs
  BY DEF IInv, LocalTypes, JobTypes
<1>2. /\ open' = open \ {active} /\ active' \in open' /\ Take(active) /\ moved' = TRUE
      /\ UNCHANGED <<text, guard, task, chan, loop, truth, generation, results, nextId, locals>>
  BY DEF CloseEditor
<1>3. fired \subseteq fired' /\ fired' \subseteq Runs /\ cancel' \in [Editors -> 0 .. MaxRuns]
  BY <1>1, <1>2, TakeFacts
<1>4. LocalTypes'
  BY <1>1, <1>2, <1>3 DEF LocalTypes, locals
<1>5. EditorsOK' /\ TabsGrow
  BY <1>1, <1>2 DEF EditorsOK, TabsGrow, LocalTypes
<1> QED
  BY <1>2, <1>3, <1>4, <1>5, UserMoves

(* A run begins.                                                           *)
LEMMA RunStarts ==
    ASSUME JobTypes, LocalTypes, LocalTypes', NEW r \in Runs, RunOK(r), loop[r] = "none", Run(r)
    PROVE  RunOK(r)'
<1>1. PICK j \in Jobs : j = JobOf(r) /\ j[1] = r
  BY JobsAreRuns
<1>2. JobOf(r)' = JobOf(r)
  BY DEF JobOf
<1>3. /\ task[j].at = "none" /\ chan[j] = <<>> /\ tabId[r] = 0 /\ stored[r] = 0 /\ counted[r] = 0
      /\ r \notin errored /\ history[r] = <<>> /\ TaskOK(j)
  BY <1>1 DEF RunOK, Untouched
<1>4. /\ chan' = chan /\ truth' = truth /\ tabId' = tabId /\ stored' = stored /\ counted' = counted
      /\ errored' = errored /\ history' = history /\ active \in Editors
      /\ home' = [home EXCEPT ![r] = active] /\ mine' = [mine EXCEPT ![r] = generation'[active]]
      /\ task' = [task EXCEPT ![j].at = "start"] /\ loop' = [loop EXCEPT ![r] = "recv"]
      /\ nextId' = nextId
  BY <1>1 DEF Run, LocalTypes
<1>5. PICK sql \in Texts : text' = [text EXCEPT ![r] = sql]
  BY DEF Run
<1>6. text'[r] = sql /\ loop'[r] = "recv" /\ home'[r] = active /\ mine'[r] = generation'[active]
  BY <1>4, <1>5 DEF JobTypes, LocalTypes
<1>7. task'[j].at = "start" /\ task'[j].stmt = 0
  <2>1. task[j].stmt = 0
    BY <1>3 DEF TaskOK
  <2>2. task' = [task EXCEPT ![j] = Place("start", task[j].stmt)]
    BY <1>4, GoMoves DEF Go
  <2> QED
    BY <2>1, <2>2 DEF JobTypes, Place
<1>8. \A s \in 1 .. MaxStmts : truth[j][s] = Unknown
  <2>1. task[j].stmt = 0
    BY <1>3 DEF TaskOK
  <2>2. \A s \in 1 .. MaxStmts : s > task[j].stmt
    BY <2>1
  <2> QED
    BY <1>3, <2>2 DEF TaskOK
<1>9. TaskOK(j)'
  <2>1. Len(sql) \in 0 .. MaxStmts
    BY TextTypes
  <2>2. 0 <= Len(sql)
    BY <2>1
  <2>3. \A s \in 1 .. MaxStmts : ~(s < 0) /\ s # 0
    OBVIOUS
  <2> QED
    BY <1>1, <1>4, <1>6, <1>7, <1>8, <2>2, <2>3 DEF TaskOK, InStatement
<1>10. PICK c \in Cursors : c = At("next", 0, 0) /\ c.phase = "next" /\ c.stmt = 0
  <2>1. 0 \in 0 .. MaxStmts /\ 0 \in 0 .. MaxRows
    BY StatementsAssumption
  <2> QED
    BY <2>1, AtType DEF Phases
<1>11. Leads(j, c)'
  <2>1. \A s \in 1 .. MaxStmts : ~(s <= 0)
    OBVIOUS
  <2>2. Known(j, c)' /\ Stands(j, c)'
    BY <1>7, <1>10, <2>1 DEF Known, Stands, Complete
  <2> QED
    BY <1>3, <1>4, <2>2, LineBegins
<1>12. Heard(r, c)'
  <2>1. SumOf(truth'[j])[0] = 0
    BY NoneCounted
  <2>2. Len(<<>>) = 0 /\ Complete(c) = 0
    BY <1>10 DEF Complete
  <2> QED
    BY <1>1, <1>2, <1>3, <1>4, <1>10, <2>1, <2>2 DEF Heard
<1>13. HistoryOK(r)'
  <2>1. 1 .. Len(<<>>) = {} /\ Len(<<>>) <= 1
    OBVIOUS
  <2> QED
    BY <1>3, <1>4, <2>1 DEF HistoryOK
<1>14. ChanCap \in Nat /\ Len(<<>>) = 0
  BY StatementsAssumption
<1>15. home'[r] \in Editors /\ mine'[r] <= generation'[home'[r]] /\ tabId'[r] < nextId'[home'[r]]
  <2>1. generation'[active] \in Nat /\ nextId[active] \in Nat \ {0}
    BY <1>4 DEF LocalTypes
  <2> QED
    BY <1>3, <1>4, <1>6, <2>1
<1> QED
  BY <1>1, <1>2, <1>3, <1>4, <1>6, <1>7, <1>9, <1>11, <1>12, <1>13, <1>14, <1>15 DEF RunOK

(* A run begins.                                                           *)
LEMMA RunBeginsOK ==
    ASSUME IInv, NEW r \in Runs, Run(r)
    PROVE  IInv'
<1>1. JobTypes /\ LocalTypes /\ EditorsOK /\ \A q \in Runs : RunOK(q)
  BY DEF IInv
<1>2. PICK j \in Jobs : j = JobOf(r) /\ j[1] = r
  BY JobsAreRuns
<1>3. /\ loop[r] = "none" /\ cancel[active] = NoRun
      /\ loop' = [loop EXCEPT ![r] = "recv"]
      /\ task' = [task EXCEPT ![j].at = "start"]
      /\ cancel' = [cancel EXCEPT ![active] = r]
      /\ generation' = [generation EXCEPT ![active] = @ + 1]
      /\ home' = [home EXCEPT ![r] = active]
      /\ mine' = [mine EXCEPT ![r] = generation'[active]]
      /\ UNCHANGED <<chan, fired, truth, open, active, results, nextId, tabId, stored, counted, errored, history, moved>>
  BY <1>2 DEF Run, Busy
<1>4. PICK sql \in Texts, ro \in BOOLEAN :
         /\ text' = [text EXCEPT ![r] = sql]
         /\ guard' = IF ro THEN guard \cup {JobOf(r)} ELSE guard
  BY DEF Run
<1>5. active \in Editors /\ generation[active] \in Nat /\ r \in 0 .. MaxRuns /\ r # NoRun
  BY <1>1, StatementsAssumption DEF LocalTypes, Runs, NoRun
<1>6. JobTypes'
  <2>1. task' = [task EXCEPT ![j] = Place("start", task[j].stmt)]
    BY <1>1, <1>3, GoMoves DEF Go
  <2>2. Place("start", task[j].stmt) \in [at : Places, stmt : 0 .. MaxStmts]
    <3>1. PICK n \in 0 .. MaxStmts : n = task[j].stmt
      BY <1>1, JobFacts
    <3> QED
      BY <3>1, PlaceType DEF Places
  <2>3. task' \in [Jobs -> [at : Places, stmt : 0 .. MaxStmts]]
    BY <1>1, <2>1, <2>2 DEF JobTypes
  <2>4. text' \in [Runs -> Texts \cup {<<>>}]
    BY <1>1, <1>4 DEF JobTypes
  <2>5. loop' \in [Runs -> {"none", "recv", "done"}]
    BY <1>1, <1>3 DEF JobTypes
  <2> QED
    BY <1>1, <1>3, <2>3, <2>4, <2>5 DEF JobTypes
<1>7. /\ generation' \in [Editors -> Nat] /\ cancel' \in [Editors -> 0 .. MaxRuns]
      /\ generation'[active] = generation[active] + 1 /\ cancel'[active] = r
      /\ \A e \in Editors : generation[e] <= generation'[e]
  BY <1>1, <1>3, <1>5 DEF LocalTypes
<1>8. /\ home' \in [Runs -> Nat] /\ home'[r] = active /\ \A q \in Runs \ {r} : home'[q] = home[q]
  <2>1. active \in Nat
    BY <1>1, LocalFacts
  <2> QED
    BY <1>1, <1>3, <2>1 DEF LocalTypes
<1>9. /\ mine' \in [Runs -> Nat] /\ mine'[r] = generation'[active] /\ \A q \in Runs \ {r} : mine'[q] = mine[q]
  <2>1. PICK g \in Nat : g = generation'[active]
    BY <1>5, <1>7
  <2>2. mine' = [mine EXCEPT ![r] = g]
    BY <1>3, <2>1
  <2> QED
    BY <1>1, <2>1, <2>2 DEF LocalTypes
<1>10. LocalTypes'
  <2>1. guard' \subseteq Jobs
    BY <1>1, <1>2, <1>4 DEF LocalTypes
  <2> QED
    BY <1>1, <1>3, <1>7, <1>8, <1>9, <2>1 DEF LocalTypes
<1>11. /\ loop'[r] = "recv" /\ \A q \in Runs \ {r} : loop'[q] = loop[q]
       /\ \A q \in Runs \ {r} : text'[q] = text[q]
       /\ \A k \in Jobs \ {j} : task'[k] = task[k]
  BY <1>1, <1>3, <1>4 DEF JobTypes
<1>12. EditorsOK'
  <2>1. \A e \in Editors : \A i \in results'[e] : i < nextId'[e]
    BY <1>1, <1>3 DEF EditorsOK
  <2>2. ~moved' => \A q \in Runs : loop'[q] # "none" => home'[q] = active'
    BY <1>1, <1>3, <1>8, <1>11 DEF EditorsOK
  <2>3. loop'[cancel'[active']] = "recv" /\ mine'[cancel'[active']] = generation'[active']
    BY <1>3, <1>7, <1>9, <1>11
  <2> QED
    BY <2>1, <2>2, <2>3 DEF EditorsOK
<1>13. TabsGrow
  BY <1>1, <1>3, <1>7 DEF TabsGrow, LocalTypes
<1>14. \A q \in Runs \ {r} : Still(q)
  <2> SUFFICES ASSUME NEW q \in Runs \ {r} PROVE Still(q)
    OBVIOUS
  <2>1. JobOf(q) \in Jobs \ {j}
    BY <1>2, JobsAreRuns
  <2> QED
    BY <1>3, <1>8, <1>9, <1>11, <2>1 DEF Still
<1>15. RunOK(r)'
  BY <1>1, <1>3, <1>10, RunStarts
<1> QED
  BY <1>6, <1>10, <1>12, <1>13, <1>14, <1>15, OneRunOK

(* The user keeps the invariant.                                           *)
LEMMA UserOK ==
    ASSUME IInv, User
    PROVE  IInv'
BY RunBeginsOK, OnCancelOK, CloseResultOK, SwitchEditorOK, CloseEditorOK DEF User

(* The loop has the event e in hand: it is at c and will be at d.          *)
Hearing(r, c, e, d) ==
    /\ c \in Cursors /\ d \in Cursors /\ e \in Events /\ e = Head(chan[JobOf(r)])
    /\ Known(JobOf(r), c) /\ Heard(r, c) /\ Known(JobOf(r), d) /\ Hears(JobOf(r), c, e, d)

(* What an arm of the event loop finds.                                    *)
LEMMA HearingIt ==
    ASSUME IInv, NEW r \in Runs, NEW ev, Handle(r, ev), fired \subseteq fired'
    PROVE  \E c, d, e : /\ Hearing(r, c, e, d) /\ e.ev = ev
                        /\ Continue(JobOf(r)) => Leads(JobOf(r), d)'
<1>1. PICK j \in Jobs : j = JobOf(r) /\ j[1] = r
  BY JobsAreRuns
<1>2. JobOf(r)' = JobOf(r)
  BY DEF JobOf
<1>3. /\ JobTypes /\ RunOK(r) /\ loop[r] = "recv" /\ chan[j] # <<>> /\ Head(chan[j]).ev = ev
      /\ task' = task /\ truth' = truth /\ text' = text
  BY <1>1 DEF IInv, Handle, Ready
<1>4. PICK c \in Cursors : Leads(j, c) /\ Heard(r, c)
  BY <1>1, <1>3 DEF RunOK
<1>5. PICK d \in Cursors : /\ Known(j, c) /\ Known(j, d) /\ Hears(j, c, Head(chan[j]), d)
                           /\ (/\ chan'[j] = Tail(chan[j]) /\ Settles(j)
                               /\ (\A b \in Cursors : Known(j, b) /\ Stands(j, b) => Stands(j, b)'))
                              => Leads(j, d)'
  BY <1>3, <1>4, LineShrinks
<1>6. Continue(j) => Leads(j, d)'
  <2>1. Settles(j) /\ \A b \in Cursors : Known(j, b) /\ Stands(j, b) => Stands(j, b)'
    BY <1>3 DEF Settles, Stands
  <2>2. chan \in [Jobs -> Seq(Events)]
    BY <1>3 DEF JobTypes
  <2>3. Continue(j) => chan'[j] = Tail(chan[j])
    BY <2>2 DEF Continue
  <2> QED
    BY <1>5, <2>1, <2>3
<1>7. PICK e \in Events : e = Head(chan[j])
  <2>1. chan[j] \in Seq(Events)
    BY <1>3, JobFacts
  <2> QED
    BY <1>3, <2>1
<1> QED
  BY <1>1, <1>2, <1>3, <1>4, <1>5, <1>6, <1>7 DEF Hearing

(* The locals of the other runs are theirs.                                *)
Others(r) ==
    \A q \in Runs \ {r} :
        /\ tabId'[q] = tabId[q] /\ stored'[q] = stored[q] /\ counted'[q] = counted[q]
        /\ q \in errored' <=> q \in errored
        /\ history'[q] = history[q]

(* An event is dealt with and the loop goes on.                            *)
LEMMA ArmDone ==
    ASSUME IInv, NEW r \in Runs, NEW ev, Handle(r, ev), Continue(JobOf(r)),
           fired \subseteq fired', fired' \subseteq Runs,
           LocalTypes', EditorsOK', TabsGrow, Others(r), HistoryOK(r)',
           ~moved => tabId'[r] < nextId'[home[r]],
           tabId'[r] = 0 => stored'[r] = 0,
           NEW d \in Cursors, Leads(JobOf(r), d)', Heard(r, d)',
           Len(history'[r]) = 1 \/ (ev \notin {"StatementFailed", "RunFinished"} /\ history'[r] = history[r])
    PROVE  IInv'
<1>1. PICK j \in Jobs : j = JobOf(r) /\ j[1] = r
  BY JobsAreRuns
<1>2. JobOf(r)' = JobOf(r)
  BY DEF JobOf
<1>3. /\ JobTypes /\ LocalTypes /\ RunOK(r) /\ loop[r] = "recv" /\ chan[j] # <<>> /\ Head(chan[j]).ev = ev
      /\ chan' = [chan EXCEPT ![j] = Tail(@)] /\ loop' = loop
      /\ UNCHANGED <<text, guard, task, truth, home, mine, moved, generation>>
  BY <1>1 DEF IInv, Handle, Ready, Continue
<1>4. PICK s \in Seq(Events) : s = chan[j]
  BY <1>3, JobFacts
<1>5. /\ chan' \in [Jobs -> Seq(Events)] /\ chan'[j] = Tail(s) /\ \A k \in Jobs \ {j} : chan'[k] = chan[k]
  BY <1>3, <1>4 DEF JobTypes
<1>6. JobTypes'
  BY <1>3, <1>5 DEF JobTypes
<1>7. \A q \in Runs \ {r} : Still(q)
  <2> SUFFICES ASSUME NEW q \in Runs \ {r} PROVE Still(q)
    OBVIOUS
  <2>1. JobOf(q) \in Jobs \ {j}
    BY <1>1, JobsAreRuns
  <2> QED
    BY <1>3, <1>5, <2>1 DEF Still, Others
<1>8. RunOK(r)'
  <2>1. s # <<>> /\ Len(Tail(s)) = Len(s) - 1 /\ Len(s) \in Nat /\ ChanCap \in Nat
    BY <1>3, <1>4, StatementsAssumption
  <2>2. Len(chan'[j]) <= ChanCap
    BY <1>1, <1>3, <1>4, <1>5, <2>1 DEF RunOK
  <2>3. TaskOK(j)'
    BY <1>1, <1>3 DEF RunOK, TaskOK
  <2>4. Coming(r) /\ ev \notin {"StatementFailed", "RunFinished"} => Coming(r)'
    <3> SUFFICES ASSUME Coming(r), ev \notin {"StatementFailed", "RunFinished"} PROVE Coming(r)'
      OBVIOUS
    <3>1. PICK i \in 1 .. Len(s) : s[i].ev \in {"StatementFailed", "RunFinished"}
      BY <1>1, <1>4 DEF Coming
    <3>2. i # 1
      BY <1>3, <1>4, <2>1, <3>1
    <3>3. i - 1 \in 1 .. Len(Tail(s)) /\ Tail(s)[i - 1] = s[i]
      BY <2>1, <3>1, <3>2
    <3> QED
      BY <1>1, <1>2, <1>5, <3>1, <3>3 DEF Coming
  <2>5. Recorded(r) /\ history'[r] = history[r] => Recorded(r)'
    BY <1>1, <1>2, <1>3 DEF Recorded, Dead
  <2>6. task'[j].at \in {"good", "bad", "done"} => Recorded(r)' \/ Coming(r)'
    <3>1. CASE Len(history'[r]) = 1
      BY <3>1 DEF Recorded
    <3>2. CASE ev \notin {"StatementFailed", "RunFinished"} /\ history'[r] = history[r]
      BY <1>1, <1>3, <2>4, <2>5, <3>2 DEF RunOK
    <3> QED
      BY <3>1, <3>2
  <2>7. home'[r] \in Editors /\ mine'[r] <= generation'[home'[r]] /\ task'[j].at # "none"
    BY <1>1, <1>3 DEF RunOK
  <2>8. ~moved' => tabId'[r] < nextId'[home'[r]]
    BY <1>3
  <2>9. \E c \in Cursors : Leads(j, c)' /\ Heard(r, c)'
    BY <1>1, <1>2
  <2> QED
    BY <1>1, <1>2, <1>3, <2>2, <2>3, <2>6, <2>7, <2>8, <2>9 DEF RunOK
<1> QED
  BY <1>6, <1>7, <1>8, OneRunOK

(* The loop ends: the slot is free, or that of a newer run.                *)
LEMMA LoopEnds ==
    ASSUME IInv, NEW r \in Runs, loop[r] = "recv", Leave(r),
           NEW slots, cancel' = Tidy(r, slots), slots = cancel \/ slots = [cancel EXCEPT ![active] = NoRun],
           fired \subseteq fired', fired' \subseteq Runs,
           UNCHANGED <<text, guard, task, truth, open, active, generation, results, nextId, locals, moved>>,
           Recorded(r) \/ ResultClosed(r)
    PROVE  IInv'
<1>1. PICK j \in Jobs : j = JobOf(r) /\ j[1] = r
  BY JobsAreRuns
<1>2. JobOf(r)' = JobOf(r)
  BY DEF JobOf
<1>3. JobTypes /\ LocalTypes /\ EditorsOK /\ RunOK(r) /\ active \in Editors
  BY DEF IInv, LocalTypes
<1>4. UNCHANGED <<home, mine, tabId, stored, counted, errored, history>>
  BY DEF locals
<1>5. /\ loop' \in [Runs -> {"none", "recv", "done"}] /\ loop'[r] = "done"
      /\ \A q \in Runs \ {r} : loop'[q] = loop[q]
  BY <1>3 DEF JobTypes, Leave
<1>6. /\ chan' \in [Jobs -> Seq(Events)] /\ chan'[j] = <<>>
      /\ \A k \in Jobs : k[1] # r => chan'[k] = chan[k]
  <2>1. chan' = [k \in Jobs |-> IF k[1] = r THEN <<>> ELSE chan[k]]
    BY DEF Leave
  <2>2. <<>> \in Seq(Events)
    OBVIOUS
  <2> QED
    BY <1>1, <1>3, <2>1, <2>2 DEF JobTypes
<1>7. JobTypes'
  BY <1>3, <1>5, <1>6 DEF JobTypes
<1>8. /\ cancel' \in [Editors -> 0 .. MaxRuns]
      /\ cancel'[active] # NoRun => cancel'[active] = cancel[active] /\ generation[active] # mine[r]
  <2>1. NoRun \in 0 .. MaxRuns
    BY StatementsAssumption DEF NoRun
  <2>2. slots \in [Editors -> 0 .. MaxRuns] /\ (slots[active] # NoRun => slots[active] = cancel[active])
    BY <1>3, <2>1 DEF LocalTypes
  <2> QED
    BY <1>3, <2>1, <2>2 DEF Tidy
<1>9. LocalTypes'
  BY <1>3, <1>4, <1>8 DEF LocalTypes
<1>10. EditorsOK'
  <2>1. ~moved' /\ cancel'[active] # NoRun =>
            loop'[cancel'[active]] = "recv" /\ mine'[cancel'[active]] = generation'[active]
    <3> SUFFICES ASSUME ~moved, cancel'[active] # NoRun
                 PROVE  loop'[cancel'[active]] = "recv" /\ mine'[cancel'[active]] = generation'[active]
      OBVIOUS
    <3>1. PICK q : q = cancel[active]
      OBVIOUS
    <3>2. /\ cancel'[active] = q /\ q # NoRun /\ generation[active] # mine[r]
          /\ loop[q] = "recv" /\ mine[q] = generation[active]
      BY <1>3, <1>8, <3>1 DEF EditorsOK
    <3>3. q \in Runs \ {r}
      <4>1. q \in 0 .. MaxRuns
        BY <1>3, <3>1 DEF LocalTypes
      <4> QED
        BY <3>2, <4>1, StatementsAssumption DEF Runs, NoRun
    <3> QED
      BY <1>4, <1>5, <3>2, <3>3
  <2>2. ~moved' => \A q \in Runs : loop'[q] # "none" => home'[q] = active'
    BY <1>3, <1>4, <1>5 DEF EditorsOK
  <2> QED
    BY <1>3, <2>1, <2>2 DEF EditorsOK
<1>11. TabsGrow
  BY <1>3 DEF TabsGrow, LocalTypes
<1>12. \A q \in Runs \ {r} : Still(q)
  <2> SUFFICES ASSUME NEW q \in Runs \ {r} PROVE Still(q)
    OBVIOUS
  <2>1. JobOf(q) \in Jobs /\ JobOf(q)[1] = q
    BY JobsAreRuns
  <2> QED
    BY <1>4, <1>5, <1>6, <2>1 DEF Still
<1>13. RunOK(r)'
  <2>1. TaskOK(j)'
    BY <1>1, <1>3 DEF RunOK, TaskOK
  <2>2. AllOk(j)' = AllOk(j) /\ RowsThere(j)' = RowsThere(j)
    BY DEF AllOk, RowsThere
  <2>3. HistoryOK(r)'
    BY <1>1, <1>2, <1>3, <1>4, <2>2 DEF RunOK, HistoryOK
  <2>4. Recorded(r) => Recorded(r)'
    BY <1>1, <1>2, <1>4 DEF Recorded, Dead
  <2>5. ResultClosed(r) => ResultClosed(r)'
    BY <1>4 DEF ResultClosed
  <2>6. ChanCap \in Nat /\ Len(<<>>) = 0
    BY StatementsAssumption
  <2>7. /\ home'[r] \in Editors /\ mine'[r] <= generation'[home'[r]] /\ task'[j].at # "none"
        /\ ~moved' => tabId'[r] < nextId'[home'[r]]
        /\ tabId'[r] = 0 => stored'[r] = 0
    BY <1>1, <1>3, <1>4 DEF RunOK
  <2> QED
    BY <1>1, <1>2, <1>5, <1>6, <2>1, <2>3, <2>4, <2>5, <2>6, <2>7 DEF RunOK
<1> QED
  BY <1>7, <1>9, <1>10, <1>11, <1>12, <1>13, OneRunOK

(* The channel is closed: the task has ended, and no event is left.        *)
LEMMA ChannelClosedOK ==
    ASSUME IInv, NEW r \in Runs, ChannelClosed(r)
    PROVE  IInv'
<1>1. /\ loop[r] = "recv" /\ chan[JobOf(r)] = <<>> /\ task[JobOf(r)].at = "done"
      /\ Leave(r) /\ cancel' = Tidy(r, cancel) /\ fired' = fired
      /\ UNCHANGED <<text, guard, task, truth, open, active, generation, results, nextId, locals, moved>>
  BY DEF ChannelClosed
<1>2. fired \subseteq Runs /\ RunOK(r)
  BY DEF IInv, JobTypes
<1>3. ~Coming(r)
  <2>1. 1 .. Len(<<>>) = {}
    OBVIOUS
  <2> QED
    BY <1>1, <2>1 DEF Coming
<1>4. Recorded(r)
  BY <1>1, <1>2, <1>3 DEF RunOK
<1> QED
  BY <1>1, <1>2, <1>4, LoopEnds

(* What an arm of the loop starts from.                                    *)
LEMMA ArmFacts ==
    ASSUME IInv, NEW r \in Runs, NEW ev, Handle(r, ev)
    PROVE  /\ JobTypes /\ LocalTypes /\ EditorsOK /\ RunOK(r) /\ HistoryOK(r)
           /\ JobOf(r) \in Jobs /\ JobOf(r)[1] = r /\ JobOf(r)' = JobOf(r)
           /\ loop[r] = "recv" /\ fired \subseteq Runs /\ active \in Editors
           /\ task[JobOf(r)].at # "none" /\ TaskOK(JobOf(r))
           /\ home[r] \in Editors /\ (~moved => home[r] = active /\ tabId[r] < nextId[home[r]])
           /\ (tabId[r] = 0 => stored[r] = 0)
           /\ UNCHANGED <<text, guard, task, truth, open, active, generation, home, mine, moved>>
           /\ MaxStmts \in Nat /\ MaxRows \in Nat
<1>1. JobOf(r) \in Jobs /\ JobOf(r)[1] = r /\ JobOf(r)' = JobOf(r)
  BY JobsAreRuns DEF JobOf
<1>2. loop[r] = "recv" /\ UNCHANGED <<text, guard, task, truth, open, active, generation, home, mine, moved>>
  BY <1>1 DEF Handle, Ready
<1>3. JobTypes /\ LocalTypes /\ EditorsOK /\ RunOK(r)
  BY DEF IInv
<1>4. active \in Editors /\ fired \subseteq Runs
  BY <1>3 DEF LocalTypes, JobTypes
<1>5. /\ task[JobOf(r)].at # "none" /\ TaskOK(JobOf(r)) /\ HistoryOK(r)
      /\ home[r] \in Editors /\ (~moved => tabId[r] < nextId[home[r]])
      /\ (tabId[r] = 0 => stored[r] = 0)
  BY <1>2, <1>3 DEF RunOK
<1>6. ~moved => home[r] = active
  BY <1>2, <1>3 DEF EditorsOK
<1> QED
  BY <1>1, <1>2, <1>3, <1>4, <1>5, <1>6, StatementsAssumption

(* The slot of the active tab is taken, or stays.                          *)
LEMMA ArmTabs ==
    ASSUME LocalTypes, EditorsOK,
           UNCHANGED <<loop, open, active, generation, home, mine, moved, results, nextId>>,
           cancel' = cancel \/ cancel'[active] = NoRun
    PROVE  EditorsOK' /\ TabsGrow
BY DEF EditorsOK, TabsGrow, LocalTypes

(* Nothing is recorded.                                                    *)
LEMMA SameHistory ==
    ASSUME NEW r \in Runs, HistoryOK(r), UNCHANGED <<text, task, truth>>, history'[r] = history[r]
    PROVE  HistoryOK(r)'
<1>1. JobOf(r)' = JobOf(r)
  BY DEF JobOf
<1>2. AllOk(JobOf(r))' = AllOk(JobOf(r)) /\ RowsThere(JobOf(r))' = RowsThere(JobOf(r))
  BY <1>1 DEF AllOk, RowsThere
<1> QED
  BY <1>1, <1>2 DEF HistoryOK

(* A write begins: the loop does nothing.                                  *)
LEMMA OnWriteStartedOK ==
    ASSUME IInv, NEW r \in Runs, OnWriteStarted(r)
    PROVE  IInv'
<1>0. /\ Handle(r, "WriteStarted") /\ Continue(JobOf(r))
      /\ UNCHANGED <<fired, cancel, results, nextId, tabId, stored, counted, errored, history>>
  BY DEF OnWriteStarted
<1>1. PICK c, d, e : Hearing(r, c, e, d) /\ e.ev = "WriteStarted" /\ Leads(JobOf(r), d)'
  BY <1>0, HearingIt
<1>2. PICK n \in Nat : /\ c.phase = "next" /\ c.stmt = n /\ d.phase = "exec" /\ d.stmt = n + 1
                       /\ d \in Cursors
  BY <1>0, <1>1, ArmFacts DEF Hearing, Hears, At, Cursors
<1>3. /\ Len(history[r]) = 0
      /\ r \notin errored => counted[r] = SumOf(truth[JobOf(r)])[n]
  BY <1>1, <1>2 DEF Hearing, Heard, Complete
<1>4. LocalTypes' /\ Others(r)
  BY <1>0, ArmFacts DEF LocalTypes, Others
<1>5. EditorsOK' /\ TabsGrow
  BY <1>0, ArmFacts, ArmTabs DEF Continue
<1>6. HistoryOK(r)'
  BY <1>0, ArmFacts, SameHistory
<1>7. Heard(r, d)'
  <2>1. Complete(d) = n
    BY <1>2 DEF Complete
  <2> QED
    BY <1>0, <1>2, <1>3, <2>1, ArmFacts DEF Heard
<1>8. (~moved => tabId'[r] < nextId'[home[r]]) /\ (tabId'[r] = 0 => stored'[r] = 0) /\ fired \subseteq Runs
  BY <1>0, ArmFacts
<1> QED
  BY <1>0, <1>1, <1>2, <1>4, <1>5, <1>6, <1>7, <1>8, ArmDone

(* A read begins: a result tab is opened in the active tab.                *)
LEMMA OnReadStartedOK ==
    ASSUME IInv, NEW r \in Runs, OnReadStarted(r)
    PROVE  IInv'
<1>0. /\ Handle(r, "ReadStarted") /\ Continue(JobOf(r))
      /\ tabId' = [tabId EXCEPT ![r] = nextId[active]]
      /\ results' = [results EXCEPT ![active] = @ \cup {nextId[active]}]
      /\ nextId' = [nextId EXCEPT ![active] = @ + 1]
      /\ stored' = [stored EXCEPT ![r] = 0]
      /\ UNCHANGED <<fired, cancel, counted, errored, history>>
  BY DEF OnReadStarted
<1>1. PICK c, d, e : Hearing(r, c, e, d) /\ e.ev = "ReadStarted" /\ Leads(JobOf(r), d)'
  BY <1>0, HearingIt
<1>2. PICK n \in Nat : /\ c.phase = "next" /\ c.stmt = n /\ d.phase = "stream" /\ d.stmt = n + 1 /\ d.rows = 0
                       /\ d \in Cursors
  BY <1>0, <1>1, ArmFacts DEF Hearing, Hears, At, Cursors
<1>3. /\ Len(history[r]) = 0
      /\ r \notin errored => counted[r] = SumOf(truth[JobOf(r)])[n]
  BY <1>1, <1>2 DEF Hearing, Heard, Complete
<1>4. PICK id \in Nat \ {0} : id = nextId[active]
  BY <1>0, ArmFacts, LocalFacts
<1>5. /\ LocalTypes /\ EditorsOK /\ active \in Editors
      /\ UNCHANGED <<loop, guard, open, active, generation, home, mine, moved>>
  BY <1>0, ArmFacts DEF Continue
<1>6. /\ tabId' \in [Runs -> Nat] /\ stored' \in [Runs -> Nat] /\ tabId'[r] = id /\ stored'[r] = 0
      /\ Others(r)
  BY <1>0, <1>4, <1>5 DEF LocalTypes, Others
<1>7. /\ results' \in [Editors -> SUBSET (Nat \ {0})] /\ nextId' \in [Editors -> Nat \ {0}]
      /\ results'[active] = results[active] \cup {id} /\ nextId'[active] = id + 1
      /\ \A e1 \in Editors \ {active} : results'[e1] = results[e1] /\ nextId'[e1] = nextId[e1]
  BY <1>0, <1>4, <1>5 DEF LocalTypes
<1>8. LocalTypes'
  BY <1>0, <1>5, <1>6, <1>7 DEF LocalTypes
<1>9. EditorsOK' /\ TabsGrow
  <2>1. ASSUME NEW e1 \in Editors
        PROVE  /\ generation[e1] <= generation'[e1] /\ nextId[e1] <= nextId'[e1]
               /\ \A i \in results'[e1] : i < nextId'[e1] /\ (i \in results[e1] \/ i >= nextId[e1])
    <3>1. CASE e1 = active
      <4>1. \A i \in results[active] : i \in Nat /\ i < id
        BY <1>4, <1>5 DEF EditorsOK, LocalTypes
      <4>2. generation[active] \in Nat
        BY <1>5 DEF LocalTypes
      <4> QED
        BY <1>4, <1>5, <1>7, <3>1, <4>1, <4>2
    <3>2. CASE e1 # active
      <4>1. nextId[e1] \in Nat /\ generation[e1] \in Nat
        BY <1>5 DEF LocalTypes
      <4> QED
        BY <1>5, <1>7, <3>2, <4>1 DEF EditorsOK
    <3> QED
      BY <3>1, <3>2
  <2> QED
    BY <1>0, <1>5, <2>1 DEF EditorsOK, TabsGrow
<1>10. HistoryOK(r)'
  BY <1>0, ArmFacts, SameHistory
<1>11. Heard(r, d)'
  <2>1. Complete(d) = n
    BY <1>2 DEF Complete
  <2> QED
    BY <1>0, <1>2, <1>3, <1>4, <1>6, <2>1, ArmFacts DEF Heard
<1>12. ~moved => tabId'[r] < nextId'[home[r]]
  BY <1>0, <1>4, <1>6, <1>7, ArmFacts
<1>13. fired \subseteq Runs
  BY <1>0, ArmFacts
<1> QED
  BY <1>0, <1>1, <1>2, <1>6, <1>8, <1>9, <1>10, <1>11, <1>12, <1>13, ArmDone

(* A batch while the loop finds the result: it is stored, or the push      *)
(* fails, or an earlier one has failed.                                    *)
LEMMA BatchGoesOn ==
    ASSUME IInv, NEW r \in Runs, Handle(r, "Batch"), Continue(JobOf(r)),
           UNCHANGED <<results, nextId, tabId, counted, history>>,
           \/ r \in errored /\ UNCHANGED <<fired, cancel, stored, errored>>
           \/ /\ r \notin errored /\ stored' = [stored EXCEPT ![r] = @ + 1]
              /\ UNCHANGED <<fired, cancel, errored>>
           \/ errored' = errored \cup {r} /\ Take(active) /\ UNCHANGED stored
    PROVE  IInv'
<1>0. /\ LocalTypes /\ EditorsOK /\ active \in Editors /\ fired \subseteq Runs
      /\ UNCHANGED <<loop, guard, open, active, generation, home, mine, moved>>
  BY ArmFacts DEF Continue
<1>1. /\ fired \subseteq fired' /\ fired' \subseteq Runs
      /\ cancel' \in [Editors -> 0 .. MaxRuns] /\ (cancel' = cancel \/ cancel'[active] = NoRun)
  BY <1>0, TakeFacts DEF LocalTypes
<1>2. PICK c, d, e : Hearing(r, c, e, d) /\ e.ev = "Batch" /\ Leads(JobOf(r), d)'
  BY <1>1, HearingIt
<1>3. PICK s \in Nat, n \in Nat :
          /\ c.phase = "stream" /\ c.stmt = s /\ c.rows = n /\ d.phase = "stream" /\ d.stmt = s
          /\ d.rows = n + 1 /\ d \in Cursors
  <2>1. c \in Cursors /\ d \in Cursors /\ c.phase = "stream" /\ e.stmt = c.stmt
        /\ d = At("stream", e.stmt, c.rows + 1)
    BY <1>2 DEF Hearing, Hears
  <2>2. d.phase = "stream" /\ d.stmt = c.stmt /\ d.rows = c.rows + 1
    BY <2>1 DEF At
  <2>3. c.stmt \in 0 .. MaxStmts /\ c.rows \in 0 .. MaxRows
    BY <2>1 DEF Cursors
  <2>4. c.stmt \in Nat /\ c.rows \in Nat
    BY <2>3, ArmFacts
  <2> QED
    BY <2>1, <2>2, <2>4
<1>4. /\ Len(history[r]) = 0 /\ tabId[r] # 0
      /\ r \notin errored => counted[r] = SumOf(truth[JobOf(r)])[s - 1] /\ stored[r] = n
  BY <1>2, <1>3 DEF Hearing, Heard, Complete
<1>5. /\ stored' \in [Runs -> Nat] /\ errored' \subseteq Runs /\ Others(r)
      /\ r \notin errored' => r \notin errored /\ stored'[r] = stored[r] + 1
  <2>1. stored \in [Runs -> Nat] /\ errored \subseteq Runs
    BY <1>0 DEF LocalTypes
  <2>2. CASE r \in errored /\ UNCHANGED <<fired, cancel, stored, errored>>
    BY <2>1, <2>2 DEF Others
  <2>3. CASE r \notin errored /\ stored' = [stored EXCEPT ![r] = @ + 1] /\ UNCHANGED <<fired, cancel, errored>>
    BY <2>1, <2>3 DEF Others
  <2>4. CASE errored' = errored \cup {r} /\ Take(active) /\ UNCHANGED stored
    BY <2>1, <2>4 DEF Others
  <2> QED
    BY <2>2, <2>3, <2>4
<1>6. LocalTypes'
  BY <1>0, <1>1, <1>5 DEF LocalTypes
<1>7. EditorsOK' /\ TabsGrow
  BY <1>0, <1>1, ArmTabs
<1>8. HistoryOK(r)'
  BY ArmFacts, SameHistory
<1>9. Heard(r, d)'
  <2>1. Complete(d) = s - 1
    BY <1>3 DEF Complete
  <2> QED
    BY <1>3, <1>4, <1>5, <2>1, ArmFacts DEF Heard
<1>10. (~moved => tabId'[r] < nextId'[home[r]]) /\ (tabId'[r] = 0 => stored'[r] = 0)
  BY <1>4, ArmFacts
<1> QED
  BY <1>1, <1>2, <1>3, <1>5, <1>6, <1>7, <1>8, <1>9, <1>10, ArmDone

(* A batch whose result is not in the active tab: the loop ends.           *)
LEMMA BatchFindsNone ==
    ASSUME IInv, NEW r \in Runs, Handle(r, "Batch"), tabId[r] \notin results[active], Leave(r),
           fired' = fired \cup ({cancel[active]} \ {NoRun}),
           cancel' = Tidy(r, [cancel EXCEPT ![active] = NoRun]),
           UNCHANGED <<stored, errored, results, nextId, tabId, counted, history>>
    PROVE  IInv'
<1>1. /\ LocalTypes /\ EditorsOK /\ active \in Editors /\ fired \subseteq Runs /\ loop[r] = "recv"
      /\ UNCHANGED <<text, guard, task, truth, open, active, generation, home, mine, moved>>
  BY ArmFacts
<1>2. UNCHANGED locals
  BY <1>1 DEF locals
<1>3. fired \subseteq fired' /\ fired' \subseteq Runs
  <2>1. cancel[active] \in 0 .. MaxRuns
    BY <1>1 DEF LocalTypes
  <2>2. {cancel[active]} \ {NoRun} \subseteq Runs
    BY <2>1, StatementsAssumption DEF Runs, NoRun
  <2> QED
    BY <1>1, <2>2
<1>4. PICK c, d, e : Hearing(r, c, e, d) /\ e.ev = "Batch"
  BY <1>3, HearingIt
<1>5. tabId[r] # 0
  BY <1>4 DEF Hearing, Hears, Heard
<1>6. ResultClosed(r)
  BY <1>5, ArmFacts DEF ResultClosed
<1> QED
  BY <1>1, <1>2, <1>3, <1>6, LoopEnds

(* The arm of a batch, in its four ways.                                   *)
LEMMA OnBatchOK ==
    ASSUME IInv, NEW r \in Runs, OnBatch(r)
    PROVE  IInv'
<1>1. Handle(r, "Batch") /\ UNCHANGED <<results, nextId, tabId, counted, history>>
  BY DEF OnBatch
<1>2. CASE /\ r \in errored
           /\ Continue(JobOf(r)) /\ UNCHANGED <<fired, cancel, stored, errored>>
  BY <1>1, <1>2, BatchGoesOn
<1>3. CASE /\ tabId[r] \notin results[active]
           /\ fired' = fired \cup ({cancel[active]} \ {NoRun})
           /\ cancel' = Tidy(r, [cancel EXCEPT ![active] = NoRun])
           /\ Leave(r)
           /\ UNCHANGED <<stored, errored>>
  BY <1>1, <1>3, BatchFindsNone
<1>4. CASE /\ r \notin errored /\ Continue(JobOf(r)) /\ stored' = [stored EXCEPT ![r] = @ + 1]
           /\ UNCHANGED <<fired, cancel, errored>>
  BY <1>1, <1>4, BatchGoesOn
<1>5. CASE Continue(JobOf(r)) /\ errored' = errored \cup {r} /\ Take(active) /\ UNCHANGED stored
  BY <1>1, <1>5, BatchGoesOn
<1> QED
  BY <1>2, <1>3, <1>4, <1>5 DEF OnBatch

(* A statement is through: what its buffer holds, or what the event says,  *)
(* is counted.                                                             *)
LEMMA OnStatementFinishedOK ==
    ASSUME IInv, NEW r \in Runs, OnStatementFinished(r)
    PROVE  IInv'
<1>0. PICK ev \in {"ReadFinished", "WriteFinished"} :
          /\ Handle(r, ev)
          /\ ev = "ReadFinished" => counted' = [counted EXCEPT ![r] = @ + stored[r]]
          /\ ev = "WriteFinished" => counted' = [counted EXCEPT ![r] = @ + Head(chan[JobOf(r)]).rows]
  <2>1. CASE Handle(r, "ReadFinished") /\ counted' = [counted EXCEPT ![r] = @ + stored[r]]
    BY <2>1
  <2>2. CASE Handle(r, "WriteFinished") /\ counted' = [counted EXCEPT ![r] = @ + Head(chan[JobOf(r)]).rows]
    BY <2>2
  <2> QED
    BY <2>1, <2>2 DEF OnStatementFinished
<1>1. /\ Continue(JobOf(r))
      /\ UNCHANGED <<fired, cancel, results, nextId, tabId, stored, errored, history>>
  BY DEF OnStatementFinished
<1>2. PICK c, d, e : Hearing(r, c, e, d) /\ e.ev = ev /\ Leads(JobOf(r), d)'
  BY <1>0, <1>1, HearingIt
<1>3. /\ c \in Cursors /\ d \in Cursors /\ e \in Events /\ e = Head(chan[JobOf(r)]) /\ e.stmt = c.stmt
      /\ ev = "ReadFinished" => c.phase = "stream" /\ truth[JobOf(r)][e.stmt] = [state |-> "ok", rows |-> c.rows]
      /\ ev = "WriteFinished" => c.phase = "exec" /\ truth[JobOf(r)][e.stmt] = [state |-> "ok", rows |-> e.rows]
      /\ d = At("next", e.stmt, 0) /\ c.stmt > 0
  BY <1>2 DEF Hearing, Hears, Known
<1>4. PICK s \in 1 .. MaxStmts : c.stmt = s /\ d.phase = "next" /\ d.stmt = s
  <2>1. c.stmt \in 0 .. MaxStmts /\ d.phase = "next" /\ d.stmt = e.stmt
    BY <1>3 DEF Cursors, At
  <2>2. c.stmt \in 1 .. MaxStmts
    BY <1>0, <1>3, <2>1, ArmFacts
  <2> QED
    BY <1>3, <2>1, <2>2
<1>5. /\ Len(history[r]) = 0
      /\ r \notin errored => counted[r] = SumOf(truth[JobOf(r)])[s - 1]
      /\ r \notin errored /\ ev = "ReadFinished" => stored[r] = c.rows
  BY <1>0, <1>2, <1>3, <1>4 DEF Hearing, Heard, Complete
<1>6. PICK n \in Nat : counted' = [counted EXCEPT ![r] = @ + n] /\ (r \notin errored => truth[JobOf(r)][s].rows = n)
  <2>1. CASE ev = "ReadFinished"
    <3>1. stored[r] \in Nat
      BY <1>0, ArmFacts, LocalFacts
    <3> QED
      BY <1>0, <1>3, <1>4, <1>5, <2>1, <3>1
  <2>2. CASE ev = "WriteFinished"
    <3>1. e.rows \in Nat
      BY <1>3 DEF Events
    <3> QED
      BY <1>0, <1>3, <1>4, <2>2, <3>1
  <2> QED
    BY <1>0, <2>1, <2>2
<1>7. /\ LocalTypes /\ EditorsOK /\ JobTypes /\ MaxStmts \in Nat
      /\ UNCHANGED <<loop, guard, open, active, generation, home, mine, moved>>
  BY <1>0, <1>1, ArmFacts DEF Continue
<1>8. /\ counted' \in [Runs -> Nat] /\ counted'[r] = counted[r] + n /\ Others(r)
  <2>1. counted \in [Runs -> Nat]
    BY <1>7 DEF LocalTypes
  <2> QED
    BY <1>1, <1>6, <2>1 DEF Others
<1>9. LocalTypes'
  BY <1>1, <1>7, <1>8 DEF LocalTypes
<1>10. EditorsOK' /\ TabsGrow
  BY <1>1, <1>7, ArmTabs
<1>11. HistoryOK(r)'
  BY <1>0, <1>1, ArmFacts, SameHistory
<1>12. r \notin errored => counted'[r] = SumOf(truth[JobOf(r)])[s]
  <2>1. SumOf(truth[JobOf(r)])[s] = SumOf(truth[JobOf(r)])[s - 1] + truth[JobOf(r)][s].rows
    BY <1>7, SumFacts, JobsAreRuns
  <2> QED
    BY <1>5, <1>6, <1>8, <2>1
<1>13. Heard(r, d)'
  <2>1. Complete(d) = s
    BY <1>4 DEF Complete
  <2> QED
    BY <1>0, <1>1, <1>4, <1>5, <1>12, <2>1, ArmFacts DEF Heard
<1>14. (~moved => tabId'[r] < nextId'[home[r]]) /\ (tabId'[r] = 0 => stored'[r] = 0) /\ fired \subseteq Runs
  BY <1>0, <1>1, ArmFacts
<1> QED
  BY <1>0, <1>1, <1>2, <1>3, <1>8, <1>9, <1>10, <1>11, <1>13, <1>14, ArmDone

(* A first entry in the history of a run.                                  *)
LEMMA FirstEntry ==
    ASSUME LocalTypes, NEW r \in Runs, Len(history[r]) = 0, NEW ok \in BOOLEAN, NEW n \in Nat,
           Record(r, ok, n)
    PROVE  /\ history' \in [Runs -> Seq(Entries)]
           /\ Len(history'[r]) = 1 /\ history'[r][1].ok = ok /\ history'[r][1].rows = n
           /\ \A q \in Runs \ {r} : history'[q] = history[q]
<1>1. PICK x : x = [ok |-> ok, rows |-> n]
  OBVIOUS
<1>2. x \in Entries /\ x.ok = ok /\ x.rows = n
  <2>1. [ok |-> ok, rows |-> n] \in [ok : BOOLEAN, rows : Nat]
    BY Zenon
  <2> QED
    BY <1>1, <2>1, Zenon DEF Entries
<1>3. history' = [history EXCEPT ![r] = Append(history[r], x)]
  BY <1>1, Zenon DEF Record
<1>4. PICK h \in Seq(Entries) : h = history[r]
  BY DEF LocalTypes
<1>5. Append(h, x) \in Seq(Entries) /\ Len(Append(h, x)) = Len(h) + 1 /\ Append(h, x)[Len(h) + 1] = x
  BY <1>2
<1>6. Len(Append(h, x)) = 1 /\ Append(h, x)[1] = x
  BY <1>4, <1>5
<1>7. history' \in [Runs -> Seq(Entries)] /\ history'[r] = Append(h, x)
      /\ \A q \in Runs \ {r} : history'[q] = history[q]
  BY <1>3, <1>4, <1>5 DEF LocalTypes
<1> QED
  BY <1>2, <1>6, <1>7

(* The arms that record, after what they recorded is known to be true.     *)
LEMMA TerminalDone ==
    ASSUME IInv, NEW r \in Runs, NEW ev, Handle(r, ev), Continue(JobOf(r)),
           cancel' = [cancel EXCEPT ![active] = NoRun],
           UNCHANGED <<fired, results, nextId, tabId, stored, counted, errored>>,
           NEW d \in Cursors, Leads(JobOf(r), d)', d.phase \in {"good", "bad"},
           history' \in [Runs -> Seq(Entries)], Len(history'[r]) = 1,
           \A q \in Runs \ {r} : history'[q] = history[q],
           history'[r][1].ok => /\ task[JobOf(r)].at \in {"good", "done"}
                                /\ AllOk(JobOf(r)) /\ history'[r][1].rows = RowsThere(JobOf(r))
    PROVE  IInv'
<1>1. /\ LocalTypes /\ EditorsOK /\ active \in Editors
      /\ UNCHANGED <<loop, guard, open, active, generation, home, mine, moved, task, truth, text>>
      /\ JobOf(r)' = JobOf(r)
  BY ArmFacts DEF Continue
<1>2. cancel' \in [Editors -> 0 .. MaxRuns] /\ cancel'[active] = NoRun
  <2>1. NoRun \in 0 .. MaxRuns
    BY StatementsAssumption DEF NoRun
  <2> QED
    BY <1>1, <2>1 DEF LocalTypes
<1>3. LocalTypes' /\ Others(r)
  BY <1>1, <1>2 DEF LocalTypes, Others
<1>4. EditorsOK' /\ TabsGrow
  BY <1>1, <1>2, ArmTabs
<1>5. HistoryOK(r)'
  <2>1. AllOk(JobOf(r))' = AllOk(JobOf(r)) /\ RowsThere(JobOf(r))' = RowsThere(JobOf(r))
    BY <1>1 DEF AllOk, RowsThere
  <2>2. 1 .. 1 = {1} /\ 1 <= 1
    OBVIOUS
  <2> QED
    BY <1>1, <2>1, <2>2 DEF HistoryOK
<1>6. Heard(r, d)'
  BY DEF Heard
<1>7. (~moved => tabId'[r] < nextId'[home[r]]) /\ (tabId'[r] = 0 => stored'[r] = 0) /\ fired \subseteq Runs
  BY ArmFacts
<1> QED
  BY <1>3, <1>4, <1>5, <1>6, <1>7, ArmDone

(* A statement failed: the run is recorded as failed.                      *)
LEMMA OnStatementFailedOK ==
    ASSUME IInv, NEW r \in Runs, Handle(r, "StatementFailed"), Record(r, FALSE, 0), Continue(JobOf(r)),
           cancel' = [cancel EXCEPT ![active] = NoRun],
           UNCHANGED <<fired, results, nextId, tabId, stored, counted, errored>>
    PROVE  IInv'
<1>1. PICK c, d, e : Hearing(r, c, e, d) /\ e.ev = "StatementFailed" /\ Leads(JobOf(r), d)'
  BY HearingIt
<1>2. c.phase \in {"next", "stream", "exec"} /\ d.phase = "bad" /\ d \in Cursors
  BY <1>1 DEF Hearing, Hears, At
<1>3. Len(history[r]) = 0
  BY <1>1, <1>2 DEF Hearing, Heard
<1>4. LocalTypes /\ FALSE \in BOOLEAN /\ 0 \in Nat
  BY ArmFacts
<1>5. /\ history' \in [Runs -> Seq(Entries)] /\ Len(history'[r]) = 1 /\ history'[r][1].ok = FALSE
      /\ \A q \in Runs \ {r} : history'[q] = history[q]
  BY <1>3, <1>4, FirstEntry, Zenon
<1>6. ~history'[r][1].ok
  BY <1>5
<1> QED
  BY <1>1, <1>2, <1>5, <1>6, TerminalDone

(* Once the text is through the task has nothing left to do.               *)
LEMMA WillBeThrough ==
    ASSUME NEW j \in Jobs, NEW d
    PROVE  (JobTypes /\ Leads(j, d) /\ d.phase = "good" /\ task[j].at # "none"
               => task[j].at \in {"good", "done"})'
<1>1. JobTypes /\ Leads(j, d) /\ d.phase = "good" /\ task[j].at # "none" => task[j].at \in {"good", "done"}
  BY ThroughIsThrough
<1> QED
  BY <1>1, PTL

(* The types after an event is taken.                                      *)
LEMMA NextTypes ==
    ASSUME IInv, NEW r \in Runs, NEW ev, Handle(r, ev), Continue(JobOf(r)), fired' = fired
    PROVE  JobTypes'
<1>1. PICK j \in Jobs : j = JobOf(r) /\ j[1] = r
  BY JobsAreRuns
<1>2. /\ JobTypes /\ chan[j] # <<>> /\ chan' = [chan EXCEPT ![j] = Tail(@)] /\ loop' = loop
      /\ UNCHANGED <<text, task, truth>>
  BY <1>1 DEF IInv, Handle, Ready, Continue
<1>3. PICK s \in Seq(Events) : s = chan[j]
  BY <1>2, JobFacts
<1>4. Tail(s) \in Seq(Events)
  BY <1>2, <1>3
<1>5. chan' \in [Jobs -> Seq(Events)]
  BY <1>2, <1>3, <1>4 DEF JobTypes
<1> QED
  BY <1>2, <1>5 DEF JobTypes

(* The text is through: the run is recorded with what was counted, or as   *)
(* failed if a push had failed.                                            *)
LEMMA OnRunFinishedOK ==
    ASSUME IInv, NEW r \in Runs, Handle(r, "RunFinished"), Continue(JobOf(r)),
           IF r \in errored THEN Record(r, FALSE, 0) ELSE Record(r, TRUE, counted[r]),
           cancel' = [cancel EXCEPT ![active] = NoRun],
           UNCHANGED <<fired, results, nextId, tabId, stored, counted, errored>>
    PROVE  IInv'
<1>1. PICK c, d, e : Hearing(r, c, e, d) /\ e.ev = "RunFinished" /\ Leads(JobOf(r), d)'
  BY HearingIt
<1>2. /\ c.phase = "next" /\ c.stmt = Len(text[JobOf(r)[1]]) /\ d.phase = "good" /\ d.stmt = c.stmt
      /\ c \in Cursors /\ d \in Cursors /\ Known(JobOf(r), c)
  BY <1>1 DEF Hearing, Hears, At
<1>3. Len(history[r]) = 0 /\ (r \notin errored => counted[r] = SumOf(truth[JobOf(r)])[c.stmt])
  BY <1>1, <1>2 DEF Hearing, Heard, Complete
<1>4. LocalTypes /\ JobTypes /\ TaskOK(JobOf(r)) /\ JobOf(r) \in Jobs /\ counted[r] \in Nat
      /\ FALSE \in BOOLEAN /\ TRUE \in BOOLEAN /\ 0 \in Nat
  BY ArmFacts, LocalFacts
<1>5. task[JobOf(r)].at \in {"good", "done"}
  <2>1. PICK j \in Jobs : j = JobOf(r)
    BY <1>4
  <2>2. JobTypes' /\ JobOf(r)' = JobOf(r) /\ task' = task /\ task[j].at # "none"
    BY <2>1, ArmFacts, NextTypes
  <2>3. Leads(j, d)'
    BY <1>1, <2>1, <2>2
  <2> QED
    BY <1>2, <2>1, <2>2, <2>3, WillBeThrough
<1>6. AllOk(JobOf(r)) /\ (r \notin errored => counted[r] = RowsThere(JobOf(r)))
  BY <1>2, <1>3, <1>4, TextIsThrough
<1>7. CASE r \in errored
  <2>1. Record(r, FALSE, 0)
    BY <1>7
  <2>2. /\ history' \in [Runs -> Seq(Entries)] /\ Len(history'[r]) = 1 /\ history'[r][1].ok = FALSE
        /\ \A q \in Runs \ {r} : history'[q] = history[q]
    BY <1>3, <1>4, <2>1, FirstEntry, Zenon
  <2>3. ~history'[r][1].ok
    BY <2>2
  <2> QED
    BY <1>1, <1>2, <2>2, <2>3, TerminalDone
<1>8. CASE r \notin errored
  <2>1. Record(r, TRUE, counted[r])
    BY <1>8
  <2>2. /\ history' \in [Runs -> Seq(Entries)] /\ Len(history'[r]) = 1 /\ history'[r][1].rows = counted[r]
        /\ \A q \in Runs \ {r} : history'[q] = history[q]
    BY <1>3, <1>4, <2>1, FirstEntry, Zenon
  <2>3. history'[r][1].rows = RowsThere(JobOf(r))
    BY <1>6, <1>8, <2>2
  <2> QED
    BY <1>1, <1>2, <1>5, <1>6, <2>2, <2>3, TerminalDone
<1> QED
  BY <1>7, <1>8

(* The arm of the two terminal events.                                     *)
LEMMA OnTerminalOK ==
    ASSUME IInv, NEW r \in Runs, OnTerminal(r)
    PROVE  IInv'
<1>1. /\ cancel' = [cancel EXCEPT ![active] = NoRun] /\ Continue(JobOf(r))
      /\ UNCHANGED <<fired, results, nextId, tabId, stored, counted, errored>>
  BY DEF OnTerminal
<1>2. \/ Handle(r, "StatementFailed") /\ Record(r, FALSE, 0)
      \/ /\ Handle(r, "RunFinished")
         /\ IF r \in errored THEN Record(r, FALSE, 0) ELSE Record(r, TRUE, counted[r])
  BY Zenon DEF OnTerminal
<1>3. CASE Handle(r, "StatementFailed") /\ Record(r, FALSE, 0)
  BY <1>1, <1>3, OnStatementFailedOK, Zenon
<1>4. CASE /\ Handle(r, "RunFinished")
           /\ IF r \in errored THEN Record(r, FALSE, 0) ELSE Record(r, TRUE, counted[r])
  BY <1>1, <1>4, OnRunFinishedOK, Zenon
<1> QED
  BY <1>2, <1>3, <1>4, Zenon

(* The invariant holds before the first run.                               *)
LEMMA InitIInv ==
    ASSUME Init
    PROVE  IInv
<1>1. /\ text = [r \in Runs |-> <<>>] /\ guard = {} /\ task = [j \in Jobs |-> Idle]
      /\ chan = [j \in Jobs |-> <<>>] /\ fired = {} /\ loop = [r \in Runs |-> "none"]
      /\ truth = [j \in Jobs |-> [s \in 1 .. MaxStmts |-> Unknown]]
  BY DEF Init, StatementsInit
<1>2. /\ open = Editors /\ active = 1 /\ cancel = [e \in Editors |-> NoRun]
      /\ generation = [e \in Editors |-> 0] /\ results = [e \in Editors |-> {}]
      /\ nextId = [e \in Editors |-> 1] /\ home = [r \in Runs |-> 0] /\ mine = [r \in Runs |-> 0]
      /\ tabId = [r \in Runs |-> 0] /\ stored = [r \in Runs |-> 0] /\ counted = [r \in Runs |-> 0]
      /\ errored = {} /\ history = [r \in Runs |-> <<>>] /\ moved = FALSE
  BY DEF Init
<1>3. MaxRuns \in Nat /\ MaxStmts \in Nat /\ MaxRows \in Nat /\ ChanCap \in Nat
  BY StatementsAssumption
<1>4. JobTypes
  <2>1. Idle \in [at : Places, stmt : 0 .. MaxStmts] /\ Unknown \in [state : States, rows : Nat]
    BY <1>3 DEF Idle, Unknown, Places, States
  <2>2. [s \in 1 .. MaxStmts |-> Unknown] \in Truths
    BY <2>1 DEF Truths
  <2>3. <<>> \in Seq(Events)
    OBVIOUS
  <2>4. /\ text \in [Runs -> Texts \cup {<<>>}] /\ fired \subseteq Runs
        /\ loop \in [Runs -> {"none", "recv", "done"}]
    BY <1>1
  <2>5. task \in [Jobs -> [at : Places, stmt : 0 .. MaxStmts]] /\ chan \in [Jobs -> Seq(Events)]
    BY <1>1, <2>1, <2>3
  <2>6. truth \in [Jobs -> Truths]
    BY <1>1, <2>2
  <2> QED
    BY <2>4, <2>5, <2>6 DEF JobTypes
<1>5. LocalTypes
  <2>1. 1 \in Editors /\ NoRun \in 0 .. MaxRuns
    BY <1>3, RunManyAssumption DEF Editors, NoRun
  <2>2. <<>> \in Seq(Entries) /\ 0 \in Nat /\ 1 \in Nat \ {0} /\ {} \in SUBSET (Nat \ {0})
    OBVIOUS
  <2>3. /\ cancel \in [Editors -> 0 .. MaxRuns] /\ generation \in [Editors -> Nat]
        /\ results \in [Editors -> SUBSET (Nat \ {0})] /\ nextId \in [Editors -> Nat \ {0}]
    BY <1>2, <2>1, <2>2
  <2>4. /\ home \in [Runs -> Nat] /\ mine \in [Runs -> Nat] /\ tabId \in [Runs -> Nat]
        /\ stored \in [Runs -> Nat] /\ counted \in [Runs -> Nat] /\ history \in [Runs -> Seq(Entries)]
    BY <1>2, <2>2
  <2>5. moved \in BOOLEAN /\ errored \subseteq Runs /\ guard \subseteq Jobs /\ open \subseteq Editors
        /\ active \in open
    BY <1>1, <1>2, <2>1
  <2> QED
    BY <2>3, <2>4, <2>5 DEF LocalTypes
<1>6. EditorsOK
  <2>1. 1 \in Editors
    BY RunManyAssumption DEF Editors
  <2> QED
    BY <1>1, <1>2, <2>1 DEF EditorsOK
<1>7. ASSUME NEW r \in Runs
      PROVE  RunOK(r)
  <2>1. PICK j \in Jobs : j = JobOf(r) /\ j[1] = r
    BY JobsAreRuns
  <2>2. /\ text[r] = <<>> /\ task[j] = Idle /\ chan[j] = <<>> /\ loop[r] = "none"
        /\ truth[j] = [s \in 1 .. MaxStmts |-> Unknown]
    BY <1>1
  <2>3. tabId[r] = 0 /\ stored[r] = 0 /\ counted[r] = 0 /\ r \notin errored /\ history[r] = <<>>
    BY <1>2
  <2>4. task[j].at = "none" /\ task[j].stmt = 0
    BY <2>2 DEF Idle
  <2>5. \A s \in 1 .. MaxStmts : s > 0 /\ truth[j][s] = Unknown
    BY <1>3, <2>2
  <2>6. Len(<<>>) = 0 /\ 1 .. Len(<<>>) = {}
    OBVIOUS
  <2>7. TaskOK(j)
    <3>1. task[j].stmt <= Len(text[j[1]])
      BY <2>1, <2>2, <2>4, <2>6
    <3> QED
      BY <2>4, <2>5, <3>1 DEF TaskOK, InStatement
  <2>8. Untouched(r)
    BY <2>1, <2>2, <2>3, <2>4 DEF Untouched
  <2>9. HistoryOK(r)
    BY <2>3, <2>6 DEF HistoryOK
  <2> QED
    BY <1>3, <2>1, <2>2, <2>3, <2>4, <2>6, <2>7, <2>8, <2>9 DEF RunOK
<1> QED
  BY <1>4, <1>5, <1>6, <1>7 DEF IInv

(* The event loop keeps the invariant.                                     *)
LEMMA EventLoopOK ==
    ASSUME IInv, NEW r \in Runs, EventLoop(r)
    PROVE  IInv'
BY OnBatchOK, OnReadStartedOK, OnWriteStartedOK, OnStatementFinishedOK, OnTerminalOK, ChannelClosedOK
   DEF EventLoop

(* The invariant is inductive.                                             *)
LEMMA StepIInv ==
    ASSUME IInv, [Next]_vars
    PROVE  IInv'
<1>1. ASSUME NEW r \in Runs, TaskEnds(r) PROVE IInv'
  BY <1>1, EndsOK DEF TaskEnds
<1>2. ASSUME NEW r \in Runs, TaskPanics(r) PROVE IInv'
  BY <1>2, EndsOK DEF TaskPanics
<1>3. CASE System
  BY <1>1, <1>2, <1>3, TaskStepOK, EventLoopOK DEF System
<1>4. CASE User
  BY <1>4, UserOK
<1>5. CASE UNCHANGED vars
  <2>1. /\ UNCHANGED <<text, guard, task, chan, loop, truth, locals>> /\ fired' = fired
        /\ Background /\ fired \subseteq Runs
    BY <1>5 DEF vars, jobVars, Background, IInv, JobTypes
  <2> QED
    BY <2>1, BackgroundFacts, UserMoves
<1> QED
  BY <1>3, <1>4, <1>5 DEF Next

(* The invariant holds at every moment.                                    *)
LEMMA AlwaysIInv == Spec => []IInv
BY InitIInv, StepIInv, PTL DEF Spec

(* The invariant implies that the history is honest.                       *)
LEMMA IInvHistory ==
    ASSUME IInv
    PROVE  HistoryIsHonest
<1> SUFFICES ASSUME NEW r \in Runs
             PROVE  /\ Len(history[r]) <= 1
                    /\ \A i \in DOMAIN history[r] :
                         history[r][i].ok => AllOk(JobOf(r)) /\ history[r][i].rows = RowsThere(JobOf(r))
  BY DEF HistoryIsHonest
<1>1. HistoryOK(r) /\ history[r] \in Seq(Entries)
  BY DEF IInv, RunOK, LocalTypes
<1>2. DOMAIN history[r] = 1 .. Len(history[r])
  BY <1>1
<1> QED
  BY <1>1, <1>2 DEF HistoryOK

(* The invariant implies the types.                                        *)
LEMMA IInvTypes ==
    ASSUME IInv
    PROVE  TypeOK
<1>1. JobTypes /\ LocalTypes /\ EditorsOK /\ \A r \in Runs : RunOK(r)
  BY DEF IInv
<1>2. StatementsType
  <2>1. /\ \A r \in Runs : text[r] \in Texts \cup {<<>>}
        /\ guard \subseteq Jobs /\ fired \subseteq Runs /\ loop \in [Runs -> {"none", "recv", "done"}]
    BY <1>1 DEF JobTypes, LocalTypes
  <2>2. ASSUME NEW j \in Jobs
        PROVE  /\ task[j].at \in {"none", "pending", "start", "next", "good", "bad",
                                  "done"} \cup InStatement
               /\ task[j].stmt \in 0 .. MaxStmts
               /\ Len(chan[j]) <= ChanCap
               /\ \A s \in 1 .. MaxStmts :
                    truth[j][s].state \in {"none", "running", "ok", "failed", "cancelled", "refused"}
    <3>1. task[j] \in [at : Places, stmt : 0 .. MaxStmts] /\ truth[j] \in Truths
      BY <1>1 DEF JobTypes
    <3>2. Len(chan[j]) <= ChanCap
      BY <1>1, JobsAreRuns DEF RunOK
    <3> QED
      BY <3>1, <3>2 DEF Places, Truths, States
  <2> QED
    BY <2>1, <2>2 DEF StatementsType
<1>3. \A r \in Runs : loop[r] # "none" => home[r] \in Editors /\ mine[r] <= generation[home[r]]
  BY <1>1 DEF RunOK
<1>4. \A r \in Runs : tabId[r] = 0 => stored[r] = 0
  BY <1>1 DEF RunOK
<1>5. /\ active \in open /\ open \subseteq Editors /\ cancel \in [Editors -> 0 .. MaxRuns]
      /\ errored \subseteq Runs
  BY <1>1 DEF LocalTypes
<1>6. \A e \in Editors : \A i \in results[e] : i < nextId[e]
  BY <1>1 DEF EditorsOK
<1> QED
  BY <1>2, <1>3, <1>4, <1>5, <1>6 DEF TypeOK

(* The invariant implies that runs are recorded.                           *)
LEMMA IInvRecorded ==
    ASSUME IInv
    PROVE  RunsAreRecorded
<1> SUFFICES ASSUME NEW r \in Runs, ~moved, loop[r] = "done"
             PROVE  \/ Len(history[r]) = 1
                    \/ r \in fired
                    \/ tabId[r] # 0 /\ tabId[r] \notin results[home[r]]
                    \/ \E s \in DOMAIN text[r] : truth[JobOf(r)][s].state = "running"
  BY DEF RunsAreRecorded
<1>1. Recorded(r) \/ ResultClosed(r)
  BY DEF IInv, RunOK
<1> QED
  BY <1>1 DEF Recorded, ResultClosed, Dead

(* The invariant implies that the tab is freed.                            *)
LEMMA IInvFreed ==
    ASSUME IInv
    PROVE  TabIsFreed
<1> SUFFICES ASSUME ~moved, \A r \in Runs : loop[r] # "recv", cancel[active] # NoRun
             PROVE  FALSE
  BY DEF TabIsFreed
<1>1. cancel[active] \in 0 .. MaxRuns /\ loop[cancel[active]] = "recv"
  BY DEF IInv, LocalTypes, EditorsOK
<1>2. cancel[active] \in Runs
  BY <1>1, StatementsAssumption DEF Runs, NoRun
<1> QED
  BY <1>1, <1>2

(* For a user who stays in the tab: a run whose loop has ended is in the   *)
(* history, unless it was cancelled, its result closed or its task dead in *)
(* mid-statement; and when no loop is left the slot is free, so that the   *)
(* tab can run again. Whoever moves between tabs, the types hold. For      *)
(* every number of runs, tabs, statements and rows.                        *)
THEOREM TextRunsAreRecorded == Spec => []Inv
<1>1. IInv => Inv
  BY IInvTypes, IInvRecorded, IInvFreed DEF Inv
<1> QED
  BY <1>1, AlwaysIInv, PTL

(* Whatever the user does with the tabs while a text runs, and although    *)
(* the loop works on the tab that happens to be active: a run has one      *)
(* entry in the history at most, and it says ok only if every statement    *)
(* succeeded and the rows it gives are all there are.                      *)
THEOREM TextRunsAreHonest == Spec => []HistoryIsHonest
BY AlwaysIInv, IInvHistory, PTL
=============================================================================
