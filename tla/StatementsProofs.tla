-------------------------- MODULE StatementsProofs --------------------------
(***************************************************************************)
(* Lemmas about Statements. A job and its event loop are held together by  *)
(* a line of cursors (Line): each event on its way leads from one cursor   *)
(* to the next (Hears), the first is the place of the loop and the last    *)
(* that of the job (Stands). JobStep says what every step of a job         *)
(* preserves of it; LineShrinks what the loop finds when it takes an       *)
(* event. TaskOK says what became of the statements by the place where the *)
(* job is.                                                                 *)
(***************************************************************************)
EXTENDS Statements, WellFoundedInduction, FiniteSetTheorems, SequenceTheorems, TLAPS

(* Where a job can be; what can become of a statement, and where that      *)
(* ends.                                                                   *)
Places == {"none", "pending", "start", "next", "good", "bad", "done"} \cup InStatement
States == {"none", "running", "ok", "failed", "cancelled", "refused"}
Settled == {"ok", "failed", "cancelled", "refused"}
Truths == [1 .. MaxStmts -> [state : States, rows : Nat]]
(* The events.                                                             *)
Codes == {"", "cancelled", "Ok", "Failed", "Cancelled"}
Kinds == {"Started", "ReadStarted", "WriteStarted", "Batch", "ReadFinished", "WriteFinished",
          "StatementFailed", "RunFinished", "Finished"}
Events == [ev : Kinds, stmt : 0 .. MaxStmts, rows : Nat, code : Codes]

(* The types of the variables of the jobs.                                 *)
JobTypes ==
    /\ text \in [Runs -> Texts \cup {<<>>}]
    /\ task \in [Jobs -> [at : Places, stmt : 0 .. MaxStmts]]
    /\ chan \in [Jobs -> Seq(Events)]
    /\ fired \subseteq Runs
    /\ loop \in [Runs -> {"none", "recv", "done"}]
    /\ truth \in [Jobs -> Truths]

(* What became of the statements, by the place where the job is: those     *)
(* before it succeeded, those behind it are untouched; but a connection or *)
(* a statement that was refused counts as the next one.                    *)
TaskOK(j) ==
    /\ task[j].stmt <= Len(text[j[1]])
    /\ task[j].at \in {"none", "pending", "start"} => task[j].stmt = 0
    /\ task[j].at # "none" => text[j[1]] \in Texts
    /\ \A s \in 1 .. MaxStmts :
         /\ s < task[j].stmt => truth[j][s].state = "ok"
         /\ s = task[j].stmt =>
              /\ task[j].at \in {"next", "good"} => truth[j][s].state = "ok"
              /\ task[j].at \in InStatement => truth[j][s].state = "running"
              /\ task[j].at \in {"query", "exec"} => truth[j][s].rows = 0
              /\ task[j].at = "stream" => truth[j][s].rows <= MaxRows
         /\ s > task[j].stmt =>
              \/ truth[j][s] = Unknown
              \/ /\ task[j].at \in {"bad", "done"}
                 /\ s = task[j].stmt + 1 /\ s <= Len(text[j[1]])
                 /\ truth[j][s].state \in {"failed", "refused"}
    /\ task[j].at \in InStatement => task[j].stmt > 0
    /\ task[j].at = "good" => task[j].stmt = Len(text[j[1]])
    /\ task[j].at = "bad" => \/ j[1] \in fired
                             \/ \E s \in 1 .. MaxStmts : truth[j][s].state \in {"failed", "refused"}

(* How far somebody is who has heard a part of the events of a job.        *)
Phases == {"pending", "next", "stream", "exec", "bad", "good", "done"}
Cursors == [phase : Phases, stmt : 0 .. MaxStmts, rows : 0 .. MaxRows]
At(phase, s, n) == [phase |-> phase, stmt |-> s, rows |-> n]

(* The statements that are through.                                        *)
Complete(c) == IF c.phase \in {"stream", "exec"} THEN c.stmt - 1 ELSE c.stmt

(* The place c agrees with what became of the statements: those that are   *)
(* through there succeeded.                                                *)
Known(j, c) ==
    /\ c \in Cursors
    /\ c.phase = "pending" => c.stmt = 0
    /\ c.phase \in {"stream", "exec"} => c.stmt > 0
    /\ c.phase \notin {"bad", "done"} =>
         \A s \in 1 .. MaxStmts : s <= Complete(c) => truth[j][s].state = "ok"

(* Who is at c and hears e is at d then.                                   *)
Hears(j, c, e, d) ==
    \/ /\ e.ev = "Started" /\ c.phase = "pending" /\ d = At("next", 0, 0)
    \/ /\ e.ev = "ReadStarted" /\ c.phase = "next" /\ e.stmt = c.stmt + 1
       /\ d = At("stream", e.stmt, 0)
    \/ /\ e.ev = "WriteStarted" /\ c.phase = "next" /\ e.stmt = c.stmt + 1
       /\ d = At("exec", e.stmt, 0)
    \/ /\ e.ev = "Batch" /\ c.phase = "stream" /\ e.stmt = c.stmt /\ e.rows = 1
       /\ d = At("stream", e.stmt, c.rows + 1)
    \/ /\ e.ev = "ReadFinished" /\ c.phase = "stream" /\ e.stmt = c.stmt
       /\ truth[j][e.stmt] = [state |-> "ok", rows |-> c.rows]
       /\ d = At("next", e.stmt, 0)
    \/ /\ e.ev = "WriteFinished" /\ c.phase = "exec" /\ e.stmt = c.stmt
       /\ truth[j][e.stmt] = [state |-> "ok", rows |-> e.rows]
       /\ d = At("next", e.stmt, 0)
    \/ /\ e.ev = "StatementFailed" /\ c.phase \in {"next", "stream", "exec"}
       /\ e.stmt = Complete(c) + 1
       /\ truth[j][e.stmt].state \in {"failed", "cancelled", "refused"}
       /\ e.code = "cancelled" <=> truth[j][e.stmt].state = "cancelled"
       /\ e.code = "cancelled" => j[1] \in fired
       /\ d = At("bad", e.stmt, 0)
    \/ /\ e.ev = "RunFinished" /\ c.phase = "next" /\ c.stmt = Len(text[j[1]])
       /\ d = At("good", c.stmt, 0)
    \/ /\ e.ev = "Finished" /\ d = At("done", 0, 0)
       /\ \/ e.code = "Ok" /\ c.phase = "good" /\ c.stmt = Len(text[j[1]])
          \/ /\ e.code = "Failed" /\ c.phase \in {"next", "stream", "exec", "bad"}
             /\ \/ j[1] \in fired
                \/ \E s \in 1 .. MaxStmts : truth[j][s].state \in {"failed", "refused"}
          \/ e.code = "Cancelled" /\ c.phase = "pending" /\ j[1] \in fired

(* Where the job is, for somebody who has heard everything.                *)
Stands(j, c) ==
    /\ task[j].at = "pending" => c = At("pending", 0, 0)
    /\ task[j].at = "start" => c = At("next", 0, 0)
    /\ task[j].at = "next" => c = At("next", task[j].stmt, 0)
    /\ task[j].at = "query" => c = At("next", task[j].stmt - 1, 0)
    /\ task[j].at = "stream" => c = At("stream", task[j].stmt, truth[j][task[j].stmt].rows)
    /\ task[j].at = "exec" => c = At("exec", task[j].stmt, 0)
    /\ task[j].at = "good" => c = At("good", task[j].stmt, 0)
    /\ task[j].at = "bad" => c.phase \in {"next", "stream", "exec", "bad"}

(* The events on their way lead from p[0], the place of the loop, to the   *)
(* place of the job.                                                       *)
Line(j, p) ==
    /\ \A i \in 0 .. Len(chan[j]) : Known(j, p[i])
    /\ \A i \in 1 .. Len(chan[j]) : Hears(j, p[i - 1], chan[j][i], p[i])
    /\ Stands(j, p[Len(chan[j])])

(* The rows of the first statements: RowsThere in its steps.               *)
SumOf(R) == CHOOSE f : f = [s \in 0 .. MaxStmts |-> IF s = 0 THEN 0 ELSE f[s - 1] + R[s].rows]

(* A set of naturals has a least member.                                   *)
LEMMA LeastMember ==
    ASSUME NEW T, T \subseteq Nat, T # {}
    PROVE  \E m \in T : \A n \in T : m <= n
<1> DEFINE R == OpToRel(<, Nat)
<1>1. IsWellFoundedOn(R, Nat)
  BY NatLessThanWellFounded
<1>2. \A n, m \in T : n < m => <<n, m>> \in R
  BY DEF OpToRel
<1> HIDE DEF R
<1>3. PICK m \in T : \A n \in T : <<n, m>> \notin R
  BY <1>1, WFMin
<1>4. \A n \in T : ~ (n < m)
  BY <1>2, <1>3
<1> QED
  BY <1>4

(* The sums of the first rows of R, up to n.                               *)
Sums(R, f, n) ==
    /\ f[0] = 0
    /\ \A s \in 1 .. n : f[s] = f[s - 1] + R[s].rows

(* The sums of the rows, as a recursive function, exist: by the least-     *)
(* member principle, for want of an induction theorem that takes no        *)
(* operator.                                                               *)
LEMMA SumsExist ==
    ASSUME NEW R, NEW n \in Nat
    PROVE  \E f : f = [s \in 0 .. n |-> f[s]] /\ Sums(R, f, n)
<1> DEFINE P(m) == \E f : f = [s \in 0 .. m |-> f[s]] /\ Sums(R, f, m)
<1> DEFINE T == {m \in Nat : ~P(m)}
<1>1. ASSUME T # {} PROVE FALSE
  <2>1. PICK m \in T : \A k \in T : m <= k
    BY <1>1, LeastMember
  <2>2. P(0)
    <3> DEFINE f == [s \in 0 .. 0 |-> 0]
    <3>1. f = [s \in 0 .. 0 |-> f[s]] /\ Sums(R, f, 0)
      BY DEF Sums
    <3> QED
      BY <3>1
  <2>3. m \in Nat /\ m # 0
    BY <2>1, <2>2
  <2>4. m - 1 \in Nat /\ P(m - 1)
    <3>1. m - 1 \in Nat /\ ~(m <= m - 1)
      BY <2>3
    <3>2. m - 1 \notin T
      BY <3>1, <2>1
    <3> QED
      BY <3>1, <3>2
  <2>5. PICK g : g = [s \in 0 .. m - 1 |-> g[s]] /\ Sums(R, g, m - 1)
    BY <2>4
  <2> DEFINE h == [s \in 0 .. m |-> IF s = m THEN g[m - 1] + R[m].rows ELSE g[s]]
  <2>6. h = [s \in 0 .. m |-> h[s]]
    OBVIOUS
  <2>7. Sums(R, h, m)
    <3>1. h[0] = 0
      BY <2>3, <2>5 DEF Sums
    <3>2. ASSUME NEW s \in 1 .. m PROVE h[s] = h[s - 1] + R[s].rows
      <4>1. CASE s = m
        BY <4>1, <2>3
      <4>2. CASE s # m
        <5>1. s \in 1 .. m - 1 /\ s \in 0 .. m /\ s - 1 \in 0 .. m /\ s - 1 # m
          BY <4>2, <2>3
        <5>2. h[s] = g[s] /\ h[s - 1] = g[s - 1]
          BY <5>1, <4>2
        <5> QED
          BY <5>1, <5>2, <2>5 DEF Sums
      <4> QED
        BY <4>1, <4>2
    <3> QED
      BY <3>1, <3>2 DEF Sums
  <2>8. P(m)
    <3> HIDE DEF h
    <3> QED
      BY <2>6, <2>7
  <2> QED
    BY <2>1, <2>8
<1>2. n \notin T
  BY <1>1
<1> QED
  BY <1>2

(* Two functions that agree at 0 and wherever they agree one step before.  *)
LEMMA Agree ==
    ASSUME NEW f, NEW g, NEW n \in Nat, f[0] = g[0],
           \A s \in 1 .. n : f[s - 1] = g[s - 1] => f[s] = g[s]
    PROVE  \A s \in 0 .. n : f[s] = g[s]
<1> DEFINE T == {m \in 0 .. n : f[m] # g[m]}
<1>1. ASSUME T # {} PROVE FALSE
  <2>0. T \subseteq Nat
    OBVIOUS
  <2>1. PICK m \in T : \A k \in T : m <= k
    BY <1>1, <2>0, LeastMember
  <2>2. m \in 1 .. n /\ m - 1 \in 0 .. n /\ ~(m <= m - 1)
    BY <2>1
  <2>3. m - 1 \notin T
    BY <2>1, <2>2
  <2> QED
    BY <2>1, <2>2, <2>3
<1> QED
  BY <1>1

(* SumOf is what its definition says.                                      *)
LEMMA SumOfSteps ==
    ASSUME NEW R
    PROVE  Sums(R, SumOf(R), MaxStmts)
<1>0. MaxStmts \in Nat \ {0}
  BY StatementsAssumption
<1>1. PICK f : f = [s \in 0 .. MaxStmts |-> f[s]] /\ Sums(R, f, MaxStmts)
  BY <1>0, SumsExist
<1> DEFINE B(f_) == [s \in 0 .. MaxStmts |-> IF s = 0 THEN 0 ELSE f_[s - 1] + R[s].rows]
<1>2. f = B(f)
  <2>1. \A s \in 0 .. MaxStmts : f[s] = B(f)[s]
    BY <1>0, <1>1 DEF Sums
  <2> QED
    BY <1>1, <2>1
<1>3. SumOf(R) = B(SumOf(R))
  BY <1>2 DEF SumOf
<1> QED
  BY <1>0, <1>3 DEF Sums

(* RowsThere is the last of the sums.                                      *)
LEMMA RowsThereIsSum ==
    ASSUME NEW j
    PROVE  RowsThere(j) = SumOf(truth[j])[MaxStmts]
BY DEF RowsThere, SumOf

(* Rows that are the same up to n have the same sums up to n.              *)
LEMMA SumsAgree ==
    ASSUME NEW R, NEW Q, NEW n \in 0 .. MaxStmts, \A s \in 1 .. n : Q[s].rows = R[s].rows
    PROVE  SumOf(Q)[n] = SumOf(R)[n]
<1>1. Sums(R, SumOf(R), MaxStmts) /\ Sums(Q, SumOf(Q), MaxStmts)
  BY SumOfSteps
<1>2. PICK f : f = SumOf(R)
  OBVIOUS
<1>3. PICK g : g = SumOf(Q)
  OBVIOUS
<1>4. n \in Nat /\ 1 .. n \subseteq 1 .. MaxStmts
  BY StatementsAssumption
<1>5. g[0] = f[0] /\ \A s \in 1 .. n : g[s - 1] = f[s - 1] => g[s] = f[s]
  BY <1>1, <1>2, <1>3, <1>4 DEF Sums
<1>6. \A s \in 0 .. n : g[s] = f[s]
  BY ONLY <1>4, <1>5, Agree
<1> QED
  BY <1>2, <1>3, <1>4, <1>6

(* Rows that are none behind n add nothing.                                *)
LEMMA SumsEnd ==
    ASSUME NEW R, NEW n \in 0 .. MaxStmts, \A s \in n + 1 .. MaxStmts : R[s].rows = 0,
           \A s \in 0 .. MaxStmts : SumOf(R)[s] \in Nat
    PROVE  SumOf(R)[MaxStmts] = SumOf(R)[n]
<1>1. Sums(R, SumOf(R), MaxStmts)
  BY SumOfSteps
<1>2. PICK f : f = SumOf(R)
  OBVIOUS
<1>3. MaxStmts \in Nat /\ n \in Nat /\ n <= MaxStmts
  BY StatementsAssumption
<1>4. PICK m : m = MaxStmts - n
  OBVIOUS
<1> DEFINE a == [s \in 0 .. m |-> f[n + s]]
<1> DEFINE b == [s \in 0 .. m |-> f[n]]
<1>5. m \in Nat /\ n + m = MaxStmts
  BY <1>3, <1>4
<1>6. a[0] = b[0]
  BY <1>3, <1>5
<1>7. ASSUME NEW s \in 1 .. m, a[s - 1] = b[s - 1] PROVE a[s] = b[s]
  <2>1. s - 1 \in 0 .. m /\ s \in 0 .. m /\ n + s \in 1 .. MaxStmts /\ n + s \in n + 1 .. MaxStmts
        /\ n + s - 1 = n + (s - 1) /\ n + s - 1 \in 0 .. MaxStmts
    BY <1>3, <1>5
  <2>2. f[n + s] = f[n + s - 1] + 0
    BY <2>1, <1>1, <1>2 DEF Sums
  <2>3. f[n + s - 1] \in Nat
    BY <2>1, <1>2
  <2> QED
    BY <1>7, <2>1, <2>2, <2>3
<1>8. \A s \in 0 .. m : a[s] = b[s]
  <2> HIDE DEF a, b
  <2> QED
    BY <1>5, <1>6, <1>7, Agree
<1>9. m \in 0 .. m
  BY <1>5
<1> QED
  BY <1>2, <1>5, <1>8, <1>9

(* The sums are numbers.                                                   *)
LEMMA SumsType ==
    ASSUME NEW R, \A s \in 1 .. MaxStmts : R[s].rows \in Nat
    PROVE  \A s \in 0 .. MaxStmts : SumOf(R)[s] \in Nat
<1>1. Sums(R, SumOf(R), MaxStmts)
  BY SumOfSteps
<1>2. PICK f : f = SumOf(R)
  OBVIOUS
<1>3. MaxStmts \in Nat
  BY StatementsAssumption
<1> DEFINE a == [s \in 0 .. MaxStmts |-> f[s] \in Nat]
<1> DEFINE b == [s \in 0 .. MaxStmts |-> TRUE]
<1>4. a[0] = b[0]
  <2>1. f[0] = 0 /\ 0 \in 0 .. MaxStmts
    BY <1>1, <1>2, <1>3 DEF Sums
  <2>2. f[0] \in Nat
    BY <2>1
  <2> QED
    BY <2>1, <2>2
<1>5. ASSUME NEW s \in 1 .. MaxStmts, a[s - 1] = b[s - 1] PROVE a[s] = b[s]
  <2>1. s - 1 \in 0 .. MaxStmts /\ s \in 0 .. MaxStmts
    BY <1>3
  <2>2. f[s - 1] \in Nat
    BY <1>5, <2>1
  <2>3. f[s] = f[s - 1] + R[s].rows
    BY <1>1, <1>2 DEF Sums
  <2>4. R[s].rows \in Nat
    OBVIOUS
  <2>5. f[s] \in Nat
    BY <2>2, <2>3, <2>4
  <2> QED
    BY <2>1, <2>5
<1>6. \A s \in 0 .. MaxStmts : a[s] = b[s]
  <2> HIDE DEF a, b
  <2> QED
    BY <1>3, <1>4, <1>5, Agree
<1> QED
  BY <1>2, <1>6

(* A text is a sequence of at least one statement.                         *)
LEMMA TextTypes ==
    ASSUME NEW sql \in Texts \cup {<<>>}
    PROVE  /\ sql \in Seq({"read", "write"})
           /\ Len(sql) \in 0 .. MaxStmts /\ DOMAIN sql = 1 .. Len(sql)
           /\ sql \in Texts => Len(sql) >= 1
<1>0. MaxStmts \in Nat \ {0}
  BY StatementsAssumption
<1>1. CASE sql \in Texts
  <2>1. PICK n \in 1 .. MaxStmts : sql \in [1 .. n -> {"read", "write"}]
    BY <1>1 DEF Texts
  <2>2. n \in Nat /\ n >= 1 /\ n \in 0 .. MaxStmts
    BY <1>0
  <2>3. sql \in Seq({"read", "write"}) /\ Len(sql) = n
    BY <2>1, <2>2
  <2> QED
    BY <2>2, <2>3
<1>2. CASE sql = <<>> /\ sql \notin Texts
  BY <1>0, <1>2
<1> QED
  BY <1>1, <1>2

(* What has become of a statement does not change any more.                *)
Settles(j) ==
    /\ text'[j[1]] = text[j[1]]
    /\ j[1] \in fired => j[1] \in fired'
    /\ \A s \in 1 .. MaxStmts : truth[j][s].state \in Settled => truth'[j][s] = truth[j][s]

(* The events on their way lead from c to where the job is.                *)
Leads(j, c) == \E p \in [0 .. Len(chan[j]) -> Cursors] : p[0] = c /\ Line(j, p)

(* What the types say of one job.                                          *)
LEMMA JobFacts ==
    ASSUME JobTypes, NEW j \in Jobs
    PROVE  /\ j[1] \in Runs /\ j \in Runs \X Targets
           /\ task[j] \in [at : Places, stmt : 0 .. MaxStmts]
           /\ task[j].at \in Places /\ task[j].stmt \in Nat /\ task[j].stmt <= MaxStmts
           /\ chan[j] \in Seq(Events) /\ Len(chan[j]) \in Nat
           /\ loop[j[1]] \in {"none", "recv", "done"}
           /\ truth[j] \in Truths
           /\ \A s \in 1 .. MaxStmts : truth[j][s] \in [state : States, rows : Nat]
                                       /\ truth[j][s].state \in States /\ truth[j][s].rows \in Nat
           /\ text[j[1]] \in Texts \cup {<<>>}
           /\ Len(text[j[1]]) \in Nat /\ Len(text[j[1]]) <= MaxStmts
           /\ text[j[1]] \in Texts => Len(text[j[1]]) >= 1
           /\ MaxStmts \in Nat /\ MaxStmts >= 1 /\ MaxRows \in Nat /\ ChanCap \in Nat /\ ChanCap >= 1
<1>1. j[1] \in Runs /\ j \in Runs \X Targets
  BY DEF Jobs
<1>2. MaxStmts \in Nat /\ MaxStmts >= 1 /\ MaxRows \in Nat /\ ChanCap \in Nat /\ ChanCap >= 1
  BY StatementsAssumption
<1>3. /\ task[j] \in [at : Places, stmt : 0 .. MaxStmts]
      /\ chan[j] \in Seq(Events) /\ truth[j] \in Truths
  BY DEF JobTypes
<1>4. loop[j[1]] \in {"none", "recv", "done"} /\ text[j[1]] \in Texts \cup {<<>>}
  BY <1>1 DEF JobTypes
<1>5. Len(text[j[1]]) \in 0 .. MaxStmts /\ (text[j[1]] \in Texts => Len(text[j[1]]) >= 1)
  BY <1>4, TextTypes
<1>6. task[j].at \in Places /\ task[j].stmt \in Nat /\ task[j].stmt <= MaxStmts
  BY <1>2, <1>3
<1>7. \A s \in 1 .. MaxStmts : truth[j][s] \in [state : States, rows : Nat]
  BY <1>3 DEF Truths
<1>8. Len(chan[j]) \in Nat
  BY <1>3
<1> QED
  BY <1>1, <1>2, <1>3, <1>4, <1>5, <1>6, <1>7, <1>8

(* Knowledge of a job stays true.                                          *)
LEMMA KnownStays ==
    ASSUME NEW j, NEW c, Known(j, c), Settles(j)
    PROVE  Known(j, c)'
BY DEF Known, Settles, Settled

(* What was heard stays true.                                              *)
LEMMA HearsStays ==
    ASSUME NEW j, NEW c, NEW e, NEW d, Known(j, c), e.stmt \in 0 .. MaxStmts, Hears(j, c, e, d), Settles(j)
    PROVE  Hears(j, c, e, d)'
<1>1. MaxStmts \in Nat /\ c.stmt \in Nat
  BY StatementsAssumption DEF Known, Cursors
<1>2. c.phase \in {"next", "stream", "exec"} => Complete(c) \in Nat
  BY <1>1 DEF Known, Complete
<1>3. \A s \in 1 .. MaxStmts : truth[j][s].state \in {"failed", "refused"} => truth'[j][s] = truth[j][s]
  BY DEF Settles, Settled
<1>4. CASE e.ev \in {"Started", "ReadStarted", "WriteStarted", "Batch", "RunFinished"}
  BY <1>4 DEF Hears, Settles
<1>5. CASE e.ev \in {"ReadFinished", "WriteFinished"}
  <2>1. e.stmt \in 1 .. MaxStmts /\ truth[j][e.stmt].state = "ok"
    BY <1>1, <1>5 DEF Hears, Known
  <2>2. truth'[j][e.stmt] = truth[j][e.stmt]
    BY <2>1 DEF Settles, Settled
  <2> QED
    BY <1>5, <2>2 DEF Hears
<1>6. CASE e.ev = "StatementFailed"
  <2>1. e.stmt \in 1 .. MaxStmts /\ truth[j][e.stmt].state \in Settled
    BY <1>1, <1>2, <1>6 DEF Hears, Settled
  <2>2. truth'[j][e.stmt] = truth[j][e.stmt]
    BY <2>1 DEF Settles
  <2> QED
    BY <1>6, <2>2 DEF Hears, Settles
<1>7. CASE e.ev = "Finished"
  BY <1>3, <1>7 DEF Hears, Settles
<1> QED
  BY <1>4, <1>5, <1>6, <1>7 DEF Hears

(* The statement an event on its way speaks of.                            *)
LEMMA StmtOf ==
    ASSUME NEW s \in Seq(Events), NEW n \in Nat, n = Len(s), NEW i \in 1 .. n
    PROVE  s[i].stmt \in 0 .. MaxStmts
<1>1. s[i] \in Events
  BY ElementOfSeq
<1> QED
  BY <1>1 DEF Events

(* A job moves and sends nothing: the line is the same if it ends well.    *)
LEMMA LineStays ==
    ASSUME JobTypes, NEW j \in Jobs, NEW c, Leads(j, c), Settles(j), chan'[j] = chan[j],
           \A d \in Cursors : Known(j, d) /\ Stands(j, d) => Stands(j, d)'
    PROVE  Leads(j, c)'
<1>1. PICK p \in [0 .. Len(chan[j]) -> Cursors] : p[0] = c /\ Line(j, p)
  BY DEF Leads
<1>2. PICK s \in Seq(Events) : s = chan[j]
  BY JobFacts
<1>3. PICK n \in Nat : n = Len(s)
  BY <1>2
<1>4. /\ \A i \in 0 .. n : Known(j, p[i])
      /\ \A i \in 1 .. n : Hears(j, p[i - 1], s[i], p[i])
      /\ Stands(j, p[n])
  BY <1>1, <1>2, <1>3 DEF Line
<1>5. \A i \in 0 .. n : Known(j, p[i])'
  <2> SUFFICES ASSUME NEW i \in 0 .. n PROVE Known(j, p[i])'
    OBVIOUS
  <2>1. PICK d : d = p[i]
    OBVIOUS
  <2>2. Known(j, d)'
    BY <1>4, <2>1, KnownStays
  <2> QED
    BY <2>1, <2>2
<1>6. \A i \in 1 .. n : Hears(j, p[i - 1], s[i], p[i])'
  <2> SUFFICES ASSUME NEW i \in 1 .. n PROVE Hears(j, p[i - 1], s[i], p[i])'
    OBVIOUS
  <2>1. PICK d, b, e : d = p[i] /\ b = p[i - 1] /\ e = s[i]
    OBVIOUS
  <2>2. i - 1 \in 0 .. n
    BY <1>3
  <2>3. e.stmt \in 0 .. MaxStmts
    BY <1>2, <1>3, <2>1, StmtOf
  <2>4. Hears(j, b, e, d)'
    BY <1>4, <2>1, <2>2, <2>3, HearsStays
  <2> QED
    BY <2>1, <2>4
<1>7. Stands(j, p[n])'
  <2>1. PICK d \in Cursors : d = p[n]
    BY <1>1, <1>2, <1>3
  <2>2. Known(j, d) /\ Stands(j, d)
    BY <1>4, <2>1
  <2>3. Stands(j, d)'
    BY <2>2
  <2> QED
    BY <2>1, <2>3
<1>8. Line(j, p)'
  <2>1. chan'[j] = s /\ Len(chan'[j]) = n
    BY <1>2, <1>3
  <2> QED
    BY <1>5, <1>6, <1>7, <2>1 DEF Line
<1>9. p \in [0 .. Len(chan'[j]) -> Cursors] /\ p[0] = c
  BY <1>1
<1> QED
  BY <1>8, <1>9 DEF Leads

(* A job sends an event: the line goes on with it.                         *)
LEMMA LineGrows ==
    ASSUME JobTypes, NEW j \in Jobs, NEW c, Leads(j, c), Settles(j),
           NEW e \in Events, chan'[j] = Append(chan[j], e),
           \A d \in Cursors : Known(j, d) /\ Stands(j, d) =>
               \E b \in Cursors : Hears(j, d, e, b)' /\ Known(j, b)' /\ Stands(j, b)'
    PROVE  Leads(j, c)'
<1>1. PICK p \in [0 .. Len(chan[j]) -> Cursors] : p[0] = c /\ Line(j, p)
  BY DEF Leads
<1>2. PICK s \in Seq(Events) : s = chan[j]
  BY JobFacts
<1>3. PICK n \in Nat : n = Len(s)
  BY <1>2
<1>4. /\ \A i \in 0 .. n : Known(j, p[i])
      /\ \A i \in 1 .. n : Hears(j, p[i - 1], s[i], p[i])
      /\ Stands(j, p[n])
  BY <1>1, <1>2, <1>3 DEF Line
<1>5. PICK d \in Cursors : d = p[n]
  BY <1>1, <1>2, <1>3
<1>6. Known(j, d) /\ Stands(j, d)
  BY <1>4, <1>5
<1>7. PICK b \in Cursors : Hears(j, d, e, b)' /\ Known(j, b)' /\ Stands(j, b)'
  BY <1>6
<1>8. PICK q : q = [i \in 0 .. n + 1 |-> IF i = n + 1 THEN b ELSE p[i]]
  OBVIOUS
<1>9. /\ \A i \in 0 .. n : q[i] = p[i]
      /\ q[n + 1] = b /\ q[0] = c /\ q \in [0 .. n + 1 -> Cursors]
  BY <1>1, <1>2, <1>3, <1>8
<1>10. PICK t : t = Append(s, e)
  OBVIOUS
<1>11. /\ Len(t) = n + 1 /\ t[n + 1] = e
       /\ \A i \in 1 .. n : t[i] = s[i]
  BY <1>2, <1>3, <1>10
<1>12. \A i \in 0 .. n + 1 : Known(j, q[i])'
  <2> SUFFICES ASSUME NEW i \in 0 .. n + 1 PROVE Known(j, q[i])'
    OBVIOUS
  <2>1. PICK x : x = q[i]
    OBVIOUS
  <2>2. Known(j, x)'
    <3>1. CASE i = n + 1
      BY <3>1, <2>1, <1>9, <1>7
    <3>2. CASE i \in 0 .. n
      <4>1. x = p[i]
        BY <3>2, <2>1, <1>9
      <4> QED
        BY <3>2, <4>1, <1>4, KnownStays
    <3> QED
      BY <3>1, <3>2
  <2> QED
    BY <2>1, <2>2
<1>13. \A i \in 1 .. n + 1 : Hears(j, q[i - 1], t[i], q[i])'
  <2> SUFFICES ASSUME NEW i \in 1 .. n + 1 PROVE Hears(j, q[i - 1], t[i], q[i])'
    OBVIOUS
  <2>1. PICK x, y, f : x = q[i - 1] /\ y = q[i] /\ f = t[i]
    OBVIOUS
  <2>2. Hears(j, x, f, y)'
    <3>1. CASE i = n + 1
      <4>1. i - 1 = n /\ n \in 0 .. n
        BY <3>1
      <4>2. x = d /\ y = b /\ f = e
        BY <3>1, <4>1, <2>1, <1>5, <1>9, <1>11
      <4> QED
        BY <4>2, <1>7
    <3>2. CASE i \in 1 .. n
      <4>1. i - 1 \in 0 .. n /\ i \in 0 .. n
        BY <3>2
      <4>2. x = p[i - 1] /\ y = p[i] /\ f = s[i]
        BY <3>2, <4>1, <2>1, <1>9, <1>11
      <4>3. f.stmt \in 0 .. MaxStmts
        BY <3>2, <4>2, <1>2, <1>3, StmtOf
      <4>4. Known(j, x) /\ Hears(j, x, f, y)
        BY <3>2, <4>1, <4>2, <1>4
      <4> QED
        BY <4>3, <4>4, HearsStays
    <3> QED
      BY <3>1, <3>2
  <2> QED
    BY <2>1, <2>2
<1>14. Line(j, q)'
  <2>1. chan'[j] = t /\ Len(chan'[j]) = n + 1
    BY <1>2, <1>10, <1>11
  <2>2. Stands(j, q[n + 1])'
    BY <1>7, <1>9
  <2> QED
    BY <1>12, <1>13, <2>1, <2>2 DEF Line
<1>15. q \in [0 .. Len(chan'[j]) -> Cursors] /\ q[0] = c
  BY <1>2, <1>9, <1>10, <1>11
<1> QED
  BY <1>14, <1>15 DEF Leads

(* The loop takes the first event.                                         *)
LEMMA LineShrinks ==
    ASSUME JobTypes, NEW j \in Jobs, NEW c, Leads(j, c), chan[j] # <<>>
    PROVE  \E d \in Cursors : /\ Known(j, c) /\ Known(j, d) /\ Hears(j, c, Head(chan[j]), d)
                              /\ (/\ chan'[j] = Tail(chan[j]) /\ Settles(j)
                                  /\ (\A b \in Cursors : Known(j, b) /\ Stands(j, b) => Stands(j, b)'))
                                 => Leads(j, d)'
<1>1. PICK p \in [0 .. Len(chan[j]) -> Cursors] : p[0] = c /\ Line(j, p)
  BY DEF Leads
<1>2. PICK s \in Seq(Events) : s = chan[j]
  BY JobFacts
<1>3. PICK n \in Nat : n + 1 = Len(s)
  BY <1>2
<1>4. /\ \A i \in 0 .. n + 1 : Known(j, p[i])
      /\ \A i \in 1 .. n + 1 : Hears(j, p[i - 1], s[i], p[i])
      /\ Stands(j, p[n + 1])
  BY <1>1, <1>2, <1>3 DEF Line
<1>5. PICK t : t = Tail(s)
  OBVIOUS
<1>6. /\ t \in Seq(Events) /\ Len(t) = n /\ Head(s) = s[1]
      /\ \A i \in 1 .. n : t[i] = s[i + 1]
  BY <1>2, <1>3, <1>5
<1>7. PICK q : q = [i \in 0 .. n |-> p[i + 1]]
  OBVIOUS
<1>8. q \in [0 .. n -> Cursors] /\ \A i \in 0 .. n : q[i] = p[i + 1]
  <2>1. \A i \in 0 .. n : i + 1 \in 0 .. n + 1
    BY <1>3
  <2>2. p \in [0 .. n + 1 -> Cursors]
    BY <1>1, <1>2, <1>3
  <2>3. \A i \in 0 .. n : p[i + 1] \in Cursors
    BY <2>1, <2>2
  <2> QED
    BY <1>7, <2>3
<1>9. PICK d \in Cursors : d = p[1]
  BY <1>1, <1>2, <1>3
<1>10. Known(j, c) /\ Known(j, d) /\ Hears(j, c, Head(chan[j]), d)
  <2>1. 0 \in 0 .. n + 1 /\ 1 \in 0 .. n + 1 /\ 1 \in 1 .. n + 1 /\ 1 - 1 = 0
    BY <1>3
  <2> QED
    BY <2>1, <1>1, <1>2, <1>4, <1>6, <1>9
<1>11. ASSUME chan'[j] = Tail(chan[j]), Settles(j), \A b \in Cursors : Known(j, b) /\ Stands(j, b) => Stands(j, b)'
       PROVE  Leads(j, d)'
  <2>1. \A i \in 0 .. n : Known(j, q[i])'
    <3> SUFFICES ASSUME NEW i \in 0 .. n PROVE Known(j, q[i])'
      OBVIOUS
    <3>1. PICK x : x = q[i]
      OBVIOUS
    <3>2. x = p[i + 1] /\ i + 1 \in 0 .. n + 1
      BY <3>1, <1>8
    <3>3. Known(j, x)'
      BY <1>4, <1>11, <3>2, KnownStays
    <3> QED
      BY <3>1, <3>3
  <2>2. \A i \in 1 .. n : Hears(j, q[i - 1], t[i], q[i])'
    <3> SUFFICES ASSUME NEW i \in 1 .. n PROVE Hears(j, q[i - 1], t[i], q[i])'
      OBVIOUS
    <3>1. PICK x, y, f : x = q[i - 1] /\ y = q[i] /\ f = t[i]
      OBVIOUS
    <3>2. i - 1 \in 0 .. n /\ i \in 0 .. n /\ i + 1 \in 1 .. n + 1 /\ (i + 1) - 1 = i /\ (i - 1) + 1 = i /\ i \in 0 .. n + 1
      OBVIOUS
    <3>3. x = p[i] /\ y = p[i + 1] /\ f = s[i + 1]
      BY <3>1, <3>2, <1>6, <1>8
    <3>4. Known(j, x) /\ Hears(j, x, f, y)
      BY <3>2, <3>3, <1>4
    <3>5. f.stmt \in 0 .. MaxStmts
      BY <3>2, <3>3, <1>2, <1>3, StmtOf
    <3>6. Hears(j, x, f, y)'
      BY <3>4, <3>5, <1>11, HearsStays
    <3> QED
      BY <3>1, <3>6
  <2>3. Stands(j, q[n])'
    <3>1. PICK x \in Cursors : x = q[n]
      BY <1>8
    <3>2. x = p[n + 1] /\ n + 1 \in 0 .. n + 1
      BY <3>1, <1>8
    <3>3. Known(j, x) /\ Stands(j, x)
      BY <3>2, <1>4
    <3>4. Stands(j, x)'
      BY <3>3, <1>11
    <3> QED
      BY <3>1, <3>4
  <2>4. Line(j, q)'
    <3>1. chan'[j] = t /\ Len(chan'[j]) = n
      BY <1>2, <1>5, <1>6, <1>11
    <3> QED
      BY <2>1, <2>2, <2>3, <3>1 DEF Line
  <2>5. q \in [0 .. Len(chan'[j]) -> Cursors] /\ q[0] = d
    BY <1>2, <1>5, <1>6, <1>8, <1>9, <1>11
  <2> QED
    BY <2>4, <2>5 DEF Leads
<1> QED
  BY <1>10, <1>11

(* A step of job j: it goes to T, and the statement s becomes R.           *)
Effect(j, T, s, R) ==
    /\ task' = [task EXCEPT ![j] = T]
    /\ truth' = [truth EXCEPT ![j][s] = R]
    /\ UNCHANGED <<text, guard, fired, loop>>

(* What a step of job j keeps.                                             *)
Stepped(j) ==
    /\ JobTypes' /\ TaskOK(j)' /\ Settles(j)
    /\ UNCHANGED <<text, guard, fired, loop>>
    /\ \A k \in Jobs \ {j} : task'[k] = task[k] /\ chan'[k] = chan[k] /\ truth'[k] = truth[k]
    /\ Len(chan[j]) <= ChanCap => Len(chan'[j]) <= ChanCap
    /\ \A s \in 1 .. MaxStmts :
         truth'[j][s].state = "refused" => truth[j][s].state = "refused" \/ j \in guard
    /\ loop[j[1]] = "done" => chan'[j] = chan[j]
    /\ loop[j[1]] # "done" => \A c \in Cursors : Leads(j, c) => Leads(j, c)'

(* A step on one statement of one job keeps the types, spares the other    *)
(* jobs and statements and settles what it settles.                        *)
LEMMA EffectFacts ==
    ASSUME JobTypes, NEW j \in Jobs,
           NEW T \in [at : Places, stmt : 0 .. MaxStmts],
           NEW s \in 1 .. MaxStmts, NEW R \in [state : States, rows : Nat],
           Effect(j, T, s, R),
           R = truth[j][s] \/ truth[j][s].state \notin Settled
    PROVE  /\ task' \in [Jobs -> [at : Places, stmt : 0 .. MaxStmts]] /\ task'[j] = T
           /\ truth' \in [Jobs -> Truths] /\ truth'[j][s] = R
           /\ \A q \in 1 .. MaxStmts : q # s => truth'[j][q] = truth[j][q]
           /\ \A k \in Jobs \ {j} : task'[k] = task[k] /\ truth'[k] = truth[k]
           /\ Settles(j)
<1>1. task' \in [Jobs -> [at : Places, stmt : 0 .. MaxStmts]] /\ task'[j] = T
      /\ \A k \in Jobs \ {j} : task'[k] = task[k]
  BY DEF JobTypes, Effect
<1>2. truth \in [Jobs -> Truths] /\ truth[j] \in Truths
  BY DEF JobTypes
<1>3. truth' = [truth EXCEPT ![j] = [truth[j] EXCEPT ![s] = R]]
  BY DEF Effect
<1>4. [truth[j] EXCEPT ![s] = R] \in Truths
  BY <1>2 DEF Truths
<1>5. truth' \in [Jobs -> Truths] /\ truth'[j] = [truth[j] EXCEPT ![s] = R]
      /\ \A k \in Jobs \ {j} : truth'[k] = truth[k]
  BY <1>2, <1>3, <1>4
<1>6. truth'[j][s] = R /\ \A q \in 1 .. MaxStmts : q # s => truth'[j][q] = truth[j][q]
  BY <1>2, <1>5 DEF Truths
<1>7. Settles(j)
  BY <1>6 DEF Settles, Effect
<1> QED
  BY <1>1, <1>5, <1>6, <1>7

(* A step without an event.                                                *)
LEMMA SilentStep ==
    ASSUME JobTypes, NEW j \in Jobs,
           NEW T \in [at : Places, stmt : 0 .. MaxStmts],
           NEW s \in 1 .. MaxStmts, NEW R \in [state : States, rows : Nat],
           Effect(j, T, s, R),
           R = truth[j][s] \/ truth[j][s].state \notin Settled,
           R.state = "refused" => R = truth[j][s] \/ j \in guard,
           chan' = chan, TaskOK(j)',
           \A d \in Cursors : Known(j, d) /\ Stands(j, d) => Stands(j, d)'
    PROVE  Stepped(j)
<1>1. /\ task' \in [Jobs -> [at : Places, stmt : 0 .. MaxStmts]]
      /\ truth' \in [Jobs -> Truths]
      /\ \A k \in Jobs \ {j} : task'[k] = task[k] /\ truth'[k] = truth[k]
      /\ Settles(j)
      /\ truth'[j][s] = R
      /\ \A q \in 1 .. MaxStmts : q # s => truth'[j][q] = truth[j][q]
  BY EffectFacts
<1>r. \A q \in 1 .. MaxStmts :
        truth'[j][q].state = "refused" => truth[j][q].state = "refused" \/ j \in guard
  BY <1>1
<1>2. UNCHANGED <<text, guard, fired, loop>>
  BY DEF Effect
<1>3. JobTypes'
  BY <1>1, <1>2 DEF JobTypes
<1>4. \A c \in Cursors : Leads(j, c) => Leads(j, c)'
  BY <1>1, LineStays
<1> QED
  BY <1>r, <1>1, <1>2, <1>3, <1>4 DEF Stepped

(* A step that sends e.                                                    *)
LEMMA SendingStep ==
    ASSUME JobTypes, NEW j \in Jobs,
           NEW T \in [at : Places, stmt : 0 .. MaxStmts],
           NEW s \in 1 .. MaxStmts, NEW R \in [state : States, rows : Nat],
           Effect(j, T, s, R),
           R = truth[j][s] \/ truth[j][s].state \notin Settled,
           R.state = "refused" => R = truth[j][s] \/ j \in guard,
           NEW e \in Events, Send(j, e), TaskOK(j)',
           \A d \in Cursors : Known(j, d) /\ Stands(j, d) =>
               \E b \in Cursors : Hears(j, d, e, b)' /\ Known(j, b)' /\ Stands(j, b)'
    PROVE  Stepped(j)
<1>1. /\ task' \in [Jobs -> [at : Places, stmt : 0 .. MaxStmts]]
      /\ truth' \in [Jobs -> Truths]
      /\ \A k \in Jobs \ {j} : task'[k] = task[k] /\ truth'[k] = truth[k]
      /\ Settles(j)
      /\ truth'[j][s] = R
      /\ \A q \in 1 .. MaxStmts : q # s => truth'[j][q] = truth[j][q]
  BY EffectFacts
<1>r. \A q \in 1 .. MaxStmts :
        truth'[j][q].state = "refused" => truth[j][q].state = "refused" \/ j \in guard
  BY <1>1
<1>2. UNCHANGED <<text, guard, fired, loop>>
  BY DEF Effect
<1>3. chan \in [Jobs -> Seq(Events)] /\ chan[j] \in Seq(Events)
  BY DEF JobTypes
<1>4. CASE loop[j[1]] = "done" /\ chan' = chan
  <2>1. JobTypes'
    BY <1>1, <1>2, <1>4 DEF JobTypes
  <2> QED
    BY <1>r, <1>1, <1>2, <1>4, <2>1 DEF Stepped
<1>5. CASE loop[j[1]] # "done" /\ Len(chan[j]) < ChanCap /\ chan' = [chan EXCEPT ![j] = Append(@, e)]
  <2>1. /\ chan' \in [Jobs -> Seq(Events)] /\ chan'[j] = Append(chan[j], e)
        /\ \A k \in Jobs \ {j} : chan'[k] = chan[k]
    BY <1>3, <1>5
  <2>2. Len(chan'[j]) <= ChanCap
    BY <1>3, <1>5, <2>1, JobFacts
  <2>3. JobTypes'
    BY <1>1, <1>2, <2>1 DEF JobTypes
  <2>4. \A c \in Cursors : Leads(j, c) => Leads(j, c)'
    BY <1>1, <2>1, LineGrows
  <2> QED
    BY <1>r, <1>1, <1>2, <1>5, <2>1, <2>2, <2>3, <2>4 DEF Stepped
<1> QED
  BY <1>4, <1>5 DEF Send

(* The record of a place, and that of a statement.                         *)
Place(at, s) == [at |-> at, stmt |-> s]
Row(state, n) == [state |-> state, rows |-> n]

(* Go as a change of the whole record.                                     *)
LEMMA GoMoves ==
    ASSUME JobTypes, NEW j \in Jobs, NEW place, Go(j, place)
    PROVE  task' = [task EXCEPT ![j] = Place(place, task[j].stmt)]
<1>1. task \in [Jobs -> [at : Places, stmt : 0 .. MaxStmts]] /\ task[j] \in [at : Places, stmt : 0 .. MaxStmts]
  BY DEF JobTypes
<1>2. [task[j] EXCEPT !.at = place] = Place(place, task[j].stmt)
  BY <1>1 DEF Place
<1>3. task' = [task EXCEPT ![j] = [task[j] EXCEPT !.at = place]]
  BY <1>1 DEF Go
<1> QED
  BY <1>2, <1>3

(* Becomes as a change of the whole row.                                   *)
LEMMA BecomesRow ==
    ASSUME JobTypes, NEW j \in Jobs, NEW s \in 1 .. MaxStmts, NEW state, NEW n, Becomes(j, s, state, n)
    PROVE  truth' = [truth EXCEPT ![j][s] = Row(state, truth[j][s].rows + n)]
BY DEF Becomes, Row

(* Nothing becomes of a statement.                                         *)
LEMMA TruthSame ==
    ASSUME JobTypes, NEW j \in Jobs, NEW s \in 1 .. MaxStmts, truth' = truth
    PROVE  truth' = [truth EXCEPT ![j][s] = truth[j][s]]
<1>1. truth \in [Jobs -> Truths] /\ truth[j] \in Truths
  BY DEF JobTypes
<1>2. [truth[j] EXCEPT ![s] = truth[j][s]] = truth[j]
  BY <1>1 DEF Truths
<1> QED
  BY <1>1, <1>2

(* The record of a place is one.                                           *)
LEMMA PlaceType ==
    ASSUME NEW at \in Places, NEW s \in 0 .. MaxStmts
    PROVE  Place(at, s) \in [at : Places, stmt : 0 .. MaxStmts]
BY DEF Place

(* The record of a row is one.                                             *)
LEMMA RowType ==
    ASSUME NEW state \in States, NEW n \in Nat
    PROVE  Row(state, n) \in [state : States, rows : Nat]
BY DEF Row

(* The code of an event that has none.                                     *)
NoCode == ""

(* The empty code is a code.                                               *)
LEMMA NoCodeIsCode == NoCode \in Codes /\ NoCode # "cancelled"
BY Zenon DEF Codes, NoCode

(* An event made of such parts is an event.                                *)
LEMMA EventTypes ==
    ASSUME NEW s \in 0 .. MaxStmts, NEW n \in Nat, NEW code \in Codes, NEW ev \in Kinds
    PROVE  Event(ev, s, n, code) \in Events
BY DEF Event, Events

(* The events by their fields.                                             *)
LEMMA EventsAre ==
    ASSUME NEW s, NEW n, NEW code
    PROVE  /\ Plain("Started") = Event("Started", 0, 0, NoCode)
           /\ Plain("RunFinished") = Event("RunFinished", 0, 0, NoCode)
           /\ ReadStarted(s) = Event("ReadStarted", s, 0, NoCode)
           /\ WriteStarted(s) = Event("WriteStarted", s, 0, NoCode)
           /\ Batch(s) = Event("Batch", s, 1, NoCode)
           /\ ReadFinished(s) = Event("ReadFinished", s, 0, NoCode)
           /\ WriteFinished(s, n) = Event("WriteFinished", s, n, NoCode)
           /\ StatementFailed(s, code) = Event("StatementFailed", s, 0, code)
BY Zenon DEF NoCode, Plain, ReadStarted, WriteStarted, Batch, ReadFinished, WriteFinished, StatementFailed

(* The events the job sends are events.                                    *)
LEMMA SomeEvents ==
    ASSUME NEW s \in 0 .. MaxStmts, NEW n \in Nat, NEW code \in Codes
    PROVE  /\ Plain("Started") \in Events /\ Plain("RunFinished") \in Events
           /\ ReadStarted(s) \in Events /\ WriteStarted(s) \in Events
           /\ Batch(s) \in Events /\ ReadFinished(s) \in Events /\ WriteFinished(s, n) \in Events
           /\ StatementFailed(s, code) \in Events /\ Event("Finished", 0, 0, code) \in Events
<1>1. MaxStmts \in Nat
  BY StatementsAssumption
<1>2. 0 \in 0 .. MaxStmts /\ 0 \in Nat /\ 1 \in Nat
  BY <1>1
<1> QED
  BY <1>2, EventTypes, EventsAre, NoCodeIsCode DEF Kinds

(* A cursor made of such parts is a cursor.                                *)
LEMMA AtType ==
    ASSUME NEW phase \in Phases, NEW s \in 0 .. MaxStmts, NEW n \in 0 .. MaxRows
    PROVE  /\ At(phase, s, n) \in Cursors
           /\ At(phase, s, n).phase = phase /\ At(phase, s, n).stmt = s /\ At(phase, s, n).rows = n
BY DEF At, Cursors

(* A statement fails, or a connection does in place of the first one.      *)
LEMMA FailStep ==
    ASSUME JobTypes, NEW j \in Jobs, TaskOK(j), NEW s \in 1 .. MaxStmts,
           \/ task[j].at \in {"start", "next"} /\ s = task[j].stmt + 1 /\ s <= Len(text[j[1]])
           \/ task[j].at \in InStatement /\ s = task[j].stmt,
           NEW state \in {"failed", "cancelled", "refused"}, NEW code \in Codes,
           code = "cancelled" <=> state = "cancelled",
           state = "refused" => j \in guard,
           state = "cancelled" => j[1] \in fired /\ task[j].at \in InStatement,
           Fail(j, s, state, code), UNCHANGED <<text, guard, fired, loop>>
    PROVE  Stepped(j)
<1> DEFINE n == task[j].stmt
<1> DEFINE T == Place("bad", n)
<1> DEFINE R == Row(state, truth[j][s].rows)
<1> DEFINE e == StatementFailed(s, code)
<1>0. /\ n \in 0 .. MaxStmts /\ truth[j][s] \in [state : States, rows : Nat] /\ MaxStmts \in Nat
      /\ s \in 0 .. MaxStmts /\ 0 \in 0 .. MaxRows
  BY JobFacts
<1>1. truth[j][s].state \in {"none", "running"}
  <2>1. CASE task[j].at \in {"start", "next"}
    <3>1. s > task[j].stmt
      BY <1>0, <2>1 DEF InStatement
    <3> QED
      BY <2>1, <3>1 DEF TaskOK, Unknown
  <2>2. CASE task[j].at \in InStatement
    BY <2>2 DEF TaskOK, InStatement
  <2> QED
    BY <2>1, <2>2
<1>2. T \in [at : Places, stmt : 0 .. MaxStmts] /\ R \in [state : States, rows : Nat]
      /\ truth[j][s].state \notin Settled
  BY <1>0, <1>1, PlaceType, RowType DEF Places, States, Settled
<1>3. Effect(j, T, s, R)
  <2>1. task' = [task EXCEPT ![j] = T]
    BY GoMoves DEF Fail
  <2>2. Becomes(j, s, state, 0)
    BY DEF Fail
  <2>3. truth' = [truth EXCEPT ![j][s] = Row(state, truth[j][s].rows + 0)]
    BY <2>2, BecomesRow
  <2>4. truth[j][s].rows + 0 = truth[j][s].rows
    BY <1>0
  <2> QED
    BY <2>1, <2>3, <2>4 DEF Effect
<1>4. /\ task'[j] = T /\ truth'[j][s] = R
      /\ \A q \in 1 .. MaxStmts : q # s => truth'[j][q] = truth[j][q]
  <2> HIDE DEF T, R
  <2> QED
    BY <1>2, <1>3, EffectFacts
<1>5. task'[j].at = "bad" /\ task'[j].stmt = n /\ truth'[j][s].state = state
  BY <1>4 DEF Place, Row
<1>6. TaskOK(j)'
  <2>1. \A q \in 1 .. MaxStmts : q < n => truth'[j][q].state = "ok"
    <3> SUFFICES ASSUME NEW q \in 1 .. MaxStmts, q < n PROVE truth'[j][q].state = "ok"
      OBVIOUS
    <3>1. q # s
      BY <1>0
    <3> QED
      BY <1>4, <3>1 DEF TaskOK
  <2>2. \A q \in 1 .. MaxStmts : q > n =>
           \/ truth'[j][q] = Unknown
           \/ q = n + 1 /\ q <= Len(text[j[1]]) /\ truth'[j][q].state \in {"failed", "refused"}
    <3> SUFFICES ASSUME NEW q \in 1 .. MaxStmts, q > n
                 PROVE  \/ truth'[j][q] = Unknown
                        \/ q = n + 1 /\ q <= Len(text[j[1]]) /\ truth'[j][q].state \in {"failed", "refused"}
      OBVIOUS
    <3>1. truth[j][q] = Unknown
      BY DEF TaskOK, InStatement
    <3>2. CASE q # s
      BY <1>4, <3>1, <3>2
    <3>3. CASE q = s
      <4>1. task[j].at \in {"start", "next"} /\ task[j].at \notin InStatement
        BY <1>0, <3>3 DEF InStatement
      <4> QED
        BY <1>5, <3>3, <4>1
    <3> QED
      BY <3>2, <3>3
  <2>3. text[j[1]] \in Texts /\ n <= Len(text[j[1]])
    BY DEF TaskOK, InStatement
  <2>4. j[1] \in fired \/ \E q \in 1 .. MaxStmts : truth'[j][q].state \in {"failed", "refused"}
    BY <1>5
  <2> HIDE DEF T, R, n
  <2> QED
    BY <1>5, <2>1, <2>2, <2>3, <2>4 DEF TaskOK, InStatement
<1>7. e \in Events /\ Send(j, e)
  BY <1>0, SomeEvents DEF Fail
<1>8. ASSUME NEW d \in Cursors, Known(j, d), Stands(j, d)
      PROVE  \E b \in Cursors : Hears(j, d, e, b)' /\ Known(j, b)' /\ Stands(j, b)'
  <2> DEFINE b == At("bad", s, 0)
  <2>1. d.phase \in {"next", "stream", "exec"} /\ s = Complete(d) + 1
    <3>1. task[j].at = "start" => n = 0
      BY DEF TaskOK
    <3>2. /\ task[j].at = "start" => d = At("next", 0, 0)
          /\ task[j].at = "next" => d = At("next", n, 0)
          /\ task[j].at = "query" => d = At("next", n - 1, 0)
          /\ task[j].at = "stream" => d = At("stream", n, truth[j][n].rows)
          /\ task[j].at = "exec" => d = At("exec", n, 0)
      BY <1>8 DEF Stands
    <3>3. \/ task[j].at \in {"start", "next"} /\ s = n + 1
          \/ task[j].at \in {"query", "stream", "exec"} /\ s = n
      BY DEF InStatement
    <3> HIDE DEF n
    <3> QED
      BY ONLY <1>0, <3>1, <3>2, <3>3 DEF At, Complete
  <2>2. b \in Cursors /\ b.phase = "bad"
    BY <1>0, AtType DEF Phases
  <2>3. e.ev = "StatementFailed" /\ e.stmt = s /\ e.code = code
    BY DEF StatementFailed, Event
  <2>4. Hears(j, d, e, b)'
    <3> HIDE DEF e, T, R, n
    <3> QED
      BY <1>5, <2>1, <2>3 DEF Hears
  <2>5. Known(j, b)' /\ Stands(j, b)'
    <3> HIDE DEF T, R, n, b
    <3> QED
      BY <1>5, <2>2 DEF Known, Stands
  <2> QED
    BY <2>2, <2>4, <2>5
<1>9. R.state = "refused" => j \in guard
  BY DEF Row
<1> HIDE DEF e, R, T
<1> QED
  BY <1>2, <1>3, <1>6, <1>7, <1>8, <1>9, SendingStep

(* The connection is opened, or not.                                       *)
LEMMA OpenStep ==
    ASSUME JobTypes, NEW j \in Jobs, TaskOK(j), Open(j)
    PROVE  Stepped(j)
<1> USE JobFacts
<1>0. /\ task[j].at = "start" /\ task[j].stmt = 0 /\ UNCHANGED <<text, guard, fired, loop>>
      /\ text[j[1]] \in Texts /\ Len(text[j[1]]) >= 1
      /\ \A s \in 1 .. MaxStmts : truth[j][s] = Unknown
  <2>1. task[j].at = "start" /\ UNCHANGED <<text, guard, fired, loop>>
    BY DEF Open
  <2>2. task[j].stmt = 0 /\ text[j[1]] \in Texts
    BY <2>1 DEF TaskOK
  <2>3. \A s \in 1 .. MaxStmts : s > task[j].stmt
    BY <2>2
  <2>4. \A s \in 1 .. MaxStmts : truth[j][s] = Unknown
    BY <2>1, <2>3 DEF TaskOK
  <2> QED
    BY <2>1, <2>2, <2>4
<1>1. 1 \in 1 .. MaxStmts /\ 0 \in 0 .. MaxStmts /\ 0 \in 0 .. MaxRows /\ 1 \in 0 .. MaxStmts
  OBVIOUS
<1>2. truth[j][1].state \notin Settled /\ truth[j][1] \in [state : States, rows : Nat] /\ truth[j][1].rows = 0
  BY <1>0, <1>1 DEF Unknown, Settled
<1>3. ASSUME NEW place \in {"bad", "next"}, Go(j, place), chan' = chan, truth' = truth,
             place = "bad" => j[1] \in fired
      PROVE  Stepped(j)
  <2>1. Place(place, 0) \in [at : Places, stmt : 0 .. MaxStmts]
    BY <1>1, PlaceType DEF Places
  <2>2. Effect(j, Place(place, 0), 1, truth[j][1])
    BY <1>0, <1>1, <1>3, GoMoves, TruthSame DEF Effect
  <2>3. task'[j] = Place(place, 0)
    BY <1>1, <1>2, <2>1, <2>2, EffectFacts
  <2>4. TaskOK(j)'
    BY <1>0, <1>3, <2>3 DEF TaskOK, Place, InStatement
  <2>5. \A d \in Cursors : Known(j, d) /\ Stands(j, d) => Stands(j, d)'
    BY <1>0, <1>3, <2>3 DEF Stands, Place, At
  <2> QED
    BY <1>1, <1>2, <1>3, <2>1, <2>2, <2>4, <2>5, SilentStep
<1>4. ASSUME NEW c \in Codes, c # "cancelled", Fail(j, 1, "failed", c) PROVE Stepped(j)
  BY <1>0, <1>1, <1>4, FailStep
<1>5. Fail(j, 1, "failed", NoCode) => Stepped(j)
  BY <1>4, NoCodeIsCode
<1>6. \/ Go(j, IF j[1] \in fired THEN "bad" ELSE "next") /\ UNCHANGED <<chan, truth>>
      \/ Fail(j, 1, "failed", NoCode)
  BY Zenon DEF Open, NoCode
<1> QED
  BY <1>3, <1>5, <1>6

(* The events a job sends, by their fields.                                *)
LEMMA Sent ==
    ASSUME NEW s \in 0 .. MaxStmts, NEW n \in Nat
    PROVE  /\ Plain("Started") \in Events /\ Plain("Started").ev = "Started"
           /\ Plain("RunFinished") \in Events /\ Plain("RunFinished").ev = "RunFinished"
           /\ ReadStarted(s) \in Events /\ ReadStarted(s).ev = "ReadStarted" /\ ReadStarted(s).stmt = s
           /\ WriteStarted(s) \in Events /\ WriteStarted(s).ev = "WriteStarted" /\ WriteStarted(s).stmt = s
           /\ Batch(s) \in Events /\ Batch(s).ev = "Batch" /\ Batch(s).stmt = s /\ Batch(s).rows = 1
           /\ ReadFinished(s) \in Events /\ ReadFinished(s).ev = "ReadFinished" /\ ReadFinished(s).stmt = s
           /\ WriteFinished(s, n) \in Events /\ WriteFinished(s, n).ev = "WriteFinished"
           /\ WriteFinished(s, n).stmt = s /\ WriteFinished(s, n).rows = n
<1>1. /\ Plain("Started") \in Events /\ Plain("RunFinished") \in Events
      /\ ReadStarted(s) \in Events /\ WriteStarted(s) \in Events
      /\ Batch(s) \in Events /\ ReadFinished(s) \in Events /\ WriteFinished(s, n) \in Events
  BY SomeEvents, NoCodeIsCode
<1>2. /\ Plain("Started") = Event("Started", 0, 0, NoCode)
      /\ Plain("RunFinished") = Event("RunFinished", 0, 0, NoCode)
      /\ ReadStarted(s) = Event("ReadStarted", s, 0, NoCode)
      /\ WriteStarted(s) = Event("WriteStarted", s, 0, NoCode)
      /\ Batch(s) = Event("Batch", s, 1, NoCode)
      /\ ReadFinished(s) = Event("ReadFinished", s, 0, NoCode)
      /\ WriteFinished(s, n) = Event("WriteFinished", s, n, NoCode)
  BY EventsAre
<1>3. \A ev, q, m, c : Event(ev, q, m, c).ev = ev /\ Event(ev, q, m, c).stmt = q /\ Event(ev, q, m, c).rows = m
  BY DEF Event
<1> QED
  BY <1>1, <1>2, <1>3

(* Somebody who has heard everything, when the job has moved on.           *)
LEMMA Arrives ==
    ASSUME NEW j \in Jobs, NEW phase \in {"next", "stream", "exec", "good"},
           NEW s \in 0 .. MaxStmts, NEW n \in 0 .. MaxRows, NEW at,
           phase = "next" => at \in {"next", "start"},
           phase \in {"stream", "exec", "good"} => at = phase,
           at = "start" => s = 0,
           phase \in {"stream", "exec"} => s > 0,
           phase \notin {"stream"} => n = 0,
           task'[j] = Place(at, s),
           phase = "stream" => truth'[j][s].rows = n,
           \A q \in 1 .. MaxStmts : q < s => truth'[j][q].state = "ok",
           \A q \in 1 .. MaxStmts : q = s /\ phase \in {"next", "good"} => truth'[j][q].state = "ok"
    PROVE  At(phase, s, n) \in Cursors /\ Known(j, At(phase, s, n))' /\ Stands(j, At(phase, s, n))'
<1>1. PICK b : b = At(phase, s, n)
  OBVIOUS
<1>2. b \in Cursors /\ b.phase = phase /\ b.stmt = s /\ b.rows = n
  BY <1>1, AtType DEF Phases
<1>3. MaxStmts \in Nat
  BY StatementsAssumption
<1>4. \A q \in 1 .. MaxStmts : q <= Complete(b) => truth'[j][q].state = "ok"
  BY <1>2, <1>3 DEF Complete
<1>5. Known(j, b)'
  BY <1>2, <1>4 DEF Known
<1>6. Stands(j, b)'
  BY <1>1 DEF Stands, Place
<1> QED
  BY <1>1, <1>2, <1>5, <1>6

(* The statement a job is at is under way: its rows so far, its state.     *)
LEMMA AtStatement ==
    ASSUME JobTypes, NEW j \in Jobs, TaskOK(j), task[j].at \in InStatement
    PROVE  LET s == task[j].stmt IN
           /\ s \in 1 .. MaxStmts /\ s <= Len(text[j[1]]) /\ text[j[1]] \in Texts
           /\ truth[j][s].state = "running" /\ truth[j][s].state \notin Settled
           /\ truth[j][s] \in [state : States, rows : Nat] /\ truth[j][s].rows \in 0 .. MaxRows
           /\ \A q \in 1 .. MaxStmts : /\ q < s => truth[j][q].state = "ok"
                                       /\ q > s => truth[j][q] = Unknown
           /\ task[j].at \in {"query", "exec"} => truth[j][s].rows = 0
<1> DEFINE s == task[j].stmt
<1>1. s \in 1 .. MaxStmts /\ s <= Len(text[j[1]]) /\ text[j[1]] \in Texts
  BY JobFacts DEF TaskOK, InStatement
<1>2. truth[j][s].state = "running" /\ truth[j][s].state \notin Settled
  BY <1>1 DEF TaskOK, Settled
<1>3. truth[j][s] \in [state : States, rows : Nat] /\ truth[j][s].rows \in Nat /\ MaxRows \in Nat
  BY <1>1, JobFacts
<1>4. /\ task[j].at \in {"query", "exec"} => truth[j][s].rows = 0
      /\ task[j].at = "stream" => truth[j][s].rows <= MaxRows
  BY <1>1 DEF TaskOK
<1>5. \A q \in 1 .. MaxStmts : /\ q < s => truth[j][q].state = "ok"
                               /\ q > s => truth[j][q] = Unknown
  BY DEF TaskOK, InStatement
<1>6. truth[j][s].rows \in 0 .. MaxRows
  BY <1>3, <1>4 DEF InStatement
<1> QED
  BY <1>1, <1>2, <1>3, <1>4, <1>5, <1>6

(* The job goes on to place at with statement s, after which the rest is   *)
(* as it was.                                                              *)
LEMMA PlaceOK ==
    ASSUME JobTypes, NEW j \in Jobs, NEW s \in 0 .. MaxStmts, s <= Len(text[j[1]]), text[j[1]] \in Texts,
           NEW at, task'[j] = Place(at, s), text' = text, fired' = fired,
           at \in {"next", "bad", "good"} \cup InStatement,
           at \in InStatement => s > 0,
           at = "good" => s = Len(text[j[1]]),
           at = "bad" => j[1] \in fired,
           \A q \in 1 .. MaxStmts :
              /\ q < s => truth'[j][q].state = "ok"
              /\ q > s => truth'[j][q] = Unknown
              /\ q = s => /\ at \in {"next", "good"} => truth'[j][q].state = "ok"
                          /\ at \in InStatement => truth'[j][q].state = "running"
                          /\ at \in {"query", "exec"} => truth'[j][q].rows = 0
                          /\ at = "stream" => truth'[j][q].rows <= MaxRows
    PROVE  TaskOK(j)'
<1>1. task'[j].at = at /\ task'[j].stmt = s
  BY DEF Place
<1> QED
  BY <1>1 DEF TaskOK, InStatement

(* The head of the loop over the statements.                               *)
LEMMA NextStep ==
    ASSUME JobTypes, NEW j \in Jobs, TaskOK(j), NextStatement(j)
    PROVE  Stepped(j)
<1>n. PICK n \in 0 .. MaxStmts : n = task[j].stmt
  BY JobFacts
<1> DEFINE s == n + 1
<1>0. /\ task[j].at = "next" /\ UNCHANGED <<text, guard, fired, loop>>
      /\ text[j[1]] \in Texts /\ n <= Len(text[j[1]])
  BY <1>n DEF NextStatement, TaskOK
<1>1. /\ n \in 0 .. MaxStmts /\ n \in Nat /\ MaxStmts \in Nat /\ MaxStmts >= 1
      /\ Len(text[j[1]]) \in Nat /\ Len(text[j[1]]) <= MaxStmts
      /\ 0 \in 0 .. MaxRows /\ 1 \in 1 .. MaxStmts /\ truth[j][1] \in [state : States, rows : Nat]
      /\ s <= Len(text[j[1]]) => s \in 1 .. MaxStmts
  BY <1>n, <1>0, JobFacts
<1>2. \A q \in 1 .. MaxStmts : /\ q < s => truth[j][q].state = "ok"
                               /\ q > n => truth[j][q] = Unknown
  BY <1>n, <1>0, <1>1 DEF TaskOK
<1>3. ASSUME s > Len(text[j[1]]), Send(j, Plain("RunFinished")), Go(j, "good"), truth' = truth
      PROVE  Stepped(j)
  <2>0. n = Len(text[j[1]])
    BY <1>0, <1>1, <1>3
  <2>1. Place("good", n) \in [at : Places, stmt : 0 .. MaxStmts]
    BY <1>1, PlaceType DEF Places
  <2>2. Effect(j, Place("good", n), 1, truth[j][1])
    BY <1>0, <1>1, <1>3, <1>n, GoMoves, TruthSame DEF Effect
  <2>3. task'[j] = Place("good", n)
    BY <1>1, <2>1, <2>2, EffectFacts
  <2>4. TaskOK(j)'
    BY <1>0, <1>1, <1>2, <1>3, <2>0, <2>3, PlaceOK DEF InStatement
  <2> DEFINE e == Plain("RunFinished")
  <2>5. e \in Events /\ e.ev = "RunFinished"
    BY <1>1, Sent
  <2>6. ASSUME NEW d \in Cursors, Known(j, d), Stands(j, d)
        PROVE  \E b \in Cursors : Hears(j, d, e, b)' /\ Known(j, b)' /\ Stands(j, b)'
    <3>1. d = At("next", n, 0) /\ d.phase = "next" /\ d.stmt = n
      BY <1>n, <1>0, <2>6 DEF Stands, At
    <3>2. /\ At("good", n, 0) \in Cursors
          /\ Known(j, At("good", n, 0))' /\ Stands(j, At("good", n, 0))'
      BY <1>1, <1>2, <1>3, <2>3, Arrives
    <3>3. Hears(j, d, e, At("good", n, 0))'
      <4> HIDE DEF e
      <4> QED
        BY <1>0, <2>0, <2>5, <3>1 DEF Hears
    <3> QED
      BY <3>2, <3>3
  <2>7. Send(j, e)
    BY <1>3
  <2> HIDE DEF e
  <2> QED
    BY <1>1, <2>1, <2>2, <2>4, <2>5, <2>6, <2>7, SendingStep
<1>4. ASSUME j[1] \in fired, Go(j, "bad"), chan' = chan, truth' = truth
      PROVE  Stepped(j)
  <2>1. Place("bad", n) \in [at : Places, stmt : 0 .. MaxStmts]
    BY <1>1, PlaceType DEF Places
  <2>2. Effect(j, Place("bad", n), 1, truth[j][1])
    BY <1>0, <1>1, <1>4, <1>n, GoMoves, TruthSame DEF Effect
  <2>3. task'[j] = Place("bad", n)
    BY <1>1, <2>1, <2>2, EffectFacts
  <2>4. TaskOK(j)'
    BY <1>0, <1>1, <1>2, <1>4, <2>3, PlaceOK DEF InStatement
  <2>5. \A d \in Cursors : Known(j, d) /\ Stands(j, d) => Stands(j, d)'
    BY <1>n, <1>0, <2>3 DEF Stands, Place, At
  <2> QED
    BY <1>1, <1>4, <2>1, <2>2, <2>4, <2>5, SilentStep
<1>5. ASSUME s <= Len(text[j[1]]), NEW place \in {"query", "exec"},
             task' = [task EXCEPT ![j] = Place(place, s)], Becomes(j, s, "running", 0)
      PROVE  /\ Place(place, s) \in [at : Places, stmt : 0 .. MaxStmts]
             /\ s \in 1 .. MaxStmts
             /\ Row("running", 0) \in [state : States, rows : Nat]
             /\ Effect(j, Place(place, s), s, Row("running", 0))
             /\ truth[j][s].state \notin Settled
             /\ task'[j] = Place(place, s)
             /\ \A q \in 1 .. MaxStmts : q < s => truth'[j][q].state = "ok"
             /\ TaskOK(j)'
  <2>1. s \in 1 .. MaxStmts /\ s \in 0 .. MaxStmts
    BY <1>1, <1>5
  <2>2. Place(place, s) \in [at : Places, stmt : 0 .. MaxStmts] /\ Row("running", 0) \in [state : States, rows : Nat]
    BY <2>1, PlaceType, RowType DEF Places, States, InStatement
  <2>3. truth[j][s] = Unknown /\ truth[j][s].state = "none" /\ truth[j][s].rows = 0
    BY <1>1, <1>2, <2>1 DEF Unknown
  <2>4. truth' = [truth EXCEPT ![j][s] = Row("running", truth[j][s].rows + 0)]
    <3> HIDE DEF s
    <3> QED
      BY <1>5, <2>1, BecomesRow
  <2>5. Effect(j, Place(place, s), s, Row("running", 0))
    <3>1. truth[j][s].rows + 0 = 0
      BY <2>3
    <3> QED
      BY <1>0, <1>5, <2>4, <3>1 DEF Effect
  <2>6. truth[j][s].state \notin Settled
    BY <2>3 DEF Settled
  <2>7. /\ task'[j] = Place(place, s) /\ truth'[j][s] = Row("running", 0)
        /\ \A q \in 1 .. MaxStmts : q # s => truth'[j][q] = truth[j][q]
    <3> HIDE DEF s
    <3> QED
      BY <2>1, <2>2, <2>5, <2>6, EffectFacts
  <2>8. \A q \in 1 .. MaxStmts : /\ q < s => truth'[j][q].state = "ok"
                                 /\ q > s => truth'[j][q] = Unknown
                                 /\ q = s => truth'[j][q].state = "running" /\ truth'[j][q].rows = 0
    BY <1>1, <1>2, <2>7 DEF Row
  <2>9. TaskOK(j)'
    <3>1. s > 0
      BY <2>1
    <3> HIDE DEF s
    <3> QED
      BY <1>0, <1>5, <2>1, <2>7, <2>8, <3>1, PlaceOK DEF InStatement
  <2> QED
    BY <2>1, <2>2, <2>5, <2>6, <2>7, <2>8, <2>9
<1>6. ASSUME s <= Len(text[j[1]]),
             task' = [task EXCEPT ![j] = Place("query", s)], Becomes(j, s, "running", 0), chan' = chan
      PROVE  Stepped(j)
  <2>1. /\ Place("query", s) \in [at : Places, stmt : 0 .. MaxStmts]
        /\ s \in 1 .. MaxStmts
        /\ Row("running", 0) \in [state : States, rows : Nat]
        /\ Effect(j, Place("query", s), s, Row("running", 0))
        /\ truth[j][s].state \notin Settled
        /\ task'[j] = Place("query", s)
        /\ TaskOK(j)'
    BY <1>5, <1>6
  <2>2. \A d \in Cursors : Known(j, d) /\ Stands(j, d) => Stands(j, d)'
    <3>1. s - 1 = n
      BY <1>1
    <3> HIDE DEF s
    <3> QED
      BY <1>n, <1>0, <2>1, <3>1 DEF Stands, Place, At
  <2>3. Row("running", 0).state # "refused"
    BY DEF Row
  <2> HIDE DEF s
  <2> QED
    BY <1>6, <2>1, <2>2, <2>3, SilentStep
<1>7. ASSUME s <= Len(text[j[1]]), Send(j, WriteStarted(s)),
             task' = [task EXCEPT ![j] = Place("exec", s)], Becomes(j, s, "running", 0)
      PROVE  Stepped(j)
  <2>1. /\ Place("exec", s) \in [at : Places, stmt : 0 .. MaxStmts]
        /\ s \in 1 .. MaxStmts
        /\ Row("running", 0) \in [state : States, rows : Nat]
        /\ Effect(j, Place("exec", s), s, Row("running", 0))
        /\ truth[j][s].state \notin Settled
        /\ task'[j] = Place("exec", s)
        /\ \A q \in 1 .. MaxStmts : q < s => truth'[j][q].state = "ok"
        /\ TaskOK(j)'
    BY <1>5, <1>7
  <2>2. s \in 0 .. MaxStmts
    BY <2>1, <1>1
  <2> DEFINE e == WriteStarted(s)
  <2>3. e \in Events /\ e.ev = "WriteStarted" /\ e.stmt = s
    <3> HIDE DEF s
    <3> QED
      BY <2>2, <1>1, Sent
  <2>4. ASSUME NEW d \in Cursors, Known(j, d), Stands(j, d)
        PROVE  \E b \in Cursors : Hears(j, d, e, b)' /\ Known(j, b)' /\ Stands(j, b)'
    <3>1. d = At("next", n, 0) /\ d.phase = "next" /\ d.stmt = n
      BY <1>n, <1>0, <2>4 DEF Stands, At
    <3>2. s > 0 /\ \A q \in 1 .. MaxStmts : q # s \/ q = s
      BY <2>1
    <3>3. /\ At("exec", s, 0) \in Cursors
          /\ Known(j, At("exec", s, 0))' /\ Stands(j, At("exec", s, 0))'
      <4> HIDE DEF s
      <4> QED
        BY <1>1, <2>1, <2>2, <3>2, Arrives
    <3>4. Hears(j, d, e, At("exec", s, 0))'
      <4> HIDE DEF e
      <4> QED
        BY <2>3, <3>1 DEF Hears
    <3> QED
      BY <3>3, <3>4
  <2>5. Row("running", 0).state # "refused"
    BY DEF Row
  <2> HIDE DEF e, s
  <2>6. Send(j, e)
    BY <1>7 DEF e
  <2> QED
    BY <2>1, <2>3, <2>4, <2>5, <2>6, SendingStep
<1>8. ASSUME s <= Len(text[j[1]]), j \in guard, Fail(j, s, "refused", NoCode)
      PROVE  Stepped(j)
  <2>1. s \in 1 .. MaxStmts
    BY <1>1, <1>8
  <2> QED
    BY <1>n, <1>0, <1>8, <2>1, FailStep, NoCodeIsCode
<1>9. \/ s > Len(text[j[1]]) /\ Send(j, Plain("RunFinished")) /\ Go(j, "good") /\ UNCHANGED truth
      \/ j[1] \in fired /\ Go(j, "bad") /\ UNCHANGED <<chan, truth>>
      \/ /\ s <= Len(text[j[1]])
         /\ \/ task' = [task EXCEPT ![j] = Place("query", s)] /\ Becomes(j, s, "running", 0) /\ UNCHANGED chan
            \/ /\ Send(j, WriteStarted(s))
               /\ task' = [task EXCEPT ![j] = Place("exec", s)] /\ Becomes(j, s, "running", 0)
            \/ j \in guard /\ Fail(j, s, "refused", NoCode)
  BY <1>n, Zenon DEF NextStatement, NoCode, Place
<1> QED
  BY <1>3, <1>4, <1>6, <1>7, <1>8, <1>9

(* The driver answers with e: the statement is at place, its row is R now, *)
(* and who has heard e is at phase and n.                                  *)
LEMMA Answers ==
    ASSUME JobTypes, NEW j \in Jobs, TaskOK(j), task[j].at \in InStatement,
           UNCHANGED <<text, guard, fired, loop>>,
           NEW s, s = task[j].stmt,
           NEW place \in {"next", "stream"},
           NEW state \in {"running", "ok"}, NEW n \in Nat, state = "running" <=> place = "stream",
           place = "stream" => n <= MaxRows,
           Effect(j, Place(place, s), s, Row(state, n)),
           NEW e \in Events, Send(j, e),
           \A d \in Cursors : Known(j, d) /\ Stands(j, d)
                => Hears(j, d, e, At(place, s, IF place = "stream" THEN n ELSE 0))'
    PROVE  Stepped(j)
<1>1. /\ s \in 1 .. MaxStmts /\ s <= Len(text[j[1]]) /\ text[j[1]] \in Texts
      /\ truth[j][s].state \notin Settled
      /\ \A q \in 1 .. MaxStmts : /\ q < s => truth[j][q].state = "ok"
                                  /\ q > s => truth[j][q] = Unknown
  BY AtStatement
<1>2. s \in 0 .. MaxStmts /\ s > 0
  BY <1>1, StatementsAssumption
<1>3. Place(place, s) \in [at : Places, stmt : 0 .. MaxStmts] /\ Row(state, n) \in [state : States, rows : Nat]
  BY <1>2, PlaceType, RowType DEF Places, States, InStatement
<1>4. /\ task'[j] = Place(place, s) /\ truth'[j][s] = Row(state, n)
      /\ \A q \in 1 .. MaxStmts : q # s => truth'[j][q] = truth[j][q]
  <2>1. PICK T : T = Place(place, s)
    OBVIOUS
  <2>2. PICK R : R = Row(state, n)
    OBVIOUS
  <2>3. Effect(j, T, s, R)
    BY <2>1, <2>2
  <2>4. task'[j] = T /\ truth'[j][s] = R /\ \A q \in 1 .. MaxStmts : q # s => truth'[j][q] = truth[j][q]
    BY ONLY JobTypes, j \in Jobs, <1>1, <1>3, <2>1, <2>2, <2>3, EffectFacts
  <2> QED
    BY <2>1, <2>2, <2>4
<1>5. \A q \in 1 .. MaxStmts : /\ q < s => truth'[j][q].state = "ok"
                               /\ q > s => truth'[j][q] = Unknown
                               /\ q = s => truth'[j][q].state = state /\ truth'[j][q].rows = n
  BY <1>1, <1>4 DEF Row
<1>6. TaskOK(j)'
  BY <1>1, <1>2, <1>4, <1>5, PlaceOK DEF InStatement
<1>7. PICK m \in 0 .. MaxRows : m = IF place = "stream" THEN n ELSE 0
  BY StatementsAssumption
<1>8. At(place, s, m) \in Cursors /\ Known(j, At(place, s, m))' /\ Stands(j, At(place, s, m))'
  <2>1. place = "stream" => truth'[j][s].rows = m
    BY <1>1, <1>5, <1>7
  <2>2. place # "stream" => m = 0
    BY <1>7
  <2> QED
    BY <1>2, <1>4, <1>5, <2>1, <2>2, Arrives
<1>9. ASSUME NEW d \in Cursors, Known(j, d), Stands(j, d)
      PROVE  \E b \in Cursors : Hears(j, d, e, b)' /\ Known(j, b)' /\ Stands(j, b)'
  <2>1. Hears(j, d, e, At(place, s, m))'
    BY <1>7, <1>9
  <2> QED
    BY <1>8, <2>1
<1>10. Row(state, n).state # "refused"
  BY DEF Row
<1> QED
  BY <1>1, <1>3, <1>6, <1>9, <1>10, SendingStep

(* The driver answers.                                                     *)
LEMMA AnswerStep ==
    ASSUME JobTypes, NEW j \in Jobs, TaskOK(j), Answer(j)
    PROVE  Stepped(j)
<1>0. task[j].at \in InStatement /\ UNCHANGED <<text, guard, fired, loop>>
  BY DEF Answer, InStatement
<1>s. PICK s \in 1 .. MaxStmts : s = task[j].stmt
  BY <1>0, AtStatement
<1>n. PICK n \in 0 .. MaxRows : n = truth[j][s].rows
  BY <1>0, <1>s, AtStatement
<1>1. /\ s <= Len(text[j[1]]) /\ truth[j][s].state = "running"
      /\ truth[j][s].state \notin Settled
      /\ truth[j][s] \in [state : States, rows : Nat]
      /\ \A q \in 1 .. MaxStmts : q < s => truth[j][q].state = "ok"
      /\ task[j].at \in {"query", "exec"} => n = 0
  BY <1>0, <1>s, <1>n, AtStatement
<1>2. s \in 0 .. MaxStmts /\ n \in Nat /\ n <= MaxRows /\ MaxRows \in Nat /\ s \in Nat
  BY StatementsAssumption
<1>3. truth[j][s] = Row("running", n)
  BY <1>1, <1>n DEF Row
<1>4. \A place : Go(j, place) => task' = [task EXCEPT ![j] = Place(place, s)]
  BY <1>s, GoMoves
<1>5. \A state, m : Becomes(j, s, state, m) => truth' = [truth EXCEPT ![j][s] = Row(state, n + m)]
  BY <1>n, BecomesRow
<1>6. n + 0 = n
  BY <1>2
<1>7. ASSUME task[j].at = "query", Send(j, ReadStarted(s)), Go(j, "stream"), truth' = truth
      PROVE  Stepped(j)
  <2>1. Effect(j, Place("stream", s), s, Row("running", n))
    BY <1>0, <1>3, <1>4, <1>7, TruthSame DEF Effect
  <2>2. n = 0
    BY <1>1, <1>7
  <2>3. PICK e \in Events : e = ReadStarted(s) /\ e.ev = "ReadStarted" /\ e.stmt = s
    BY <1>2, Sent
  <2>4. ASSUME NEW d \in Cursors, Known(j, d), Stands(j, d)
        PROVE  Hears(j, d, e, At("stream", s, n))'
    <3>1. d = At("next", s - 1, 0) /\ d.phase = "next" /\ d.stmt = s - 1
      BY <1>s, <1>7, <2>4 DEF Stands, At
    <3>2. s = d.stmt + 1
      BY <1>2, <3>1
    <3> QED
      BY <2>2, <2>3, <3>1, <3>2 DEF Hears
  <2> QED
    BY <1>0, <1>s, <1>2, <1>7, <2>1, <2>3, <2>4, Answers
<1>8. ASSUME task[j].at = "stream", n < MaxRows, Send(j, Batch(s)), Becomes(j, s, "running", 1), task' = task
      PROVE  Stepped(j)
  <2>1. task' = [task EXCEPT ![j] = Place("stream", s)]
    <3>1. task \in [Jobs -> [at : Places, stmt : 0 .. MaxStmts]] /\ task[j] \in [at : Places, stmt : 0 .. MaxStmts]
      BY DEF JobTypes
    <3>2. task[j] = Place("stream", s)
      BY <3>1, <1>s, <1>8 DEF Place
    <3> QED
      BY <3>1, <3>2, <1>8
  <2>2. Effect(j, Place("stream", s), s, Row("running", n + 1))
    BY <1>0, <1>5, <1>8, <2>1 DEF Effect
  <2>3. PICK e \in Events : e = Batch(s) /\ e.ev = "Batch" /\ e.stmt = s /\ e.rows = 1
    BY <1>2, Sent
  <2>4. ASSUME NEW d \in Cursors, Known(j, d), Stands(j, d)
        PROVE  Hears(j, d, e, At("stream", s, n + 1))'
    <3>1. d = At("stream", s, n) /\ d.phase = "stream" /\ d.stmt = s /\ d.rows = n
      BY <1>s, <1>n, <1>8, <2>4 DEF Stands, At
    <3> QED
      BY <2>3, <3>1 DEF Hears
  <2>5. n + 1 \in Nat /\ n + 1 <= MaxRows
    BY <1>2, <1>8
  <2> QED
    BY <1>0, <1>s, <1>2, <1>8, <2>2, <2>3, <2>4, <2>5, Answers
<1>9. ASSUME task[j].at = "stream", Send(j, ReadFinished(s)), Becomes(j, s, "ok", 0), Go(j, "next")
      PROVE  Stepped(j)
  <2>1. Effect(j, Place("next", s), s, Row("ok", n))
    BY <1>0, <1>4, <1>5, <1>6, <1>9 DEF Effect
  <2>2. PICK e \in Events : e = ReadFinished(s) /\ e.ev = "ReadFinished" /\ e.stmt = s
    BY <1>2, Sent
  <2>3. truth'[j][s] = Row("ok", n)
    <3>1. Place("next", s) \in [at : Places, stmt : 0 .. MaxStmts] /\ Row("ok", n) \in [state : States, rows : Nat]
      BY <1>2, PlaceType, RowType DEF Places, States
    <3> QED
      BY <1>1, <2>1, <3>1, EffectFacts
  <2>4. ASSUME NEW d \in Cursors, Known(j, d), Stands(j, d)
        PROVE  Hears(j, d, e, At("next", s, 0))'
    <3>1. d = At("stream", s, n) /\ d.phase = "stream" /\ d.stmt = s /\ d.rows = n
      BY <1>s, <1>n, <1>9, <2>4 DEF Stands, At
    <3> QED
      BY <2>2, <2>3, <3>1 DEF Hears, Row
  <2> QED
    BY <1>0, <1>s, <1>2, <1>9, <2>1, <2>2, <2>4, Answers
<1>10. ASSUME task[j].at = "exec", Send(j, WriteFinished(s, 1)), Becomes(j, s, "ok", 1), Go(j, "next")
      PROVE  Stepped(j)
  <2>0. n + 1 = 1
    BY <1>1, <1>10
  <2>1. Effect(j, Place("next", s), s, Row("ok", 1))
    BY <1>0, <1>4, <1>5, <2>0, <1>10 DEF Effect
  <2>2. PICK e \in Events : e = WriteFinished(s, 1) /\ e.ev = "WriteFinished" /\ e.stmt = s /\ e.rows = 1
    BY <1>2, Sent
  <2>3. truth'[j][s] = Row("ok", 1)
    <3>1. Place("next", s) \in [at : Places, stmt : 0 .. MaxStmts] /\ Row("ok", 1) \in [state : States, rows : Nat]
      BY <1>2, PlaceType, RowType DEF Places, States
    <3> QED
      BY <1>1, <2>1, <3>1, EffectFacts
  <2>4. ASSUME NEW d \in Cursors, Known(j, d), Stands(j, d)
        PROVE  Hears(j, d, e, At("next", s, 0))'
    <3>1. d = At("exec", s, 0) /\ d.phase = "exec" /\ d.stmt = s
      BY <1>s, <1>10, <2>4 DEF Stands, At
    <3> QED
      BY <2>2, <2>3, <3>1 DEF Hears, Row
  <2> QED
    BY <1>0, <1>s, <1>2, <1>10, <2>1, <2>2, <2>4, Answers
<1>11. Fail(j, s, "failed", NoCode) => Stepped(j)
  BY <1>0, <1>s, FailStep, NoCodeIsCode
<1>12. Fail(j, s, "cancelled", "cancelled") /\ j[1] \in fired => Stepped(j)
  <2>1. "cancelled" \in Codes
    BY Zenon DEF Codes
  <2> QED
    BY <1>0, <1>s, <2>1, FailStep
<1>13. \/ task[j].at = "query" /\ Send(j, ReadStarted(s)) /\ Go(j, "stream") /\ UNCHANGED truth
       \/ /\ task[j].at = "stream" /\ truth[j][s].rows < MaxRows
          /\ Send(j, Batch(s)) /\ Becomes(j, s, "running", 1) /\ UNCHANGED task
       \/ task[j].at = "stream" /\ Send(j, ReadFinished(s)) /\ Becomes(j, s, "ok", 0) /\ Go(j, "next")
       \/ task[j].at = "exec" /\ Send(j, WriteFinished(s, 1)) /\ Becomes(j, s, "ok", 1) /\ Go(j, "next")
       \/ Fail(j, s, "failed", NoCode)
       \/ j[1] \in fired /\ Fail(j, s, "cancelled", "cancelled")
  BY <1>s, Zenon DEF Answer, NoCode
<1> QED
  BY <1>n, <1>7, <1>8, <1>9, <1>10, <1>11, <1>12, <1>13

(* A step of the program that runs the statements keeps what is true of    *)
(* the job.                                                                *)
LEMMA JobStep ==
    ASSUME JobTypes, NEW j \in Jobs, TaskOK(j), Job(j)
    PROVE  Stepped(j)
BY OpenStep, NextStep, AnswerStep DEF Job

(* From where to where the steps of a job go.                              *)
LEMMA JobPlaces ==
    ASSUME JobTypes, NEW j \in Jobs, Job(j)
    PROVE  /\ task[j].at \in {"start", "next"} \cup InStatement
           /\ task'[j].at \in {"next", "good", "bad"} \cup InStatement
<1>1. task \in [Jobs -> [at : Places, stmt : 0 .. MaxStmts]]
  BY DEF JobTypes
<1>2. \A place : Go(j, place) => task'[j].at = place
  BY <1>1 DEF Go
<1>3. Open(j) => task[j].at = "start" /\ task'[j].at \in {"next", "bad"}
  BY <1>2, Zenon DEF Open, Fail
<1>4. NextStatement(j) => task[j].at = "next" /\ task'[j].at \in {"query", "exec", "good", "bad"}
  <2>1. \A at, s : task' = [task EXCEPT ![j] = [at |-> at, stmt |-> s]] => task'[j].at = at
    BY <1>1
  <2> QED
    BY <1>2, <2>1, Zenon DEF NextStatement, Fail
<1>5. Answer(j) => task[j].at \in InStatement /\ task'[j].at \in {"stream", "next", "bad"}
  BY <1>2, Zenon DEF Answer, Fail, InStatement
<1> QED
  BY <1>3, <1>4, <1>5 DEF Job, InStatement

(* The place of the loop is a place that agrees with what became of the    *)
(* statements.                                                             *)
LEMMA LeadsKnown ==
    ASSUME JobTypes, NEW j \in Jobs, NEW c, Leads(j, c)
    PROVE  Known(j, c)
<1>1. PICK p \in [0 .. Len(chan[j]) -> Cursors] : p[0] = c /\ Line(j, p)
  BY DEF Leads
<1>2. 0 \in 0 .. Len(chan[j])
  BY JobFacts
<1> QED
  BY <1>1, <1>2 DEF Line

(* What is counted stays the sum of the rows of the statements that are    *)
(* through.                                                                *)
LEMMA SumStays ==
    ASSUME JobTypes, NEW j \in Jobs, NEW c \in Cursors, Known(j, c), Settles(j), c.phase \notin {"bad", "done"}
    PROVE  SumOf(truth'[j])[Complete(c)] = SumOf(truth[j])[Complete(c)]
<1>1. MaxStmts \in Nat /\ c.stmt \in 0 .. MaxStmts
  BY StatementsAssumption DEF Cursors
<1>2. PICK n : n = Complete(c)
  OBVIOUS
<1>3. n \in 0 .. MaxStmts
  BY <1>1, <1>2 DEF Complete, Known
<1>4. \A s \in 1 .. n : truth'[j][s].rows = truth[j][s].rows
  <2> SUFFICES ASSUME NEW s \in 1 .. n PROVE truth'[j][s] = truth[j][s]
    OBVIOUS
  <2>1. s \in 1 .. MaxStmts /\ truth[j][s].state = "ok"
    BY <1>1, <1>2, <1>3 DEF Known
  <2> QED
    BY <2>1 DEF Settles, Settled
<1>5. PICK R : R = truth[j]
  OBVIOUS
<1>6. PICK Q : Q = truth'[j]
  OBVIOUS
<1>7. SumOf(Q)[n] = SumOf(R)[n]
  BY <1>3, <1>4, <1>5, <1>6, SumsAgree
<1> QED
  BY <1>2, <1>5, <1>6, <1>7

(* The sums of the rows that are counted.                                  *)
LEMMA SumFacts ==
    ASSUME JobTypes, NEW j \in Jobs
    PROVE  /\ SumOf(truth[j])[0] = 0
           /\ \A s \in 1 .. MaxStmts : SumOf(truth[j])[s] = SumOf(truth[j])[s - 1] + truth[j][s].rows
           /\ \A s \in 0 .. MaxStmts : SumOf(truth[j])[s] \in Nat
<1>1. \A s \in 1 .. MaxStmts : truth[j][s].rows \in Nat
  BY JobFacts
<1>2. PICK R : R = truth[j]
  OBVIOUS
<1>3. \A s \in 0 .. MaxStmts : SumOf(R)[s] \in Nat
  BY <1>1, <1>2, SumsType
<1>4. Sums(R, SumOf(R), MaxStmts)
  BY SumOfSteps
<1> QED
  BY <1>2, <1>3, <1>4 DEF Sums

(* A loop that has heard of every statement: they all succeeded, and the   *)
(* rows up to the last are all there are.                                  *)
LEMMA TextIsThrough ==
    ASSUME JobTypes, NEW j \in Jobs, TaskOK(j), NEW c \in Cursors, Known(j, c),
           c.phase \in {"next", "good"}, c.stmt = Len(text[j[1]])
    PROVE  AllOk(j) /\ RowsThere(j) = SumOf(truth[j])[c.stmt]
<1>1. PICK n \in 0 .. MaxStmts : n = Len(text[j[1]]) /\ DOMAIN text[j[1]] = 1 .. n
  <2>1. text[j[1]] \in Texts \cup {<<>>}
    BY JobFacts
  <2> QED
    BY <2>1, TextTypes
<1>2. Complete(c) = n /\ c.stmt = n /\ MaxStmts \in Nat /\ n \in Nat
  BY <1>1, StatementsAssumption DEF Complete
<1>3. AllOk(j)
  <2>1. \A s \in 1 .. MaxStmts : s <= n => truth[j][s].state = "ok"
    BY <1>2 DEF Known
  <2>2. 1 .. n \subseteq 1 .. MaxStmts
    BY <1>1, <1>2
  <2> QED
    BY <1>1, <2>1, <2>2 DEF AllOk
<1>4. \A s \in n + 1 .. MaxStmts : truth[j][s].rows = 0
  <2> SUFFICES ASSUME NEW s \in n + 1 .. MaxStmts PROVE truth[j][s].rows = 0
    OBVIOUS
  <2>1. task[j].stmt <= n /\ task[j].stmt \in Nat
    BY <1>1, JobFacts DEF TaskOK
  <2>2. s \in 1 .. MaxStmts /\ s > task[j].stmt /\ ~(s <= n)
    BY <1>2, <2>1
  <2>3. truth[j][s] = Unknown
    BY <1>1, <2>2 DEF TaskOK
  <2> QED
    BY <2>3 DEF Unknown
<1>5. \A s \in 0 .. MaxStmts : SumOf(truth[j])[s] \in Nat
  BY SumFacts
<1>6. PICK R : R = truth[j]
  OBVIOUS
<1>7. SumOf(R)[MaxStmts] = SumOf(R)[n]
  BY <1>1, <1>4, <1>5, <1>6, SumsEnd
<1>8. RowsThere(j) = SumOf(truth[j])[n]
  BY <1>6, <1>7, RowsThereIsSum
<1> QED
  BY <1>2, <1>3, <1>8

(* Nothing follows the last event.                                         *)
LEMMA NothingFollows ==
    ASSUME JobTypes, NEW j \in Jobs, NEW d, Leads(j, d), d.phase = "done", task[j].at # "none"
    PROVE  task[j].at = "done"
<1>1. PICK p \in [0 .. Len(chan[j]) -> Cursors] : p[0] = d /\ Line(j, p)
  BY DEF Leads
<1>2. PICK n \in Nat : n = Len(chan[j])
  BY JobFacts
<1>3. n = 0
  <2> SUFFICES ASSUME n # 0 PROVE FALSE
    OBVIOUS
  <2>1. 1 \in 1 .. n /\ 1 - 1 = 0
    BY <1>2
  <2>2. Hears(j, p[1 - 1], chan[j][1], p[1])
    BY <1>1, <1>2, <2>1 DEF Line
  <2>3. Hears(j, d, chan[j][1], p[1])
    BY <1>1, <2>1, <2>2
  <2> QED
    BY <2>3 DEF Hears
<1>4. Stands(j, d)
  BY <1>1, <1>2, <1>3 DEF Line
<1>5. task[j].at \in Places
  BY JobFacts
<1> QED
  BY <1>4, <1>5 DEF Stands, Places, InStatement, At

(* The same after a step.                                                  *)
LEMMA NothingWillFollow ==
    ASSUME NEW j \in Jobs, NEW d
    PROVE  (JobTypes /\ Leads(j, d) /\ d.phase = "done" /\ task[j].at # "none" => task[j].at = "done")'
<1>1. JobTypes /\ Leads(j, d) /\ d.phase = "done" /\ task[j].at # "none" => task[j].at = "done"
  BY NothingFollows
<1> QED
  BY <1>1, PTL

(* Behind the event that says that the text is through there is the last   *)
(* one, if any: the job has nothing left to do.                            *)
LEMMA ThroughIsThrough ==
    ASSUME JobTypes, NEW j \in Jobs, NEW d, Leads(j, d), d.phase = "good", task[j].at # "none"
    PROVE  task[j].at \in {"good", "done"}
<1>1. PICK p \in [0 .. Len(chan[j]) -> Cursors] : p[0] = d /\ Line(j, p)
  BY DEF Leads
<1>2. PICK n \in Nat : n = Len(chan[j])
  BY JobFacts
<1>3. task[j].at \in Places
  BY JobFacts
<1>4. CASE n = 0
  <2>1. Stands(j, d)
    BY <1>1, <1>2, <1>4 DEF Line
  <2> QED
    BY <1>3, <2>1 DEF Stands, Places, InStatement, At
<1>5. CASE n = 1
  <2>1. Hears(j, p[1 - 1], chan[j][1], p[1]) /\ 1 - 1 = 0
    BY <1>1, <1>2, <1>5 DEF Line
  <2>2. Hears(j, d, chan[j][1], p[1])
    BY <1>1, <2>1
  <2>3. p[1].phase = "done"
    BY <2>2 DEF Hears, At
  <2>4. Stands(j, p[1])
    BY <1>1, <1>2, <1>5 DEF Line
  <2> QED
    BY <1>3, <2>3, <2>4 DEF Stands, Places, InStatement, At
<1>6. CASE n > 1
  <2>1. 1 \in 1 .. n /\ 2 \in 1 .. n /\ 1 - 1 = 0 /\ 2 - 1 = 1
    BY <1>2, <1>6
  <2>2. Hears(j, p[1 - 1], chan[j][1], p[1]) /\ Hears(j, p[2 - 1], chan[j][2], p[2])
    BY <1>1, <1>2, <2>1 DEF Line
  <2>3. Hears(j, d, chan[j][1], p[1]) /\ Hears(j, p[1], chan[j][2], p[2])
    BY <1>1, <2>1, <2>2
  <2>4. p[1].phase = "done"
    BY <2>3 DEF Hears, At
  <2> QED
    BY <2>3, <2>4 DEF Hears
<1>7. n = 0 \/ n = 1 \/ n > 1
  <2>1. \A m \in Nat : m = 0 \/ m = 1 \/ m > 1
    BY ONLY TRUE
  <2> QED
    BY <2>1
<1> QED
  BY <1>4, <1>5, <1>6, <1>7

(* A job whose statements end says so with an event, unless it was         *)
(* cancelled or nobody listens.                                            *)
LEMMA JobReports ==
    ASSUME JobTypes, NEW j \in Jobs, Job(j), task'[j].at \in {"good", "bad"}, loop[j[1]] # "done"
    PROVE  \/ j[1] \in fired
           \/ \E e \in Events : /\ chan'[j] = Append(chan[j], e)
                               /\ e.ev \in {"StatementFailed", "RunFinished"}
<1>1. /\ task \in [Jobs -> [at : Places, stmt : 0 .. MaxStmts]]
      /\ chan \in [Jobs -> Seq(Events)]
  BY DEF JobTypes
<1>2. \A place : Go(j, place) => task'[j].at = place
  BY <1>1 DEF Go
<1>3. \A e : Send(j, e) => chan'[j] = Append(chan[j], e)
  BY <1>1 DEF Send
<1>4. ASSUME NEW s \in 0 .. MaxStmts, NEW state, NEW code \in Codes, Fail(j, s, state, code)
      PROVE  \E e \in Events : chan'[j] = Append(chan[j], e) /\ e.ev \in {"StatementFailed", "RunFinished"}
  <2>1. PICK e : e = StatementFailed(s, code)
    OBVIOUS
  <2>2. e \in Events /\ e.ev = "StatementFailed"
    <3>1. 0 \in Nat /\ "StatementFailed" \in Kinds
      BY DEF Kinds
    <3> QED
      BY <2>1, <3>1, EventTypes DEF StatementFailed, Event
  <2>3. Send(j, e)
    BY <1>4, <2>1 DEF Fail
  <2> QED
    BY <1>3, <2>2, <2>3
<1>5. PICK n \in 0 .. MaxStmts : n = task[j].stmt
  BY JobFacts
<1>6. CASE Open(j)
  <2>1. \/ Go(j, IF j[1] \in fired THEN "bad" ELSE "next")
        \/ Fail(j, 1, "failed", NoCode)
    BY <1>6, Zenon DEF Open, NoCode
  <2>2. Go(j, IF j[1] \in fired THEN "bad" ELSE "next") => j[1] \in fired
    <3> SUFFICES ASSUME j[1] \notin fired, Go(j, "next") PROVE FALSE
      OBVIOUS
    <3> QED
      BY <1>2
  <2>3. 1 \in 0 .. MaxStmts /\ NoCode \in Codes
    BY JobFacts, NoCodeIsCode
  <2> QED
    BY <1>4, <2>1, <2>2, <2>3
<1>7. CASE NextStatement(j)
  <2>1. CASE Send(j, Plain("RunFinished"))
    <3>1. PICK e \in Events : e = Plain("RunFinished") /\ e.ev = "RunFinished"
      BY <1>5, Sent
    <3> QED
      BY <1>3, <2>1, <3>1
  <2>2. CASE j[1] \in fired
    BY <2>2
  <2>3. CASE \E place \in {"query", "exec"} : task' = [task EXCEPT ![j] = [at |-> place, stmt |-> n + 1]]
    BY <1>1, <2>3
  <2>4. CASE Fail(j, n + 1, "refused", NoCode) /\ n + 1 <= Len(text[j[1]])
    <3>1. n + 1 \in 0 .. MaxStmts /\ NoCode \in Codes
      BY <2>4, JobFacts, NoCodeIsCode
    <3> QED
      BY <1>4, <2>4, <3>1
  <2> QED
    BY <1>5, <1>7, <2>1, <2>2, <2>3, <2>4, Zenon DEF NextStatement, NoCode
<1>8. CASE Answer(j)
  <2>1. Go(j, "stream") \/ UNCHANGED task \/ Go(j, "next") => ~(task'[j].at \in {"good", "bad"}) \/ task' = task
    BY <1>2
  <2>2. Answer(j) => task[j].at \in InStatement
    BY DEF Answer, InStatement
  <2>3. \/ Go(j, "stream") \/ UNCHANGED task \/ Go(j, "next")
        \/ Fail(j, n, "failed", NoCode) \/ Fail(j, n, "cancelled", "cancelled")
    BY <1>5, <1>8, Zenon DEF Answer, NoCode
  <2>4. "cancelled" \in Codes /\ NoCode \in Codes
    BY NoCodeIsCode, Zenon DEF Codes
  <2>5. ~(Go(j, "stream") \/ UNCHANGED task \/ Go(j, "next"))
    BY <1>8, <2>1, <2>2 DEF InStatement
  <2> QED
    BY <1>4, <2>3, <2>4, <2>5
<1> QED
  BY <1>6, <1>7, <1>8 DEF Job

(* Nothing is counted before the first statement.                          *)
LEMMA NoneCounted ==
    ASSUME NEW R
    PROVE  SumOf(R)[0] = 0
BY SumOfSteps DEF Sums

(* An empty channel leads from where the job is.                           *)
LEMMA LineBegins ==
    ASSUME NEW j, NEW c \in Cursors, chan'[j] = <<>>, Known(j, c)', Stands(j, c)'
    PROVE  Leads(j, c)'
<1> DEFINE p == [i \in 0 .. 0 |-> c]
<1>1. p \in [0 .. 0 -> Cursors] /\ p[0] = c
  OBVIOUS
<1>2. Len(chan'[j]) = 0
  OBVIOUS
<1>3. \A i \in 0 .. 0 : i = 0
  OBVIOUS
<1>4. \A i \in 1 .. 0 : FALSE
  OBVIOUS
<1> HIDE DEF p
<1>5. Line(j, p)'
  BY <1>1, <1>2, <1>3, <1>4 DEF Line
<1> QED
  BY <1>1, <1>2, <1>5 DEF Leads
=============================================================================
