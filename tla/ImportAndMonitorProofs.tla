----------------------- MODULE ImportAndMonitorProofs -----------------------
(***************************************************************************)
(* Theorems about CsvImport, for every number of chunks, depth of the      *)
(* channel, engine and bad chunk: an import is never partial, and what the *)
(* user is told of it is true.                                             *)
(*                                                                         *)
(* And, below, theorems about Monitor, for every set of processes, every   *)
(* capacity of the channels and any number of refreshes and kills.         *)
(***************************************************************************)
EXTENDS CsvImport, Monitor, SessionProofs, FiniteSetTheorems, SequenceTheorems, TLAPS

(* Where the driver is says what it waits for or has been answered.        *)
ControlOK ==
    /\ at = "start"    => /\ conn = 0 /\ awaiting = 0 /\ answer = "none" /\ k = 0
                          /\ \A s \in Sessions : sess[s].state = "unopened"
    /\ at = "begin"    => k = 0 /\ (Awaits("BEGIN", NoStatement) \/ HasAnswer)
    /\ at = "recv"     => HasAnswer /\ answer \in Effective
    /\ at = "insert"   => k # 0 /\ (Awaits("WRITE", k) \/ HasAnswer)
    /\ at = "commit"   => Awaits("COMMIT", NoStatement) \/ HasAnswer
    /\ at = "done"     => conn = 0 /\ awaiting = 0
    /\ awaiting # Aside
    /\ at = "done" <=> reply # "none"

(* What an answer is worth: after BEGIN or chunk k, exactly the chunks     *)
(* taken so far are staged in the open transaction.                        *)
AnswersOK ==
    /\ at \in {"begin", "recv", "insert"} /\ answer \in Effective => Applied(k)
    /\ at = "commit" => answer # "mismatch" /\ (answer = "ok" => durable = Stmts)
    /\ reply = "finished" => durable = Stmts

(* The channel holds the chunks that follow the ones taken, the producer   *)
(* is at the next one; if it has ended, all chunks are sent or a bad one.  *)
FileOK ==
    /\ at \in {"start", "begin"} => next = 0 /\ chan = <<>>
    /\ \A j \in 1 .. Len(chan) : chan[j] = k + j
    /\ at # "done" /\ next # 0 => next = k + Len(chan) + 1
    /\ at \in {"recv", "insert"} /\ next = 0 => k + Len(chan) = NChunks \/ bad \in k + 1 .. k + Len(chan)
    /\ at \in {"recv", "insert"} => bad \notin 1 .. k
    /\ at = "commit" => bad = 0

(* A COMMIT is only ever in a session's pipeline while it is awaited.      *)
CommitIsLast ==
    \A s \in Sessions : CommitNext(sess[s]) => at = "commit" /\ awaiting = s

(* The import becomes durable at once, by that COMMIT; if it failed, only  *)
(* a lost link can have hidden its success.                                *)
DurableOK ==
    /\ NeverPartial
    /\ at \in {"start", "begin", "recv", "insert"} => durable = {}
    /\ at = "commit" /\ answer # "ok" => durable = {} \/ lost
    /\ at = "rollback" \/ reply = "failed" => durable = {} \/ lost

IInv == TypeOK /\ PipelinesOK /\ ControlOK /\ AnswersOK /\ FileOK /\ CommitIsLast /\ DurableOK

-----------------------------------------------------------------------------
LEMMA InitOK == Init => IInv
<1> SUFFICES ASSUME Init PROVE IInv
  OBVIOUS
<1>1. SessionTypeOK /\ PipelinesOK /\ \A s \in Sessions : sess[s] = Fresh("unopened")
  BY SessionInitTypes DEF Init
<1>2. \A s \in Sessions : sess[s].state = "unopened" /\ sess[s].queue = <<>>
  BY <1>1 DEF Fresh
<1>3. 0 \in 0 .. NChunks /\ <<>> \in Seq(Stmts) /\ Len(<<>>) = 0 /\ 0 <= Depth
  BY CsvImportAssumption
<1>4. TypeOK
  BY <1>1, <1>3 DEF Init, TypeOK
<1>5. /\ conn = 0 /\ awaiting = 0 /\ answer = "none" /\ k = 0 /\ at = "start" /\ reply = "none"
      /\ durable = {} /\ awaiting # Aside
  BY ZeroIsNoSession DEF Init, SessionInit
<1>6. ControlOK
  BY <1>2, <1>5 DEF ControlOK
<1>7. AnswersOK /\ DurableOK
  BY <1>5 DEF AnswersOK, DurableOK, NeverPartial
<1>8. CommitIsLast
  BY <1>2 DEF CommitIsLast, CommitNext
<1>9. FileOK
  BY DEF Init, FileOK
<1> QED BY <1>1, <1>4, <1>6, <1>7, <1>8, <1>9 DEF IInv

(* The server answers, or works on what was given up.                      *)
LEMMA ServerStep ==
    ASSUME IInv, Server, UNCHANGED control
    PROVE  IInv'
<1>1. SessionTypeOK /\ PipelinesOK /\ awaiting # Aside /\ UNCHANGED <<bad, at, k, next, chan, reply>>
  BY DEF IInv, TypeOK, ControlOK, control
<1>2. SessionTypeOK' /\ PipelinesOK'
  BY <1>1, ServerTypes
<1>3. TypeOK'
  BY <1>1, <1>2 DEF IInv, TypeOK
<1>4. /\ conn' = conn /\ (awaiting' = awaiting \/ awaiting' = 0) /\ (lost => lost')
      /\ conn = 0 /\ awaiting = 0 => awaiting' = 0 /\ lost' = lost
      /\ \A s \in Sessions : CommitNext(sess'[s]) =>
             CommitNext(sess[s]) /\ (awaiting = s => awaiting' = s)
      /\ durable' = durable \/ Commits
  BY <1>1, ServerCommits
<1>5. \A op, id : Awaits(op, id) => Awaits(op, id)' \/ (HasAnswer' /\ Tells(op, id))
  BY <1>1, ServerAnswers
<1>6. HasAnswer => /\ HasAnswer' /\ answer' = answer
                  /\ \A n : Applied(n) => Applied(n)'
  BY <1>1, AnsweredStays
<1>n. PICK n : n = k /\ n = k'
  BY <1>1
<1>7. at = "start" => /\ UNCHANGED <<conn, awaiting, answer, durable, lost>>
                      /\ \A s \in Sessions : sess'[s].state = "unopened"
  BY <1>1, ServerAtRest DEF IInv, ControlOK
<1>8. ControlOK'
  <2>1. awaiting' # Aside
    BY <1>1, <1>4, ZeroIsNoSession
  <2>2. at = "start" => /\ conn' = 0 /\ awaiting' = 0 /\ answer' = "none" /\ k = 0
                        /\ \A s \in Sessions : sess'[s].state = "unopened"
    BY <1>7 DEF IInv, ControlOK
  <2>3. /\ at = "begin" => k = 0 /\ (Awaits("BEGIN", NoStatement)' \/ HasAnswer')
        /\ at = "recv" => HasAnswer' /\ answer' \in Effective
        /\ at = "insert" => k # 0 /\ (Awaits("WRITE", n)' \/ HasAnswer')
        /\ at = "commit" => Awaits("COMMIT", NoStatement)' \/ HasAnswer'
    BY <1>5, <1>6, <1>n DEF IInv, ControlOK
  <2>5. at = "done" => conn' = 0 /\ awaiting' = 0
    BY <1>4 DEF IInv, ControlOK
  <2>6. Awaits("WRITE", n)' => Awaits("WRITE", k)'
    BY <1>n DEF Awaits
  <2> QED BY <1>1, <2>1, <2>2, <2>3, <2>5, <2>6 DEF IInv, ControlOK
<1>9. durable \in SUBSET Stmts /\ (durable' = durable \/ durable' = Stmts)
  <2>1. durable \in SUBSET Stmts
    BY <1>1 DEF SessionTypeOK
  <2>2. durable' = durable \/ durable' = durable \cup Stmts
    BY <1>4 DEF Commits
  <2> QED BY <2>1, <2>2
<1>10. AnswersOK'
  <2>1. at = "begin" /\ answer' \in Effective => Applied(0)'
    BY <1>5, <1>6 DEF IInv, ControlOK, AnswersOK, Tells, Awaits, Effective
  <2>2. at \in {"recv", "insert"} /\ answer' \in Effective => Applied(n)'
    BY <1>5, <1>6, <1>n DEF IInv, ControlOK, AnswersOK, Tells, Awaits, Effective
  <2>3. at \in {"begin", "recv", "insert"} /\ answer' \in Effective => Applied(k)'
    BY <2>1, <2>2, <1>1, <1>n DEF IInv, ControlOK, Applied
  <2>4. at = "commit" => answer' # "mismatch" /\ (answer' = "ok" => durable' = Stmts)
    BY <1>5, <1>6, <1>9 DEF IInv, ControlOK, AnswersOK, Tells, Awaits
  <2>5. reply = "finished" => durable' = Stmts
    BY <1>9 DEF IInv, AnswersOK
  <2> QED BY <1>1, <2>3, <2>4, <2>5 DEF AnswersOK
<1>11. CommitIsLast'
  BY <1>1, <1>4 DEF IInv, CommitIsLast
<1>12. FileOK'
  BY <1>1 DEF IInv, FileOK
<1>13. DurableOK'
  <2>1. at # "commit" => ~Commits
    BY DEF IInv, CommitIsLast, Commits
  <2>2. at \in {"start", "begin", "recv", "insert"} => durable' = {}
    BY <1>4, <2>1 DEF IInv, DurableOK
  <2>3. at = "rollback" \/ reply = "failed" => durable' = {} \/ lost'
    BY <1>4, <2>1 DEF IInv, ControlOK, DurableOK
  <2>4. ASSUME at = "commit", answer' # "ok" PROVE durable' = {} \/ lost'
    <3>1. CASE durable' = durable
      <4>1. answer # "ok"
        BY <1>6, <2>4 DEF IInv, ControlOK, Awaits
      <4> QED BY <1>4, <2>4, <3>1, <4>1 DEF IInv, DurableOK
    <3>2. CASE Commits
      <4>1. PICK s \in Sessions :
                /\ CommitNext(sess[s])
                /\ awaiting = s /\ Len(sess[s].queue) = 1 => answer' = "ok" \/ lost'
        BY <3>2 DEF Commits
      <4>2. awaiting = s /\ awaiting # 0
        BY <2>4, <4>1, ZeroIsNoSession DEF IInv, ControlOK, CommitIsLast
      <4>3. conn = s /\ Len(sess[s].queue) = 1
        BY <2>4, <4>2 DEF IInv, ControlOK, HasAnswer, Awaits
      <4> QED BY <2>4, <4>1, <4>2, <4>3
    <3> QED BY <1>4, <3>1, <3>2
  <2>5. NeverPartial'
    <3>1. durable' # durable => bad = 0
      BY <1>4, <2>1 DEF IInv, FileOK
    <3> QED BY <1>1, <1>9, <3>1 DEF IInv, DurableOK, NeverPartial
  <2> QED BY <1>1, <2>2, <2>3, <2>4, <2>5 DEF DurableOK
<1> QED BY <1>2, <1>3, <1>8, <1>10, <1>11, <1>12, <1>13 DEF IInv

-----------------------------------------------------------------------------
(* The channel of consecutive chunks: taking the first, adding the next    *)

LEMMA TakeFromFile ==
    ASSUME NEW q \in Seq(Stmts), q # <<>>, NEW n \in Nat, NEW b \in Nat,
           \A j \in 1 .. Len(q) : q[j] = n + j
    PROVE  /\ Head(q) = n + 1 /\ n + 1 \in Stmts
           /\ Tail(q) \in Seq(Stmts) /\ Len(Tail(q)) \in Nat /\ Len(q) = Len(Tail(q)) + 1
           /\ \A j \in 1 .. Len(Tail(q)) : Tail(q)[j] = (n + 1) + j
           /\ b \in n + 1 .. n + Len(q) /\ b # n + 1 => b \in (n + 1) + 1 .. (n + 1) + Len(Tail(q))
           /\ b \notin 1 .. n /\ b # n + 1 => b \notin 1 .. n + 1
<1>1. /\ Len(q) \in Nat \ {0} /\ Head(q) = q[1] /\ q[1] \in Stmts
      /\ Tail(q) \in Seq(Stmts) /\ Len(Tail(q)) = Len(q) - 1
      /\ \A j \in 1 .. Len(Tail(q)) : Tail(q)[j] = q[j + 1]
  BY TailOf, HeadTailProperties
<1> DEFINE m == Len(Tail(q))
<1>2. m \in Nat /\ Len(q) = m + 1
  <2> DEFINE l == Len(q)
  <2>1. l \in Nat \ {0} /\ m = l - 1
    BY <1>1
  <2> HIDE DEF l, m
  <2>2. m \in Nat /\ l = m + 1
    BY <2>1
  <2> QED BY <2>2 DEF l
<1>3. Head(q) = n + 1 /\ n + 1 \in Stmts
  <2>1. 1 \in 1 .. Len(q)
    BY <1>1
  <2> QED BY <1>1, <2>1
<1>4. \A j \in 1 .. m : Tail(q)[j] = (n + 1) + j
  <2> SUFFICES ASSUME NEW j \in 1 .. m PROVE Tail(q)[j] = (n + 1) + j
    OBVIOUS
  <2>1. Tail(q)[j] = q[j + 1]
    BY <1>1
  <2> HIDE DEF m
  <2>2. j + 1 \in 1 .. Len(q) /\ n + (j + 1) = (n + 1) + j
    BY <1>2
  <2> QED BY <2>1, <2>2
<1>5. \A c \in Nat : b \in n + 1 .. n + (c + 1) /\ b # n + 1 => b \in (n + 1) + 1 .. (n + 1) + c
  OBVIOUS
<1>6. b \notin 1 .. n /\ b # n + 1 => b \notin 1 .. n + 1
  OBVIOUS
<1>7. b \in n + 1 .. n + Len(q) /\ b # n + 1 => b \in (n + 1) + 1 .. (n + 1) + m
  <2> HIDE DEF m
  <2> QED BY <1>2, <1>5
<1> QED BY <1>1, <1>2, <1>3, <1>4, <1>6, <1>7

LEMMA AddToFile ==
    ASSUME NEW q \in Seq(Stmts), NEW n \in Nat, NEW x \in Stmts,
           x = n + Len(q) + 1, \A j \in 1 .. Len(q) : q[j] = n + j
    PROVE  /\ Append(q, x) \in Seq(Stmts) /\ Len(Append(q, x)) = Len(q) + 1
           /\ \A j \in 1 .. Len(Append(q, x)) : Append(q, x)[j] = n + j
           /\ n + Len(Append(q, x)) = x /\ x \in n + 1 .. n + Len(Append(q, x))
           /\ x + 1 = n + Len(Append(q, x)) + 1
<1>1. Append(q, x) \in Seq(Stmts) /\ Len(q) \in Nat /\ Len(Append(q, x)) = Len(q) + 1
  OBVIOUS
<1>2. \A j \in 1 .. Len(q) + 1 : Append(q, x)[j] = IF j <= Len(q) THEN q[j] ELSE x
  OBVIOUS
<1> DEFINE l == Len(q)
<1>3. l \in Nat /\ x = n + l + 1
  BY <1>1
<1>4. /\ n + (l + 1) = x /\ x \in n + 1 .. n + (l + 1) /\ x + 1 = n + (l + 1) + 1
      /\ \A j \in 1 .. l + 1 : j <= l \/ n + j = x
  <2> HIDE DEF l
  <2> QED BY <1>3
<1>5. \A j \in 1 .. l + 1 : Append(q, x)[j] = n + j
  BY <1>2, <1>4
<1> QED BY <1>1, <1>4, <1>5

-----------------------------------------------------------------------------
(* The driver's steps                                                      *)

LEMMA StartStep == IInv /\ Start => IInv'
<1> SUFFICES ASSUME IInv, Start PROVE IInv'
  OBVIOUS
<1>1. /\ at = "start" /\ at' = "begin" /\ k = 0 /\ conn = 0 /\ durable = {} /\ reply = "none"
      /\ \A s \in Sessions : sess[s].state = "unopened"
      /\ UNCHANGED <<engine, fired, creqs, durable, view, lost, bad, k, next, chan, reply>>
      /\ Execute(Opened, fired, Statement("BEGIN", NoStatement, RunToken))
  BY DEF IInv, ControlOK, DurableOK, Start
<1>2. Opened \in 0 .. MaxSessions /\ (Opened = 0 \/ Opened \in Sessions)
  BY SessionAssumption DEF Opened, Sessions
<1>3. \A s \in Sessions : /\ sess[s] = Fresh("unopened") /\ sess[s].queue = <<>>
                          /\ sess[s] \in SessionStates /\ sess[s] = Fresh(sess[s].state)
  <2>1. \A s \in Sessions : sess[s] = Fresh("unopened")
    BY <1>1 DEF IInv, PipelinesOK, PipelineOK
  <2> QED BY <2>1, FreshType
<1>4. Opened # 0 => Fits(sess[Opened], Statement("BEGIN", NoStatement, RunToken))
  <2>1. RunToken \in Tokens
    BY DEF Tokens
  <2> QED BY <1>2, <1>3, <2>1, StatementFits
<1>5. /\ SessionTypeOK' /\ PipelinesOK' /\ awaiting' # Aside
      /\ \A r \in Sessions : CommitNext(sess'[r]) => CommitNext(sess[r])
      /\ Awaits("BEGIN", NoStatement)' \/ (HasAnswer' /\ answer' \in {"error", "cancelled"})
  <2>1. "BEGIN" \in Ops /\ RunToken \in Tokens /\ NoStatement \in Stmts \cup {NoStatement}
    BY DEF Ops, Tokens
  <2>2. SessionTypeOK /\ PipelinesOK /\ fired' \in SUBSET Tokens
    BY <1>1 DEF IInv, TypeOK, SessionTypeOK
  <2> QED BY <1>1, <1>2, <1>3, <1>4, <2>1, <2>2, StatementSent
<1>6. TypeOK'
  BY <1>1, <1>5 DEF IInv, TypeOK
<1>7. ControlOK'
  BY <1>1, <1>5 DEF ControlOK
<1>8. AnswersOK' /\ DurableOK'
  BY <1>1, <1>5 DEF AnswersOK, DurableOK, NeverPartial, Awaits, Effective
<1>9. CommitIsLast'
  BY <1>1, <1>5 DEF IInv, CommitIsLast
<1>10. FileOK'
  BY <1>1 DEF IInv, FileOK
<1> QED BY <1>5, <1>6, <1>7, <1>8, <1>9, <1>10 DEF IInv

LEMMA BegunStep == IInv /\ Begun => IInv'
<1> SUFFICES ASSUME IInv, Begun PROVE IInv'
  OBVIOUS
<1>1. /\ at = "begin" /\ answer = "ok" /\ at' = "recv" /\ next' = 1
      /\ UNCHANGED <<engine, sess, conn, awaiting, answer, fired, creqs, durable, view, lost>>
      /\ UNCHANGED <<bad, k, chan, reply>>
  BY DEF Begun, sessionVars
<1>2. k = 0 /\ HasAnswer /\ durable = {} /\ reply = "none" /\ chan = <<>> /\ Applied(0)
  BY <1>1 DEF IInv, ControlOK, AnswersOK, DurableOK, FileOK, Awaits, Effective
<1>3. SessionTypeOK' /\ PipelinesOK' /\ HasAnswer' /\ Applied(0)' /\ awaiting' # Aside
  <2>1. SessionTypeOK /\ PipelinesOK /\ fired' \in SUBSET Tokens
    BY <1>1 DEF IInv, TypeOK, SessionTypeOK
  <2> QED BY <1>1, <1>2, <2>1, SessionsSame DEF IInv, ControlOK
<1>4. TypeOK'
  <2>1. 1 \in 0 .. NChunks
    BY CsvImportAssumption
  <2> QED BY <1>1, <1>3, <2>1 DEF IInv, TypeOK
<1>5. ControlOK'
  BY <1>1, <1>2, <1>3 DEF ControlOK, Effective
<1>6. AnswersOK' /\ DurableOK'
  BY <1>1, <1>2, <1>3 DEF AnswersOK, DurableOK, NeverPartial, Applied
<1>7. CommitIsLast'
  BY <1>1 DEF IInv, CommitIsLast
<1>8. FileOK'
  <2>1. /\ at' = "recv" /\ chan' = <<>> /\ Len(chan') = 0 /\ next' = 1 /\ k' = 0
        /\ bad' \notin 1 .. k' /\ next' = k' + Len(chan') + 1 /\ 1 .. Len(chan') = {}
    BY <1>1, <1>2
  <2> QED BY <2>1 DEF FileOK
<1> QED BY <1>3, <1>4, <1>5, <1>6, <1>7, <1>8 DEF IInv

(* A chunk is taken: the ROLLBACK is sent, or the chunk's INSERT.          *)
LEMMA TakeChunkStep == IInv /\ TakeChunk => IInv'
<1> SUFFICES ASSUME IInv, TakeChunk PROVE IInv'
  OBVIOUS
<1>1. /\ at = "recv" /\ chan # <<>> /\ chan' = Tail(chan) /\ k' = k + 1
      /\ UNCHANGED <<engine, fired, creqs, durable, view, lost, bad, next, reply>>
      /\ \/ /\ at' = "rollback"
            /\ Execute(conn, fired, Statement("ROLLBACK", NoStatement, RunToken))
         \/ /\ at' = "insert" /\ Head(chan) # bad
            /\ Execute(conn, fired, Statement("WRITE", Head(chan), Head(chan)))
  BY DEF TakeChunk, Control
<1>2. /\ SessionTypeOK /\ PipelinesOK /\ fired' \in SUBSET Tokens
      /\ HasAnswer /\ Applied(k) /\ durable = {} /\ reply = "none"
  BY <1>1 DEF IInv, TypeOK, SessionTypeOK, ControlOK, AnswersOK, DurableOK
<1>3. /\ k \in Nat /\ bad \in Nat /\ chan \in Seq(Stmts) /\ Len(chan) <= Depth
      /\ \A j \in 1 .. Len(chan) : chan[j] = k + j
  BY DEF IInv, TypeOK, FileOK
<1> DEFINE rest == Tail(chan)
<1>4. /\ Head(chan) = k + 1 /\ k + 1 \in Stmts
      /\ rest \in Seq(Stmts) /\ Len(rest) \in Nat /\ Len(chan) = Len(rest) + 1
      /\ \A j \in 1 .. Len(rest) : rest[j] = (k + 1) + j
      /\ bad \in k + 1 .. k + Len(chan) /\ bad # k + 1 => bad \in (k + 1) + 1 .. (k + 1) + Len(rest)
      /\ bad \notin 1 .. k /\ bad # k + 1 => bad \notin 1 .. k + 1
  BY <1>1, <1>3, TakeFromFile
<1>5. /\ conn \in 0 .. MaxSessions /\ conn # 0 /\ conn \in Sessions /\ sess[conn].queue = <<>>
      /\ sess[conn].state = "closed" \/ Fits(sess[conn], Statement("WRITE", k + 1, k + 1))
      /\ Fits(sess[conn], Statement("ROLLBACK", NoStatement, RunToken))
  <2>1. RunToken \in Tokens /\ k + 1 \in Tokens
    BY <1>4 DEF Tokens
  <2>2. /\ conn \in 0 .. MaxSessions /\ conn # 0 /\ sess[conn].queue = <<>>
        /\ sess[conn].state = "closed" \/ Fits(sess[conn], Statement("WRITE", k + 1, k + 1))
    BY <1>2, <1>3, <1>4, <2>1, NextFits
  <2>3. conn \in Sessions
    BY <1>2, <2>2, ConnType
  <2> QED BY <1>2, <2>1, <2>2, <2>3, QueueType, StatementFits
<1>6. /\ SessionTypeOK' /\ PipelinesOK' /\ awaiting' # Aside
      /\ \A r \in Sessions : CommitNext(sess'[r]) => CommitNext(sess[r])
      /\ answer' \notin Effective
      /\ at' = "insert" => Awaits("WRITE", k)' \/ HasAnswer'
  <2>1. "ROLLBACK" \in Ops /\ "WRITE" \in Ops /\ RunToken \in Tokens /\ k + 1 \in Tokens
        /\ k + 1 \in Stmts \cup {NoStatement} /\ NoStatement \in Stmts \cup {NoStatement}
    BY <1>4 DEF Ops, Tokens
  <2>2. CASE /\ at' = "rollback"
             /\ Execute(conn, fired, Statement("ROLLBACK", NoStatement, RunToken))
    <3>1. /\ SessionTypeOK' /\ PipelinesOK' /\ awaiting' # Aside
          /\ \A r \in Sessions : CommitNext(sess'[r]) => CommitNext(sess[r])
          /\ Awaits("ROLLBACK", NoStatement)' \/ (HasAnswer' /\ answer' \in {"error", "cancelled"})
      BY <1>1, <1>2, <1>5, <2>1, <2>2, StatementSent
    <3> QED BY <2>2, <3>1 DEF Awaits, Effective
  <2>3. CASE /\ at' = "insert"
             /\ Execute(conn, fired, Statement("WRITE", Head(chan), Head(chan)))
    <3>1. PICK m : m = k + 1 /\ m = k'
      BY <1>1
    <3>2. Execute(conn, fired, Statement("WRITE", m, m))
      BY <1>4, <2>3, <3>1
    <3>3. /\ SessionTypeOK' /\ PipelinesOK' /\ awaiting' # Aside
          /\ \A r \in Sessions : CommitNext(sess'[r]) => CommitNext(sess[r])
          /\ Awaits("WRITE", m)' \/ (HasAnswer' /\ answer' \in {"error", "cancelled"})
      BY <1>1, <1>2, <1>5, <2>1, <3>1, <3>2, StatementSent
    <3>4. Awaits("WRITE", m)' => Awaits("WRITE", k)'
      BY <3>1 DEF Awaits
    <3> QED BY <3>3, <3>4 DEF Awaits, Effective
  <2> QED BY <1>1, <2>2, <2>3
<1>7. FileOK' /\ chan' \in Seq(Stmts) /\ Len(chan') <= Depth /\ k' \in 0 .. NChunks /\ k' # 0
  <2> DEFINE l == Len(rest)
             i == k + 1
  <2>1. /\ l \in Nat /\ Len(chan) = l + 1 /\ Depth \in Nat /\ i \in 1 .. NChunks
    BY <1>4, CsvImportAssumption
  <2>2. l <= Depth
    <3> HIDE DEF l
    <3> QED BY <1>3, <2>1
  <2>3. /\ next # 0 => next = k + Len(chan) + 1
        /\ next = 0 => k + Len(chan) = NChunks \/ bad \in k + 1 .. k + Len(chan)
        /\ bad \notin 1 .. k
    BY <1>1 DEF IInv, FileOK
  <2>4. k + (l + 1) = i + l /\ k + (l + 1) + 1 = i + l + 1
    <3> HIDE DEF l
    <3> QED BY <1>3, <2>1
  <2>5. /\ next # 0 => next = i + l + 1
        /\ next = 0 /\ bad # i => i + l = NChunks \/ bad \in i + 1 .. i + l
        /\ bad # i => bad \notin 1 .. i
        /\ \A j \in 1 .. l : rest[j] = i + j
    BY <1>4, <2>1, <2>3, <2>4
  <2>6. chan' = rest /\ k' = i /\ bad' = bad /\ next' = next /\ at' \in {"insert", "rollback"}
        /\ (at' = "insert" => bad # i)
    BY <1>1, <1>4
  <2> HIDE DEF rest, i
  <2>7. FileOK'
    BY <2>5, <2>6 DEF FileOK, l
  <2>8. chan' \in Seq(Stmts) /\ Len(chan') <= Depth /\ k' \in 0 .. NChunks /\ k' # 0
    BY <1>4, <2>1, <2>2, <2>6 DEF l
  <2> QED BY <2>7, <2>8
<1>8. TypeOK'
  BY <1>1, <1>6, <1>7 DEF IInv, TypeOK
<1>9. ControlOK'
  BY <1>1, <1>2, <1>6, <1>7 DEF ControlOK
<1>10. AnswersOK' /\ DurableOK'
  BY <1>1, <1>2, <1>6 DEF AnswersOK, DurableOK, NeverPartial
<1>11. CommitIsLast'
  BY <1>1, <1>6 DEF IInv, CommitIsLast
<1> QED BY <1>6, <1>7, <1>8, <1>9, <1>10, <1>11 DEF IInv

LEMMA InsertedStep == IInv /\ Inserted => IInv'
<1> SUFFICES ASSUME IInv, Inserted PROVE IInv'
  OBVIOUS
<1>1. /\ at = "insert" /\ answer \in Effective /\ at' = "recv"
      /\ UNCHANGED <<engine, sess, conn, awaiting, answer, fired, creqs, durable, view, lost>>
      /\ UNCHANGED <<bad, k, next, chan, reply>>
  BY DEF Inserted, sessionVars, Effective
<1>2. HasAnswer /\ durable = {} /\ reply = "none" /\ Applied(k)
  BY <1>1 DEF IInv, ControlOK, AnswersOK, DurableOK, Awaits, Effective
<1>3. SessionTypeOK' /\ PipelinesOK' /\ HasAnswer' /\ Applied(k)' /\ awaiting' # Aside
  <2>1. SessionTypeOK /\ PipelinesOK /\ fired' \in SUBSET Tokens
    BY <1>1 DEF IInv, TypeOK, SessionTypeOK
  <2>2. Applied(k)'
    BY <1>1, <1>2 DEF Applied
  <2> QED BY <1>1, <1>2, <2>1, <2>2, SessionsSame DEF IInv, ControlOK
<1>4. TypeOK'
  BY <1>1, <1>3 DEF IInv, TypeOK
<1>5. ControlOK'
  BY <1>1, <1>2, <1>3 DEF ControlOK
<1>6. AnswersOK' /\ DurableOK'
  BY <1>1, <1>2, <1>3 DEF AnswersOK, DurableOK, NeverPartial
<1>7. CommitIsLast'
  BY <1>1 DEF IInv, CommitIsLast
<1>8. FileOK'
  BY <1>1 DEF IInv, FileOK
<1> QED BY <1>3, <1>4, <1>5, <1>6, <1>7, <1>8 DEF IInv

LEMMA EndOfFileStep == IInv /\ EndOfFile => IInv'
<1> SUFFICES ASSUME IInv, EndOfFile PROVE IInv'
  OBVIOUS
<1>1. /\ at = "recv" /\ chan = <<>> /\ next = 0 /\ at' = "commit"
      /\ Execute(conn, fired, Statement("COMMIT", NoStatement, RunToken))
      /\ UNCHANGED <<engine, fired, creqs, durable, view, lost, bad, k, next, chan, reply>>
  BY DEF EndOfFile, Control
<1>2. /\ SessionTypeOK /\ PipelinesOK /\ fired' \in SUBSET Tokens
      /\ HasAnswer /\ Applied(k) /\ durable = {} /\ reply = "none"
  BY <1>1 DEF IInv, TypeOK, SessionTypeOK, ControlOK, AnswersOK, DurableOK
<1>3. k = NChunks /\ bad = 0 /\ k \in Nat /\ 1 .. k = Stmts
  <2>1. k \in 0 .. NChunks /\ bad \in 0 .. NChunks /\ Len(chan) = 0
    BY <1>1 DEF IInv, TypeOK
  <2>2. k + Len(chan) = NChunks \/ bad \in k + 1 .. k + Len(chan)
    BY <1>1 DEF IInv, FileOK
  <2>3. bad \notin 1 .. k
    BY <1>1 DEF IInv, FileOK
  <2>4. k = NChunks
    BY <2>1, <2>2
  <2>5. bad = 0
    BY <2>1, <2>3, <2>4
  <2> QED BY <2>1, <2>4, <2>5, CsvImportAssumption
<1>4. /\ conn \in 0 .. MaxSessions /\ conn # 0 /\ sess[conn].queue = <<>>
      /\ sess[conn].state = "closed" \/ Fits(sess[conn], Statement("COMMIT", NoStatement, RunToken))
  <2>1. RunToken \in Tokens
    BY DEF Tokens
  <2> QED BY <1>2, <1>3, <2>1, NextFits
<1>5. /\ SessionTypeOK' /\ PipelinesOK' /\ awaiting' # Aside
      /\ \A r \in Sessions : CommitNext(sess'[r]) => CommitNext(sess[r]) \/ awaiting' = r
      /\ Awaits("COMMIT", NoStatement)' \/ (HasAnswer' /\ answer' \in {"error", "cancelled"})
  <2>1. "COMMIT" \in Ops /\ RunToken \in Tokens /\ NoStatement \in Stmts \cup {NoStatement}
    BY DEF Ops, Tokens
  <2> QED BY <1>1, <1>2, <1>4, <2>1, StatementSent
<1>6. TypeOK'
  BY <1>1, <1>5 DEF IInv, TypeOK
<1>7. ControlOK'
  BY <1>1, <1>2, <1>5 DEF ControlOK
<1>8. AnswersOK' /\ DurableOK'
  <2>1. answer' # "mismatch" /\ answer' # "ok"
    BY <1>5 DEF Awaits
  <2> QED BY <1>1, <1>2, <2>1 DEF AnswersOK, DurableOK, NeverPartial
<1>9. CommitIsLast'
  BY <1>1, <1>5 DEF IInv, CommitIsLast
<1>10. FileOK'
  BY <1>1, <1>3 DEF IInv, FileOK
<1> QED BY <1>5, <1>6, <1>7, <1>8, <1>9, <1>10 DEF IInv

(* No COMMIT is left in a pipeline once its answer is known.               *)
LEMMA NoCommitLeft ==
    ASSUME IInv, at # "commit" \/ answer # "none"
    PROVE  \A s \in Sessions : ~CommitNext(sess[s])
<1>1. at = "commit" => awaiting = 0
  BY DEF IInv, ControlOK, HasAnswer, Awaits
<1> QED BY <1>1, ZeroIsNoSession DEF IInv, CommitIsLast

LEMMA FailStep == IInv /\ Fail => IInv'
<1> SUFFICES ASSUME IInv, Fail PROVE IInv'
  OBVIOUS
<1>1. /\ at \in {"insert", "commit"} /\ answer \in {"error", "cancelled"} /\ at' = "rollback"
      /\ Execute(conn, fired, Statement("ROLLBACK", NoStatement, RunToken))
      /\ UNCHANGED <<engine, fired, creqs, durable, view, lost, bad, k, next, chan, reply>>
  BY DEF Fail, Control
<1>2. /\ SessionTypeOK /\ PipelinesOK /\ fired' \in SUBSET Tokens
      /\ HasAnswer /\ reply = "none" /\ (durable = {} \/ lost)
  BY <1>1 DEF IInv, TypeOK, SessionTypeOK, ControlOK, DurableOK, Awaits
<1>3. conn \in 0 .. MaxSessions /\ (conn = 0 \/ sess[conn].queue = <<>>)
  BY <1>2 DEF SessionTypeOK, HasAnswer
<1>4. conn # 0 => Fits(sess[conn], Statement("ROLLBACK", NoStatement, RunToken))
  <2>1. RunToken \in Tokens
    BY DEF Tokens
  <2> QED BY <1>2, <1>3, <2>1, ConnType, QueueType, StatementFits
<1>5. /\ SessionTypeOK' /\ PipelinesOK' /\ awaiting' # Aside
      /\ \A r \in Sessions : CommitNext(sess'[r]) => CommitNext(sess[r])
  <2>1. "ROLLBACK" \in Ops /\ RunToken \in Tokens /\ NoStatement \in Stmts \cup {NoStatement}
    BY DEF Ops, Tokens
  <2> QED BY <1>1, <1>2, <1>3, <1>4, <2>1, StatementSent
<1>6. TypeOK'
  BY <1>1, <1>5 DEF IInv, TypeOK
<1>7. ControlOK'
  BY <1>1, <1>2, <1>5 DEF ControlOK
<1>8. AnswersOK' /\ DurableOK'
  BY <1>1, <1>2 DEF IInv, AnswersOK, DurableOK, NeverPartial
<1>9. CommitIsLast'
  BY <1>1, <1>5, NoCommitLeft DEF CommitIsLast
<1>10. FileOK'
  BY <1>1 DEF IInv, FileOK
<1> QED BY <1>5, <1>6, <1>7, <1>8, <1>9, <1>10 DEF IInv

LEMMA TimeOutStep == IInv /\ TimeOut => IInv'
<1> SUFFICES ASSUME IInv, TimeOut PROVE IInv'
  OBVIOUS
<1>1. /\ at = "insert" /\ at' = "rollback" /\ answer = "none"
      /\ fired' = fired \cup {k}
      /\ Execute(AfterDrop, fired', Statement("ROLLBACK", NoStatement, RunToken))
      /\ UNCHANGED <<engine, creqs, durable, view, lost, bad, k, next, chan, reply>>
  BY DEF TimeOut
<1>2. SessionTypeOK /\ PipelinesOK /\ reply = "none" /\ durable = {}
  BY <1>1 DEF IInv, TypeOK, ControlOK, DurableOK
<1>3. conn \in Sessions /\ Len(sess[conn].queue) = 1
  BY <1>1 DEF IInv, ControlOK, HasAnswer, Awaits
<1>4. /\ AfterDrop \in 0 .. MaxSessions
      /\ AfterDrop # 0 => Fits(sess[AfterDrop], Statement("ROLLBACK", NoStatement, RunToken))
  <2>1. 0 \in 0 .. MaxSessions /\ conn \in 0 .. MaxSessions
    BY <1>2, SessionAssumption DEF SessionTypeOK
  <2>2. AfterDrop = conn \/ AfterDrop = 0
    BY DEF AfterDrop
  <2>3. Statement("ROLLBACK", NoStatement, RunToken).op = "ROLLBACK"
    BY DEF Statement
  <2> QED BY <1>3, <2>1, <2>2, <2>3 DEF Fits
<1>5. /\ SessionTypeOK' /\ PipelinesOK' /\ awaiting' # Aside
      /\ \A r \in Sessions : CommitNext(sess'[r]) => CommitNext(sess[r])
  <2>1. "ROLLBACK" \in Ops /\ RunToken \in Tokens /\ NoStatement \in Stmts \cup {NoStatement}
    BY DEF Ops, Tokens
  <2>2. k \in Tokens
    <3>1. k \in 1 .. NChunks
      BY <1>1 DEF IInv, TypeOK, ControlOK
    <3> QED BY <3>1, CsvImportAssumption DEF Tokens
  <2>3. fired' \in SUBSET Tokens
    BY <1>1, <1>2, <2>2 DEF SessionTypeOK
  <2>4. PICK f : f = fired'
    OBVIOUS
  <2> QED BY <1>1, <1>2, <1>4, <2>1, <2>3, <2>4, StatementSent
<1>6. TypeOK'
  BY <1>1, <1>5 DEF IInv, TypeOK
<1>7. ControlOK'
  BY <1>1, <1>2, <1>5 DEF ControlOK
<1>8. AnswersOK' /\ DurableOK'
  BY <1>1, <1>2 DEF IInv, AnswersOK, DurableOK, NeverPartial
<1>9. CommitIsLast'
  BY <1>1, <1>5, NoCommitLeft DEF CommitIsLast
<1>10. FileOK'
  BY <1>1 DEF IInv, FileOK
<1> QED BY <1>5, <1>6, <1>7, <1>8, <1>9, <1>10 DEF IInv

(* The import returns: what it says is true, and nothing can change it.    *)
LEMMA ReturnStep ==
    ASSUME IInv, NEW r \in {"finished", "failed"}, Return(r),
           r = "finished" => durable = Stmts,
           r = "failed" => durable = {} \/ lost,
           \A s \in Sessions : ~CommitNext(sess[s])
    PROVE  IInv'
<1>1. reply' = r /\ at' = "done" /\ chan' = <<>> /\ UNCHANGED <<bad, k, next>> /\ DropConnection
  BY DEF Return
<1>2. /\ SessionTypeOK' /\ PipelinesOK'
      /\ conn' = 0 /\ awaiting' = 0 /\ awaiting' # Aside
      /\ UNCHANGED <<sess, durable, lost>>
  BY <1>1, DropTypes DEF IInv, TypeOK
<1>3. TypeOK'
  <2>1. chan' \in Seq(Stmts) /\ Len(chan') = 0 /\ 0 <= Depth
    BY <1>1, CsvImportAssumption
  <2> QED BY <1>1, <1>2, <2>1 DEF IInv, TypeOK
<1>4. ControlOK'
  BY <1>1, <1>2 DEF ControlOK
<1>5. AnswersOK' /\ DurableOK'
  BY <1>1, <1>2 DEF IInv, AnswersOK, DurableOK, NeverPartial
<1>6. CommitIsLast'
  BY <1>2 DEF CommitIsLast
<1>7. FileOK'
  BY <1>1 DEF FileOK
<1> QED BY <1>2, <1>3, <1>4, <1>5, <1>6, <1>7 DEF IInv

LEMMA ReturnsTrue ==
    ASSUME IInv
    PROVE  /\ NotOpened \/ NotBegun => /\ Return("failed") /\ durable = {}
                                       /\ \A s \in Sessions : ~CommitNext(sess[s])
           /\ Committed => /\ Return("finished") /\ durable = Stmts
                           /\ \A s \in Sessions : ~CommitNext(sess[s])
           /\ RolledBack => /\ Return("failed") /\ (durable = {} \/ lost)
                            /\ \A s \in Sessions : ~CommitNext(sess[s])
<1>1. NotOpened \/ NotBegun => /\ Return("failed") /\ durable = {}
                              /\ \A s \in Sessions : ~CommitNext(sess[s])
  BY NoCommitLeft DEF IInv, DurableOK, NotOpened, NotBegun
<1>2. Committed => /\ Return("finished") /\ durable = Stmts
                   /\ \A s \in Sessions : ~CommitNext(sess[s])
  BY NoCommitLeft DEF IInv, AnswersOK, Committed
<1>3. RolledBack => /\ Return("failed") /\ (durable = {} \/ lost)
                    /\ \A s \in Sessions : ~CommitNext(sess[s])
  BY NoCommitLeft DEF IInv, DurableOK, RolledBack
<1> QED BY <1>1, <1>2, <1>3

-----------------------------------------------------------------------------
(* The producer's steps, the cancel, and steps that change nothing         *)

(* None of them touches a session or where the driver is.                  *)
LEMMA DriverSame ==
    ASSUME IInv, fired' \in SUBSET Tokens,
           UNCHANGED <<engine, sess, conn, awaiting, answer, creqs, durable, view, lost>>,
           UNCHANGED <<bad, at, k, reply>>
    PROVE  /\ SessionTypeOK' /\ PipelinesOK' /\ ControlOK' /\ AnswersOK' /\ CommitIsLast' /\ DurableOK'
           /\ (next' \in 0 .. NChunks /\ chan' \in Seq(Stmts) /\ Len(chan') <= Depth => TypeOK')
<1>1. SessionTypeOK' /\ PipelinesOK'
  BY SessionsSame DEF IInv, TypeOK
<1>2. ControlOK'
  BY DEF IInv, ControlOK, Awaits, HasAnswer
<1>3. AnswersOK' /\ DurableOK'
  BY DEF IInv, AnswersOK, DurableOK, NeverPartial, Applied
<1>4. CommitIsLast'
  BY DEF IInv, CommitIsLast
<1>5. next' \in 0 .. NChunks /\ chan' \in Seq(Stmts) /\ Len(chan') <= Depth => TypeOK'
  BY <1>1 DEF IInv, TypeOK
<1> QED BY <1>1, <1>2, <1>3, <1>4, <1>5

LEMMA ProduceStep == IInv /\ Produce => IInv'
<1> SUFFICES ASSUME IInv, Produce PROVE IInv'
  OBVIOUS
<1>1. /\ next # 0 /\ at # "done" /\ Len(chan) < Depth /\ chan' = Append(chan, next) /\ next' \in After
      /\ UNCHANGED <<engine, sess, conn, awaiting, answer, fired, creqs, durable, view, lost>>
      /\ UNCHANGED <<bad, at, k, reply>>
  BY DEF Produce, sessionVars
<1>2. /\ k \in Nat /\ next \in 1 .. NChunks /\ next \in Stmts /\ chan \in Seq(Stmts) /\ fired \in SUBSET Tokens
      /\ NChunks \in Nat /\ Depth \in Nat
      /\ next = k + Len(chan) + 1 /\ \A j \in 1 .. Len(chan) : chan[j] = k + j
  BY <1>1, CsvImportAssumption DEF IInv, TypeOK, SessionTypeOK, FileOK
<1> DEFINE p == Append(chan, next)
<1>3. /\ p \in Seq(Stmts) /\ Len(p) = Len(chan) + 1
      /\ \A j \in 1 .. Len(p) : p[j] = k + j
      /\ k + Len(p) = next /\ next \in k + 1 .. k + Len(p)
      /\ next + 1 = k + Len(p) + 1
  BY <1>2, AddToFile
<1>4. Len(p) <= Depth
  <2>1. Len(chan) \in Nat /\ Len(chan) < Depth
    BY <1>1, <1>2
  <2> HIDE DEF p
  <2> QED BY <1>2, <1>3, <2>1
<1>5. \/ next' = 0 /\ next = NChunks
      \/ next' = 0 /\ next = bad
      \/ next' = next + 1 /\ next # NChunks
  BY <1>1 DEF After
<1>6. next' \in 0 .. NChunks
  <2>1. \A x \in 1 .. NChunks : x # NChunks => x + 1 \in 0 .. NChunks
    BY <1>2
  <2> QED BY <1>2, <1>5, <2>1
<1>7. FileOK'
  <2>1. /\ next' # 0 => next' = k + Len(p) + 1
        /\ next' = 0 => k + Len(p) = NChunks \/ bad \in k + 1 .. k + Len(p)
    <3> DEFINE l == k + Len(p)
    <3>1. next = l /\ next \in k + 1 .. l /\ next + 1 = l + 1 /\ next + 1 # 0
      BY <1>2, <1>3
    <3> HIDE DEF l
    <3>2. /\ next' # 0 => next' = l + 1
          /\ next' = 0 => l = NChunks \/ bad \in k + 1 .. l
      BY <1>5, <3>1
    <3> QED BY <3>2 DEF l
  <2>2. at \notin {"start", "begin"}
    BY <1>1 DEF IInv, FileOK
  <2>3. at \in {"recv", "insert"} => bad \notin 1 .. k
    BY DEF IInv, FileOK
  <2>4. at = "commit" => bad = 0
    BY DEF IInv, FileOK
  <2>5. chan' = p
    BY <1>1
  <2> HIDE DEF p
  <2> QED BY <1>1, <1>3, <2>1, <2>2, <2>3, <2>4, <2>5 DEF FileOK
<1>8. TypeOK'
  <2>1. chan' = p
    BY <1>1
  <2> HIDE DEF p
  <2> QED BY <1>1, <1>2, <1>3, <1>4, <1>6, <2>1, DriverSame
<1> QED BY <1>1, <1>2, <1>7, <1>8, DriverSame DEF IInv

LEMMA ProducerEndsStep == IInv /\ HungUp => IInv'
<1> SUFFICES ASSUME IInv, HungUp PROVE IInv'
  OBVIOUS
<1>1. /\ at = "done" /\ next' = 0 /\ chan' = chan
      /\ UNCHANGED <<engine, sess, conn, awaiting, answer, fired, creqs, durable, view, lost>>
      /\ UNCHANGED <<bad, at, k, reply>>
  BY DEF HungUp, sessionVars
<1>2. fired \in SUBSET Tokens /\ chan \in Seq(Stmts) /\ Len(chan) <= Depth /\ 0 \in 0 .. NChunks
  BY CsvImportAssumption DEF IInv, TypeOK, SessionTypeOK
<1>3. FileOK'
  BY <1>1 DEF IInv, FileOK
<1> QED BY <1>1, <1>2, <1>3, DriverSame DEF IInv

LEMMA CancelStep == IInv /\ Cancel => IInv'
<1> SUFFICES ASSUME IInv, Cancel PROVE IInv'
  OBVIOUS
<1>1. /\ fired' = fired \cup {RunToken} \cup Stmts
      /\ UNCHANGED <<engine, sess, conn, awaiting, answer, creqs, durable, view, lost>>
      /\ UNCHANGED <<bad, at, k, reply, next, chan>>
  BY DEF Cancel, control
<1>2. fired' \in SUBSET Tokens /\ chan \in Seq(Stmts) /\ Len(chan) <= Depth /\ next \in 0 .. NChunks
  BY <1>1 DEF IInv, TypeOK, SessionTypeOK, Tokens
<1>3. FileOK'
  BY <1>1 DEF IInv, FileOK
<1> QED BY <1>1, <1>2, <1>3, DriverSame DEF IInv

LEMMA StutterStep == IInv /\ UNCHANGED vars => IInv'
<1> SUFFICES ASSUME IInv, UNCHANGED vars PROVE IInv'
  OBVIOUS
<1>1. /\ UNCHANGED <<engine, sess, conn, awaiting, answer, fired, creqs, durable, view, lost>>
      /\ UNCHANGED <<bad, at, k, reply, next, chan>>
  BY DEF vars, sessionVars, control
<1>2. fired \in SUBSET Tokens /\ chan \in Seq(Stmts) /\ Len(chan) <= Depth /\ next \in 0 .. NChunks
  BY DEF IInv, TypeOK, SessionTypeOK
<1>3. FileOK'
  BY <1>1 DEF IInv, FileOK
<1> QED BY <1>1, <1>2, <1>3, DriverSame DEF IInv

LEMMA NextStep == IInv /\ [Next]_vars => IInv'
<1> SUFFICES ASSUME IInv, [Next]_vars PROVE IInv'
  OBVIOUS
<1>1. CASE NotOpened \/ NotBegun \/ Committed \/ RolledBack
  BY <1>1, ReturnsTrue, ReturnStep
<1>2. CASE Start \/ Begun \/ TakeChunk
  BY <1>2, StartStep, BegunStep, TakeChunkStep
<1>3. CASE Inserted \/ EndOfFile \/ Fail \/ TimeOut
  BY <1>3, InsertedStep, EndOfFileStep, FailStep, TimeOutStep
<1>4. CASE Producer \/ Cancel
  BY <1>4, ProduceStep, ProducerEndsStep, CancelStep DEF Producer
<1>5. CASE Server /\ UNCHANGED control
  BY <1>5, ServerStep
<1>6. CASE UNCHANGED vars
  BY <1>6, StutterStep
<1> QED BY <1>1, <1>2, <1>3, <1>4, <1>5, <1>6 DEF Next, Driver, Quiet

-----------------------------------------------------------------------------
(* Theorems *)

(* Types, and that an import is never partial: whatever fails, times out   *)
(* or is cancelled, in the file, the channel or the database, all chunks   *)
(* are durable or none, and none of a file with a bad chunk.               *)
THEOREM ImportIsNeverPartial == Spec => []Inv
<1>1. IInv => Inv
  BY DEF IInv, DurableOK, Inv
<1> QED BY <1>1, InitOK, NextStep, PTL DEF Spec

(* The import implements AtomicApply: it takes effect at one instant,      *)
(* "finished" is said only after it, "failed" only if it has not and never *)
(* will, unless the link was lost.                                         *)
THEOREM ImportsAtOnce == Spec => ImportsAtomically
<1> DEFINE applied == durable = Stmts
<1>0. Stmts # {}
  <2>1. 1 \in 1 .. NChunks
    BY CsvImportAssumption
  <2> QED BY <2>1, CsvImportAssumption
<1>1. Init => Atomic!AbsInit
  BY <1>0 DEF Init, SessionInit, Atomic!AbsInit, Reply
<1>2. ASSUME IInv, IInv', [Next]_vars
      PROVE  [Atomic!AbsNext]_<<applied, Reply>>
  <2>1. ASSUME UNCHANGED <<durable, lost, reply>>
        PROVE  UNCHANGED <<applied, Reply>>
    BY <2>1 DEF Reply
  <2>2. CASE Server /\ UNCHANGED control
    <3>1. SessionTypeOK /\ PipelinesOK /\ awaiting # Aside /\ reply' = reply
          /\ (durable = {} \/ durable = Stmts)
      BY <1>2, <2>2 DEF IInv, TypeOK, ControlOK, DurableOK, NeverPartial, control
    <3>2. /\ conn = 0 /\ awaiting = 0 => lost' = lost
          /\ durable' = durable \/ Commits
      BY <2>2, <3>1, ServerCommits
    <3>3. reply # "none" => lost' = lost
      BY <1>2, <3>2 DEF IInv, ControlOK
    <3>4. Reply' = Reply
      <4>1. reply \in {"none", "finished", "failed"}
        BY <1>2 DEF IInv, TypeOK
      <4> QED BY <3>1, <3>3, <4>1 DEF Reply
    <3>5. CASE durable' = durable
      BY <3>4, <3>5
    <3>6. CASE durable' # durable
      <4>1. Commits /\ durable' = Stmts /\ durable = {}
        BY <3>1, <3>2, <3>6 DEF Commits, SessionTypeOK
      <4>2. reply = "none"
        BY <1>2, <4>1 DEF IInv, ControlOK, CommitIsLast, Commits
      <4>3. Reply = "none"
        BY <4>2 DEF Reply
      <4> QED BY <1>0, <3>4, <4>1, <4>3 DEF Atomic!AbsNext, Atomic!TakeEffect
    <3> QED BY <3>5, <3>6
  <2>3. CASE NotOpened \/ NotBegun \/ Committed \/ RolledBack
    <3>1. PICK r \in {"finished", "failed"} :
              /\ Return(r)
              /\ r = "finished" => durable = Stmts
              /\ r = "failed" => durable = {} \/ lost
      BY <1>2, <2>3, ReturnsTrue
    <3>2. reply' = r /\ UNCHANGED <<durable, lost>>
      BY <3>1 DEF Return, DropConnection
    <3>3. reply = "none"
      BY <1>2, <2>3 DEF IInv, ControlOK, NotOpened, NotBegun, Committed, RolledBack
    <3>4. /\ Reply = "none"
          /\ Reply' = IF r = "finished" THEN "ok" ELSE IF lost THEN "timeout" ELSE "error"
      BY <3>2, <3>3 DEF Reply
    <3> QED BY <1>0, <3>1, <3>2, <3>4 DEF Atomic!AbsNext, Atomic!Answer
  <2>4. CASE \/ Start \/ Begun \/ TakeChunk \/ Inserted \/ EndOfFile \/ Fail
             \/ TimeOut \/ Producer \/ Cancel
    <3>1. UNCHANGED <<durable, lost, reply>>
      BY <2>4 DEF Start, Begun, TakeChunk, Inserted, EndOfFile, Fail, TimeOut, Producer, Produce,
                  HungUp, Cancel, Control, control, sessionVars
    <3> QED BY <2>1, <3>1
  <2>5. CASE UNCHANGED vars
    BY <2>1, <2>5 DEF vars, sessionVars, control
  <2> QED BY <1>2, <2>2, <2>3, <2>4, <2>5 DEF Next, Driver, Quiet
<1> QED BY <1>1, <1>2, InitOK, NextStep, PTL DEF Spec, ImportsAtomically, Atomic!AbsSpec

-----------------------------------------------------------------------------
(***************************************************************************)
(* Monitor: no wait is left without an answer, for every set of processes, *)
(* every capacity of the channels and any number of refreshes and kills.   *)
(***************************************************************************)

(* The commands or events of s that are of one of the kinds K. *)
Count(s, K) == Cardinality({i \in 1 .. Len(s) : s[i].kind \in K})

Results == {"KillOk", "KillErr"}
KillsToDo   == Count(cmds, {"Kill"}) + (IF cur.kind = "Kill" THEN 1 ELSE 0)
KillsToTell == Count(events, Results) + (IF out.kind \in Results THEN 1 ELSE 0)

(* Every kill confirmed is counted once: done or still to do, and told or  *)
(* still to tell; the generation moves with what was told.                 *)
KillsAreCounted ==
    /\ killed + KillsToDo <= confirmed
    /\ KillsToDo + KillsToTell <= confirmed
    /\ gen + KillsToDo + KillsToTell <= MaxRefreshes + 1 + confirmed

(* What the task holds says where it is. *)
TaskShape ==
    /\ stage \in {"idle", "sending"} <=> cur = Idle
    /\ stage = "sending" <=> out # Idle
    /\ stage = "refreshing" => cur.kind = "Refresh" /\ connected
    /\ stage = "killing" => cur.kind = "Kill" /\ connected
    /\ stage = "opening" => ~connected

TypeInv == MonitorTypeOK /\ KillsAreCounted /\ TaskShape

(* Nothing in flight is newer than the view's generation, nor knows of     *)
(* kills that were not done; what answers the generation knows of every    *)
(* kill the user was told of.                                              *)
NothingNewer ==
    /\ acked <= killed
    /\ \A c \in Pending : c # Idle => c.gen <= gen
    /\ \A e \in Coming : e # Idle => e.gen <= gen /\ e.n <= killed
    /\ \A e \in Coming : e.kind = "Data" /\ e.gen = gen => e.n >= acked

TruthInv == TypeInv /\ NothingNewer

(* A kill is only asked for from a snapshot, so the connection is open.    *)
KillsFollowSnapshots ==
    /\ shown # NoSnapshot => connected
    /\ dialog # NoDialog => connected
    /\ \A e \in Coming : e.kind = "Data" => connected
    /\ \A c \in Pending : c.kind = "Kill" => connected

(* Behind the view's last refresh only kills are queued.                   *)
LastIsLast ==
    /\ cur.kind = "Refresh" /\ cur.gen = gen => \A j \in DOMAIN cmds : cmds[j].kind = "Kill"
    /\ \A i, j \in DOMAIN cmds :
         i < j /\ cmds[i].kind = "Refresh" /\ cmds[i].gen = gen => cmds[j].kind = "Kill"

(* Whatever is in flight was started by a kill, or is the one refresh the  *)
(* view awaits: the command channel has room for what comes next.          *)
InFlight == Len(cmds) + Len(events) + (IF cur = Idle THEN 0 ELSE 1) + (IF out = Idle THEN 0 ELSE 1)
ChannelsHold == InFlight <= confirmed + (IF awaitingRefresh THEN 1 ELSE 0)

MonitorIInv == TruthInv /\ KillsFollowSnapshots /\ LastIsLast /\ ChannelsHold
               /\ AwaitingIsAnswered /\ DialogIsResolved

-----------------------------------------------------------------------------
(* Counting *)

LEMMA CountType ==
    ASSUME NEW S, NEW s \in Seq(S), NEW K
    PROVE  /\ IsFiniteSet({i \in 1 .. Len(s) : s[i].kind \in K})
           /\ Count(s, K) \in Nat
<1>1. IsFiniteSet(1 .. Len(s))
  BY FS_Interval
<1>2. IsFiniteSet({i \in 1 .. Len(s) : s[i].kind \in K})
  BY <1>1, FS_Subset
<1> QED BY <1>2, FS_CardinalityType DEF Count

LEMMA CountEmpty == \A K : Count(<<>>, K) = 0
<1> SUFFICES ASSUME NEW K PROVE Count(<<>>, K) = 0
  OBVIOUS
<1>1. {i \in 1 .. Len(<<>>) : <<>>[i].kind \in K} = {}
  OBVIOUS
<1> QED BY <1>1, FS_EmptySet DEF Count

LEMMA CountAppend ==
    ASSUME NEW S, NEW s \in Seq(S), NEW e \in S, NEW K
    PROVE  Count(Append(s, e), K) = Count(s, K) + (IF e.kind \in K THEN 1 ELSE 0)
<1> DEFINE A == {i \in 1 .. Len(s) : s[i].kind \in K}
           B == {i \in 1 .. Len(Append(s, e)) : Append(s, e)[i].kind \in K}
           n == Len(s) + 1
<1>1. B = IF e.kind \in K THEN A \cup {n} ELSE A
  OBVIOUS
<1>2. n \notin A
  OBVIOUS
<1>3. IsFiniteSet(A) /\ Cardinality(A) \in Nat
  BY CountType DEF Count
<1>4. Cardinality(A \cup {n}) = Cardinality(A) + 1
  BY <1>2, <1>3, FS_AddElement
<1>5. Count(s, K) = Cardinality(A) /\ Count(Append(s, e), K) = Cardinality(B)
  BY DEF Count
<1> HIDE DEF A, B
<1> QED BY <1>1, <1>3, <1>4, <1>5

LEMMA CountTail ==
    ASSUME NEW S, NEW s \in Seq(S), s # <<>>, NEW K
    PROVE  Count(s, K) = Count(Tail(s), K) + (IF Head(s).kind \in K THEN 1 ELSE 0)
<1> DEFINE A == {i \in 1 .. Len(s) : s[i].kind \in K}
           B == {i \in 1 .. Len(Tail(s)) : Tail(s)[i].kind \in K}
           f == [i \in B |-> i + 1]
<1>1. /\ Tail(s) \in Seq(S) /\ Len(Tail(s)) = Len(s) - 1 /\ Len(s) \in Nat \ {0}
      /\ \A i \in 1 .. Len(Tail(s)) : Tail(s)[i] = s[i + 1]
      /\ Head(s) = s[1]
  OBVIOUS
<1>2. /\ IsFiniteSet(A) /\ Cardinality(A) \in Nat
      /\ IsFiniteSet(B) /\ Cardinality(B) \in Nat
  BY <1>1, CountType DEF Count
<1>3. f \in Bijection(B, A \ {1})
  <2>1. f \in [B -> A \ {1}]
    BY <1>1
  <2>2. \A a, b \in B : f[a] = f[b] => a = b
    BY <1>1
  <2>3. \A t \in A \ {1} : \E i \in B : f[i] = t
    <3> TAKE t \in A \ {1}
    <3>1. t - 1 \in B /\ f[t - 1] = t
      BY <1>1
    <3> QED BY <3>1
  <2> QED BY <2>1, <2>2, <2>3 DEF Bijection, Injection, Surjection, IsInjective
<1>4. Cardinality(B) = Cardinality(A \ {1})
  BY <1>2, <1>3, FS_Bijection DEF ExistsBijection
<1>5. Cardinality(A \ {1}) = IF 1 \in A THEN Cardinality(A) - 1 ELSE Cardinality(A)
  BY <1>2, FS_RemoveElement
<1>6. 1 \in A <=> Head(s).kind \in K
  BY <1>1
<1>7. Count(s, K) = Cardinality(A) /\ Count(Tail(s), K) = Cardinality(B)
  BY DEF Count
<1> HIDE DEF A, B
<1> QED BY <1>2, <1>4, <1>5, <1>6, <1>7

-----------------------------------------------------------------------------
(* Type correctness *)

LEMMA CountsAreNat ==
    ASSUME MonitorTypeOK
    PROVE  /\ Count(cmds, {"Kill"}) \in Nat /\ KillsToDo \in Nat
           /\ Count(events, Results) \in Nat /\ KillsToTell \in Nat
<1>1. Count(cmds, {"Kill"}) \in Nat
  BY CountType DEF MonitorTypeOK
<1>2. Count(events, Results) \in Nat
  BY CountType DEF MonitorTypeOK
<1> QED BY <1>1, <1>2 DEF KillsToDo, KillsToTell

LEMMA InitTypeInv == MonitorInit => TypeInv
<1> SUFFICES ASSUME MonitorInit PROVE TypeInv
  OBVIOUS
<1> USE MonitorAssumption DEF MonitorInit
<1>1. Refresh(1) \in Cmds
  BY DEF Refresh, Cmds, Gens
<1>2. MonitorTypeOK
  <2>1. cmds \in Seq(Cmds) /\ Len(cmds) <= ChanCap
    BY <1>1
  <2>2. events \in Seq(Events) /\ Len(events) <= ChanCap
    OBVIOUS
  <2>3. gen \in Gens /\ dialog \in [pid : Pids \cup {0}, dispatched : BOOLEAN]
    BY DEF Gens, NoDialog
  <2>4. awaitingRefresh \in BOOLEAN /\ backoff \in 0 .. 4 /\ shown \in {NoSnapshot} \cup 0 .. MaxKills
    OBVIOUS
  <2>5. /\ stage \in {"idle", "opening", "refreshing", "killing", "sending"}
        /\ cur \in Cmds \cup {Idle} /\ connected \in BOOLEAN /\ out \in Events \cup {Idle}
    OBVIOUS
  <2>6. killed \in 0 .. MaxKills /\ acked \in 0 .. MaxKills /\ confirmed \in 0 .. MaxKills
    OBVIOUS
  <2> QED BY <2>1, <2>2, <2>3, <2>4, <2>5, <2>6 DEF MonitorTypeOK
<1>3. Count(cmds, {"Kill"}) = 0
  <2>1. cmds = Append(<<>>, Refresh(1))
    OBVIOUS
  <2>2. <<>> \in Seq(Cmds)
    OBVIOUS
  <2>3. Count(Append(<<>>, Refresh(1)), {"Kill"})
          = Count(<<>>, {"Kill"}) + (IF Refresh(1).kind \in {"Kill"} THEN 1 ELSE 0)
    <3> HIDE DEF MonitorInit
    <3> QED BY <1>1, <2>2, CountAppend
  <2> QED BY <2>1, <2>3, CountEmpty DEF Refresh
<1>4. KillsAreCounted
  BY <1>3, CountEmpty DEF KillsAreCounted, KillsToDo, KillsToTell, Idle, Results
<1>5. TaskShape
  BY DEF TaskShape, Idle
<1> QED BY <1>2, <1>4, <1>5 DEF TypeInv

(* A refresh that is dispatched is no kill, and stays within the bounds.   *)
LEMMA DispatchTypes ==
    ASSUME MonitorTypeOK, NEW was \in BOOLEAN, DispatchRefresh(was), gen + 1 \in Gens
    PROVE  /\ gen' \in Gens /\ awaitingRefresh' \in BOOLEAN
           /\ cmds' \in Seq(Cmds) /\ Len(cmds') <= ChanCap
           /\ Count(cmds', {"Kill"}) = Count(cmds, {"Kill"})
<1>1. Refresh(gen + 1) \in Cmds /\ Refresh(gen + 1).kind = "Refresh"
  BY DEF Refresh, Cmds
<1>2. CASE Room
  <2>1. cmds' = Append(cmds, Refresh(gen + 1))
    BY <1>2 DEF DispatchRefresh
  <2>2. Count(cmds', {"Kill"}) = Count(cmds, {"Kill"})
                                 + (IF Refresh(gen + 1).kind \in {"Kill"} THEN 1 ELSE 0)
    BY <1>1, <2>1, CountAppend DEF MonitorTypeOK
  <2>3. Count(cmds, {"Kill"}) \in Nat
    BY CountsAreNat
  <2>4. Len(cmds') <= ChanCap
    BY <1>1, <1>2, <2>1, MonitorAssumption DEF Room, MonitorTypeOK
  <2> QED BY <1>1, <2>1, <2>2, <2>3, <2>4 DEF DispatchRefresh, MonitorTypeOK
<1>3. CASE ~Room
  BY <1>3 DEF DispatchRefresh, MonitorTypeOK
<1> QED BY <1>2, <1>3

(* A command that is taken leaves the queue for the task.                  *)
LEMMA BeginTypes ==
    ASSUME MonitorTypeOK, cmds # <<>>, cur.kind # "Kill", Begin(Head(cmds)), cmds' = Tail(cmds)
    PROVE  /\ cmds' \in Seq(Cmds) /\ Len(cmds') <= ChanCap
           /\ cur' \in Cmds /\ cur' # Idle
           /\ stage' \in {"opening", "refreshing", "killing"}
           /\ stage' = "refreshing" => cur'.kind = "Refresh" /\ connected
           /\ stage' = "killing" => cur'.kind = "Kill" /\ connected
           /\ stage' = "opening" => ~connected
           /\ KillsToDo' = KillsToDo
<1>1. /\ cmds' \in Seq(Cmds) /\ Len(cmds') = Len(cmds) - 1 /\ Len(cmds) \in Nat
      /\ cur' \in Cmds /\ cur' = Head(cmds)
  BY DEF MonitorTypeOK, Begin
<1>2. cur' # Idle
  BY <1>1 DEF Cmds, Idle
<1>3. Count(cmds, {"Kill"}) = Count(Tail(cmds), {"Kill"})
                              + (IF Head(cmds).kind \in {"Kill"} THEN 1 ELSE 0)
  BY CountTail DEF MonitorTypeOK
<1>4. Count(cmds', {"Kill"}) \in Nat
  BY <1>1, CountType
<1>5. KillsToDo' = KillsToDo
  BY <1>1, <1>3, <1>4 DEF KillsToDo
<1>6. Len(cmds') <= ChanCap
  BY <1>1, MonitorAssumption DEF MonitorTypeOK
<1>7. cur'.kind \in {"Refresh", "Kill"}
  BY <1>1 DEF Cmds
<1> QED BY <1>1, <1>2, <1>5, <1>6, <1>7 DEF Begin

LEMMA ViewKeepsTypeInv ==
    ASSUME TypeInv, View
    PROVE  TypeInv'
<1>0. /\ MaxRefreshes \in Nat /\ MaxKills \in Nat /\ ChanCap \in Nat
      /\ MonitorTypeOK /\ KillsAreCounted /\ TaskShape
      /\ Count(cmds, {"Kill"}) \in Nat /\ KillsToDo \in Nat
      /\ Count(events, Results) \in Nat /\ KillsToTell \in Nat
  BY MonitorAssumption, CountsAreNat DEF TypeInv
<1>n. /\ MaxRefreshes \in Nat /\ MaxKills \in Nat
      /\ KillsToDo \in Nat /\ KillsToTell \in Nat
      /\ gen \in Nat /\ confirmed \in Nat /\ killed \in Nat /\ confirmed <= MaxKills
      /\ killed + KillsToDo <= confirmed
      /\ KillsToDo + KillsToTell <= confirmed
      /\ gen + KillsToDo + KillsToTell <= MaxRefreshes + 1 + confirmed
  BY <1>0 DEF MonitorTypeOK, Gens, KillsAreCounted
<1>1. CASE ManualRefresh
  <2>1. gen + 1 \in Gens
    BY <1>0, <1>1 DEF ManualRefresh, MonitorTypeOK, Gens
  <2>2. /\ gen' \in Gens /\ awaitingRefresh' \in BOOLEAN
        /\ cmds' \in Seq(Cmds) /\ Len(cmds') <= ChanCap
        /\ Count(cmds', {"Kill"}) = Count(cmds, {"Kill"})
    BY <1>0, <1>1, <2>1, DispatchTypes DEF ManualRefresh
  <2>3. MonitorTypeOK'
    BY <1>0, <1>1, <2>2 DEF ManualRefresh, MonitorTypeOK, taskVars
  <2>4. KillsToDo' = KillsToDo /\ KillsToTell' = KillsToTell
    BY <1>1, <2>2 DEF ManualRefresh, taskVars, KillsToDo, KillsToTell
  <2>5. KillsAreCounted'
    <3>1. gen' = gen + 1 /\ gen < MaxRefreshes /\ UNCHANGED <<killed, confirmed>>
      BY <1>1 DEF ManualRefresh, DispatchRefresh, taskVars
    <3> QED BY <1>n, <2>4, <3>1 DEF KillsAreCounted
  <2>6. TaskShape'
    BY <1>0, <1>1 DEF ManualRefresh, TaskShape, taskVars
  <2> QED BY <2>3, <2>5, <2>6 DEF TypeInv
<1>2. CASE ConfirmKill
  <2> DEFINE c == Kill(gen, dialog.pid)
  <2>1. c \in Cmds /\ c.kind = "Kill"
    BY <1>0 DEF Kill, Cmds, MonitorTypeOK
  <2>2. /\ cmds' \in Seq(Cmds) /\ Len(cmds') <= ChanCap
        /\ Count(cmds', {"Kill"}) \in {Count(cmds, {"Kill"}), Count(cmds, {"Kill"}) + 1}
    <3>1. CASE Room
      <4>1. cmds' = Append(cmds, c)
        BY <1>2, <3>1 DEF ConfirmKill
      <4>2. cmds \in Seq(Cmds) /\ Len(cmds) < ChanCap
        BY <1>0, <3>1 DEF MonitorTypeOK, Room
      <4>3. Count(cmds', {"Kill"}) = Count(cmds, {"Kill"}) + (IF c.kind \in {"Kill"} THEN 1 ELSE 0)
        BY <2>1, <4>1, <4>2, CountAppend
      <4>4. cmds' \in Seq(Cmds) /\ Len(cmds') = Len(cmds) + 1
        BY <2>1, <4>1, <4>2
      <4>5. Len(cmds') <= ChanCap
        BY <1>0, <4>2, <4>4
      <4> QED BY <2>1, <4>3, <4>4, <4>5
    <3>2. CASE ~Room
      BY <1>0, <1>2, <3>2 DEF ConfirmKill, MonitorTypeOK
    <3> QED BY <3>1, <3>2
  <2>3. confirmed' = confirmed + 1 /\ confirmed' \in 0 .. MaxKills
        /\ UNCHANGED <<gen, killed>>
    BY <1>0, <1>2 DEF ConfirmKill, MonitorTypeOK, viewVars, taskVars
  <2>4. KillsToDo' \in {KillsToDo, KillsToDo + 1} /\ KillsToTell' = KillsToTell
    BY <1>0, <1>2, <2>2 DEF ConfirmKill, viewVars, taskVars, KillsToDo, KillsToTell
  <2>5. MonitorTypeOK'
    BY <1>0, <1>2, <2>2, <2>3 DEF ConfirmKill, MonitorTypeOK, viewVars, taskVars
  <2>6. KillsAreCounted'
    <3>1. gen' = gen /\ killed' = killed /\ confirmed' = confirmed + 1
      BY <2>3
    <3>2. (KillsToDo' = KillsToDo \/ KillsToDo' = KillsToDo + 1) /\ KillsToTell' = KillsToTell
      BY <2>4
    <3> QED BY <1>n, <3>1, <3>2 DEF KillsAreCounted
  <2>7. TaskShape'
    BY <1>0, <1>2 DEF ConfirmKill, TaskShape, taskVars
  <2> QED BY <2>5, <2>6, <2>7 DEF TypeInv
<1>3. CASE CancelDialog \/ \E p \in Pids : RequestKill(p)
  <2>1. UNCHANGED <<viewVars, cmds, taskVars, events, acked, confirmed>>
    BY <1>3 DEF CancelDialog, RequestKill
  <2>2. dialog' = NoDialog \/ \E p \in Pids : dialog' = [pid |-> p, dispatched |-> FALSE]
    BY <1>3 DEF CancelDialog, RequestKill
  <2>3. MonitorTypeOK'
    <3>1. dialog' \in [pid : Pids \cup {0}, dispatched : BOOLEAN]
      <4>1. \A p \in Pids \cup {0} : [pid |-> p, dispatched |-> FALSE] \in [pid : Pids \cup {0}, dispatched : BOOLEAN]
        OBVIOUS
      <4>2. PICK p \in Pids \cup {0} : dialog' = [pid |-> p, dispatched |-> FALSE]
        BY <2>2, Zenon DEF NoDialog
      <4> QED BY <4>1, <4>2, Zenon
    <3> QED BY <1>0, <2>1, <3>1 DEF MonitorTypeOK, viewVars, taskVars
  <2>4. KillsAreCounted' /\ TaskShape'
    BY <1>0, <2>1 DEF KillsAreCounted, KillsToDo, KillsToTell, TaskShape, viewVars, taskVars
  <2> QED BY <2>3, <2>4 DEF TypeInv
<1>4. CASE OnEvent
  <2> DEFINE e == Head(events)
  <2>1. /\ e \in Events /\ events' \in Seq(Events) /\ Len(events') <= ChanCap
        /\ events # <<>> /\ UNCHANGED <<taskVars, confirmed>>
    BY <1>0, <1>4 DEF OnEvent, MonitorTypeOK
  <2>2. Count(events, Results) = Count(events', Results) + (IF e.kind \in Results THEN 1 ELSE 0)
    BY <1>0, <1>4, CountTail DEF OnEvent, MonitorTypeOK
  <2>3. Count(events', Results) \in Nat
    BY <2>1, CountType
  <2>4. /\ acked \in 0 .. MaxKills /\ backoff \in 0 .. 4 /\ gen \in Gens
        /\ awaitingRefresh \in BOOLEAN /\ dialog \in [pid : Pids \cup {0}, dispatched : BOOLEAN]
        /\ e.n \in 0 .. MaxKills
    BY <1>0, <2>1 DEF MonitorTypeOK, Events
  <2>5. TaskShape'
    BY <1>0, <2>1 DEF TaskShape, taskVars
  <2>6. CASE TakeData(e) \/ TakeError(e)
    <3>1. /\ UNCHANGED <<gen, dialog, cmds, acked>>
          /\ awaitingRefresh' \in BOOLEAN /\ backoff' \in 0 .. 4
          /\ shown' \in {NoSnapshot} \cup 0 .. MaxKills
      <4>1. CASE TakeData(e)
        <5>1. shown \in {NoSnapshot} \cup 0 .. MaxKills /\ backoff \in 0 .. 4
              /\ awaitingRefresh \in BOOLEAN /\ e.n \in 0 .. MaxKills
          BY <1>0, <2>4 DEF MonitorTypeOK
        <5> HIDE DEF e
        <5>2. UNCHANGED <<gen, dialog, cmds, acked>>
          BY <4>1 DEF TakeData
        <5>3. awaitingRefresh' \in BOOLEAN
          BY <4>1, <5>1, Zenon DEF TakeData
        <5>4. backoff' \in 0 .. 4
          BY <4>1, <5>1 DEF TakeData
        <5>5. shown' \in {NoSnapshot} \cup 0 .. MaxKills
          BY <4>1, <5>1 DEF TakeData
        <5> QED BY <5>2, <5>3, <5>4, <5>5
      <4>2. CASE TakeError(e)
        <5>1. shown \in {NoSnapshot} \cup 0 .. MaxKills /\ backoff \in 0 .. 4
              /\ awaitingRefresh \in BOOLEAN
          BY <1>0 DEF MonitorTypeOK
        <5> HIDE DEF e
        <5>2. UNCHANGED <<gen, dialog, cmds, acked>>
          BY <4>2 DEF TakeError
        <5>3. awaitingRefresh' \in BOOLEAN
          BY <4>2, <5>1, Zenon DEF TakeError
        <5>4. backoff' \in 0 .. 4
          BY <4>2, <5>1 DEF TakeError
        <5>5. shown' \in {NoSnapshot} \cup 0 .. MaxKills
          BY <4>2, <5>1 DEF TakeError
        <5> QED BY <5>2, <5>3, <5>4, <5>5
      <4> QED BY <2>6, <4>1, <4>2
    <3>2. MonitorTypeOK'
      BY <1>0, <2>1, <3>1 DEF MonitorTypeOK, taskVars
    <3>3. KillsToDo' = KillsToDo /\ KillsToTell' = KillsToTell
      <4>1. e.kind \notin Results
        BY <2>6 DEF TakeData, TakeError, Results
      <4> QED BY <2>1, <2>2, <2>3, <3>1, <4>1 DEF KillsToDo, KillsToTell, taskVars
    <3>4. KillsAreCounted'
      <4>1. UNCHANGED <<gen, killed, confirmed>>
        BY <2>1, <3>1 DEF taskVars
      <4> QED BY <1>n, <3>3, <4>1 DEF KillsAreCounted
    <3> QED BY <2>5, <3>2, <3>4 DEF TypeInv
  <2>7. CASE TakeKillResult(e)
    <3>1. e.kind \in Results /\ DispatchRefresh(awaitingRefresh) /\ UNCHANGED <<backoff, shown>>
          /\ gen' = gen + 1
      BY <2>7 DEF TakeKillResult, Results, DispatchRefresh
    <3>2. KillsToTell' = KillsToTell - 1 /\ KillsToTell >= 1
      <4>1. Count(events', Results) = Count(events, Results) - 1 /\ Count(events, Results) >= 1
        BY <1>0, <2>2, <2>3, <3>1
      <4> QED BY <1>0, <2>1, <4>1 DEF KillsToTell, taskVars
    <3>3. gen + 1 \in Gens
      BY <1>n, <3>2 DEF Gens
    <3>4. /\ gen' \in Gens /\ awaitingRefresh' \in BOOLEAN
          /\ cmds' \in Seq(Cmds) /\ Len(cmds') <= ChanCap
          /\ Count(cmds', {"Kill"}) = Count(cmds, {"Kill"})
      BY <1>0, <2>4, <3>1, <3>3, DispatchTypes
    <3>5. /\ acked' \in 0 .. MaxKills
          /\ dialog' \in [pid : Pids \cup {0}, dispatched : BOOLEAN]
      BY <2>4, <2>7 DEF TakeKillResult, NoDialog
    <3>6. MonitorTypeOK'
      BY <1>0, <2>1, <3>1, <3>4, <3>5 DEF MonitorTypeOK, taskVars
    <3>7. KillsToDo' = KillsToDo
      BY <2>1, <3>4 DEF KillsToDo, taskVars
    <3>8. KillsAreCounted'
      <4>1. UNCHANGED <<killed, confirmed>>
        BY <2>1 DEF taskVars
      <4> QED BY <1>n, <3>1, <3>2, <3>7, <4>1 DEF KillsAreCounted
    <3> QED BY <2>5, <3>6, <3>8 DEF TypeInv
  <2> QED BY <1>4, <2>6, <2>7 DEF OnEvent
<1> QED BY <1>1, <1>2, <1>3, <1>4 DEF View

(* The task sends what it has made: it turns a kill into its outcome.      *)
LEMMA EmitShape ==
    ASSUME NEW e \in Events, Emit(e)
    PROVE  /\ out' = e /\ out' # Idle /\ cur' = Idle /\ stage' = "sending"
           /\ out' \in Events \cup {Idle} /\ cur' \in Cmds \cup {Idle}
<1>1. e # Idle
  BY DEF Events, Idle
<1> QED BY <1>1 DEF Emit

LEMMA TaskKeepsTypeInv ==
    ASSUME TypeInv, Task
    PROVE  TypeInv'
<1>0. /\ MaxRefreshes \in Nat /\ MaxKills \in Nat /\ ChanCap \in Nat
      /\ MonitorTypeOK /\ KillsAreCounted /\ TaskShape
      /\ Count(cmds, {"Kill"}) \in Nat /\ Count(events, Results) \in Nat
  BY MonitorAssumption, CountsAreNat DEF TypeInv
<1>n. /\ MaxRefreshes \in Nat /\ MaxKills \in Nat
      /\ KillsToDo \in Nat /\ KillsToTell \in Nat
      /\ gen \in Nat /\ confirmed \in Nat /\ killed \in Nat /\ confirmed <= MaxKills
      /\ killed + KillsToDo <= confirmed
      /\ KillsToDo + KillsToTell <= confirmed
      /\ gen + KillsToDo + KillsToTell <= MaxRefreshes + 1 + confirmed
  BY <1>0, CountsAreNat DEF MonitorTypeOK, Gens, KillsAreCounted
<1>1. CASE TakeCommand \/ Preempt
  <2>1. /\ cmds # <<>> /\ Begin(Head(cmds)) /\ cmds' = Tail(cmds)
        /\ UNCHANGED <<viewVars, dialog, connected, out, killed, events, acked, confirmed>>
        /\ stage \in {"idle", "refreshing"}
    BY <1>1 DEF TakeCommand, Preempt
  <2>2. cur.kind # "Kill" /\ out = Idle
    BY <1>0, <2>1 DEF TaskShape, Idle
  <2>3. /\ cmds' \in Seq(Cmds) /\ Len(cmds') <= ChanCap
        /\ cur' \in Cmds /\ cur' # Idle
        /\ stage' \in {"opening", "refreshing", "killing"}
        /\ stage' = "refreshing" => cur'.kind = "Refresh" /\ connected
        /\ stage' = "killing" => cur'.kind = "Kill" /\ connected
        /\ stage' = "opening" => ~connected
        /\ KillsToDo' = KillsToDo
    BY <1>0, <2>1, <2>2, BeginTypes
  <2>4. MonitorTypeOK'
    BY <1>0, <2>1, <2>3 DEF MonitorTypeOK, viewVars
  <2>5. TaskShape'
    BY <2>1, <2>2, <2>3 DEF TaskShape
  <2>6. KillsAreCounted'
    <3>1. UNCHANGED <<gen, killed, confirmed>> /\ KillsToTell' = KillsToTell
      BY <2>1 DEF viewVars, KillsToTell
    <3> QED BY <1>n, <2>3, <3>1 DEF KillsAreCounted
  <2> QED BY <2>4, <2>5, <2>6 DEF TypeInv
<1>2. CASE Connect
  <2>1. /\ stage = "opening" /\ cur \in Cmds /\ cur.gen \in Gens /\ cur.kind \in {"Refresh", "Kill"}
        /\ out = Idle /\ cur # Idle
        /\ UNCHANGED <<viewVars, dialog, cmds, killed, events, acked, confirmed>>
    BY <1>0, <1>2 DEF Connect, MonitorTypeOK, TaskShape, Cmds
  <2>2. CASE connected' = TRUE /\ stage' = (IF cur.kind = "Refresh" THEN "refreshing" ELSE "killing")
             /\ UNCHANGED <<cur, out>>
    <3>1. MonitorTypeOK'
      BY <1>0, <2>1, <2>2 DEF MonitorTypeOK, viewVars
    <3>2. TaskShape'
      BY <2>1, <2>2 DEF TaskShape
    <3>3. KillsAreCounted'
      BY <1>0, <2>1, <2>2 DEF KillsAreCounted, KillsToDo, KillsToTell, viewVars
    <3> QED BY <3>1, <3>2, <3>3 DEF TypeInv
  <2>3. CASE Emit(Event("Error", cur.gen, 0, killed)) /\ UNCHANGED connected
    <3> DEFINE e == Event("Error", cur.gen, 0, killed)
    <3>1. e \in Events /\ e.kind = "Error"
      BY <1>0, <2>1 DEF Event, Events, MonitorTypeOK
    <3>2. /\ out' = e /\ out' # Idle /\ cur' = Idle /\ stage' = "sending"
          /\ out' \in Events \cup {Idle} /\ cur' \in Cmds \cup {Idle}
      BY <2>3, <3>1, EmitShape
    <3>3. MonitorTypeOK'
      BY <1>0, <2>1, <2>3, <3>2 DEF MonitorTypeOK, viewVars
    <3>4. TaskShape'
      BY <3>2 DEF TaskShape
    <3>5. (KillsToDo' = KillsToDo \/ KillsToDo' = KillsToDo - 1) /\ KillsToTell' = KillsToTell
      BY <1>0, <2>1, <3>1, <3>2 DEF KillsToDo, KillsToTell, Idle, Results
    <3>6. UNCHANGED <<gen, killed, confirmed>>
      BY <2>1 DEF viewVars
    <3>7. KillsAreCounted'
      BY <1>n, <3>5, <3>6 DEF KillsAreCounted
    <3> QED BY <3>3, <3>4, <3>7 DEF TypeInv
  <2> QED BY <1>2, <2>2, <2>3 DEF Connect
<1>3. CASE RefreshDone
  <2>1. /\ stage = "refreshing" /\ cur.kind = "Refresh" /\ cur \in Cmds /\ cur.gen \in Gens /\ out = Idle
        /\ UNCHANGED <<viewVars, dialog, cmds, connected, killed, events, acked, confirmed>>
    BY <1>0, <1>3 DEF RefreshDone, MonitorTypeOK, TaskShape, Cmds
  <2>2. PICK kind \in {"Data", "Error"} : Emit(Event(kind, cur.gen, 0, killed))
    BY <1>3 DEF RefreshDone
  <2> DEFINE e == Event(kind, cur.gen, 0, killed)
  <2>3. e \in Events /\ e.kind \in {"Data", "Error"}
    BY <1>0, <2>1 DEF Event, Events, MonitorTypeOK
  <2>4. /\ out' = e /\ out' # Idle /\ cur' = Idle /\ stage' = "sending"
        /\ out' \in Events \cup {Idle} /\ cur' \in Cmds \cup {Idle}
    BY <2>2, <2>3, EmitShape
  <2>5. MonitorTypeOK'
    BY <1>0, <2>1, <2>4 DEF MonitorTypeOK, viewVars
  <2>6. TaskShape'
    BY <2>4 DEF TaskShape
  <2>7. KillsToDo' = KillsToDo /\ KillsToTell' = KillsToTell
    BY <1>0, <2>1, <2>3, <2>4 DEF KillsToDo, KillsToTell, Idle, Results
  <2>8. UNCHANGED <<gen, killed, confirmed>>
    BY <2>1 DEF viewVars
  <2>9. KillsAreCounted'
    BY <1>n, <2>7, <2>8 DEF KillsAreCounted
  <2> QED BY <2>5, <2>6, <2>9 DEF TypeInv
<1>4. CASE KillDone
  <2>1. /\ stage = "killing" /\ cur.kind = "Kill" /\ cur \in Cmds /\ cur.gen \in Gens
        /\ cur.pid \in Pids \cup {0} /\ out = Idle
        /\ UNCHANGED <<viewVars, dialog, cmds, connected, events, acked, confirmed>>
    BY <1>0, <1>4 DEF KillDone, MonitorTypeOK, TaskShape, Cmds
  <2>2. killed + 1 \in 0 .. MaxKills /\ killed \in 0 .. MaxKills
    <3>1. KillsToDo >= 1
      BY <1>0, <2>1 DEF KillsToDo
    <3> QED BY <1>n, <3>1
  <2>3. PICK e \in Events :
            /\ e.kind \in Results /\ Emit(e)
            /\ killed' = killed \/ killed' = killed + 1
    <3>1. CASE killed' = killed + 1 /\ Emit(Event("KillOk", cur.gen, cur.pid, killed + 1))
      <4>1. Event("KillOk", cur.gen, cur.pid, killed + 1) \in Events
            /\ Event("KillOk", cur.gen, cur.pid, killed + 1).kind \in Results
        BY <2>1, <2>2 DEF Event, Events, Results
      <4> QED BY <3>1, <4>1
    <3>2. CASE killed' = killed /\ Emit(Event("KillErr", cur.gen, cur.pid, killed))
      <4>1. Event("KillErr", cur.gen, cur.pid, killed) \in Events
            /\ Event("KillErr", cur.gen, cur.pid, killed).kind \in Results
        BY <2>1, <2>2 DEF Event, Events, Results
      <4> QED BY <3>2, <4>1
    <3> QED BY <1>4, <3>1, <3>2 DEF KillDone
  <2>4. /\ out' = e /\ out' # Idle /\ cur' = Idle /\ stage' = "sending"
        /\ out' \in Events \cup {Idle} /\ cur' \in Cmds \cup {Idle}
    BY <2>3, EmitShape
  <2>5. killed' \in 0 .. MaxKills
    BY <2>2, <2>3
  <2>6. MonitorTypeOK'
    BY <1>0, <2>1, <2>4, <2>5 DEF MonitorTypeOK, viewVars
  <2>7. TaskShape'
    BY <2>4 DEF TaskShape
  <2>8. KillsToDo' = KillsToDo - 1 /\ KillsToTell' = KillsToTell + 1
    BY <1>0, <2>1, <2>3, <2>4 DEF KillsToDo, KillsToTell, Idle, Results
  <2>9. KillsAreCounted'
    <3>1. gen' = gen /\ confirmed' = confirmed /\ (killed' = killed \/ killed' = killed + 1)
      BY <2>1, <2>3 DEF viewVars
    <3> QED BY <1>n, <2>8, <3>1 DEF KillsAreCounted
  <2> QED BY <2>6, <2>7, <2>9 DEF TypeInv
<1>5. CASE Send
  <2>1. /\ stage = "sending" /\ out \in Events /\ out' = Idle /\ stage' = "idle" /\ cur = Idle
        /\ events' = Append(events, out) /\ Len(events) < ChanCap
        /\ UNCHANGED <<viewVars, dialog, cmds, cur, connected, killed, acked, confirmed>>
    BY <1>0, <1>5 DEF Send, MonitorTypeOK, TaskShape
  <2>2. Count(events', Results) = Count(events, Results) + (IF out.kind \in Results THEN 1 ELSE 0)
    BY <1>0, <2>1, CountAppend DEF MonitorTypeOK
  <2>3. events' \in Seq(Events) /\ Len(events') <= ChanCap
    BY <1>0, <2>1 DEF MonitorTypeOK
  <2>4. MonitorTypeOK'
    BY <1>0, <2>1, <2>3 DEF MonitorTypeOK, viewVars
  <2>5. TaskShape'
    BY <2>1 DEF TaskShape
  <2>6. KillsToDo' = KillsToDo /\ KillsToTell' = KillsToTell
    BY <1>0, <2>1, <2>2 DEF KillsToDo, KillsToTell, Idle, Results
  <2>7. UNCHANGED <<gen, killed, confirmed>>
    BY <2>1 DEF viewVars
  <2>8. KillsAreCounted'
    BY <1>n, <2>6, <2>7 DEF KillsAreCounted
  <2> QED BY <2>4, <2>5, <2>8 DEF TypeInv
<1> QED BY <1>1, <1>2, <1>3, <1>4, <1>5 DEF Task

(* What the channels hold is well-formed and within the bounds, whatever   *)
(* the capacities: no step of the view or of the task leaves its types.    *)
LEMMA TypeInvStep == TypeInv /\ [MonitorNext]_monitorVars => TypeInv'
<1> SUFFICES ASSUME TypeInv, [MonitorNext]_monitorVars PROVE TypeInv'
  OBVIOUS
<1>1. CASE View
  BY <1>1, ViewKeepsTypeInv
<1>2. CASE Task
  BY <1>2, TaskKeepsTypeInv
<1>3. CASE UNCHANGED monitorVars
  BY <1>3 DEF monitorVars, viewVars, taskVars, TypeInv, MonitorTypeOK, KillsAreCounted, KillsToDo,
    KillsToTell, TaskShape
<1> QED BY <1>1, <1>2, <1>3 DEF MonitorNext, MonitorQuiet

-----------------------------------------------------------------------------
(* What is in flight *)

Elems(s) == {s[i] : i \in DOMAIN s}

LEMMA ElemsTail ==
    ASSUME NEW S, NEW s \in Seq(S), s # <<>>
    PROVE  Elems(s) = Elems(Tail(s)) \cup {Head(s)}
<1>1. /\ Tail(s) \in Seq(S) /\ Len(Tail(s)) = Len(s) - 1 /\ Len(s) \in Nat \ {0}
      /\ \A i \in 1 .. Len(Tail(s)) : Tail(s)[i] = s[i + 1]
      /\ Head(s) = s[1] /\ DOMAIN s = 1 .. Len(s) /\ DOMAIN Tail(s) = 1 .. Len(Tail(s))
  OBVIOUS
<1>2. ASSUME NEW i \in DOMAIN s PROVE s[i] \in Elems(Tail(s)) \cup {Head(s)}
  <2>1. CASE i = 1
    BY <1>1, <2>1
  <2>2. CASE i # 1
    <3>1. i - 1 \in DOMAIN Tail(s) /\ Tail(s)[i - 1] = s[i]
      BY <1>1, <1>2, <2>2
    <3> QED BY <3>1 DEF Elems
  <2> QED BY <2>1, <2>2
<1>3. ASSUME NEW i \in DOMAIN Tail(s) PROVE Tail(s)[i] \in Elems(s)
  <2>1. i + 1 \in DOMAIN s /\ s[i + 1] = Tail(s)[i]
    BY <1>1, <1>3
  <2> QED BY <2>1 DEF Elems
<1>4. Head(s) \in Elems(s)
  BY <1>1 DEF Elems
<1> QED BY <1>2, <1>3, <1>4 DEF Elems

LEMMA ElemsAppend ==
    ASSUME NEW S, NEW s \in Seq(S), NEW e \in S
    PROVE  Elems(Append(s, e)) = Elems(s) \cup {e}
<1>1. /\ Len(s) \in Nat /\ DOMAIN s = 1 .. Len(s) /\ DOMAIN Append(s, e) = 1 .. Len(s) + 1
      /\ \A i \in 1 .. Len(s) : Append(s, e)[i] = s[i]
      /\ Append(s, e)[Len(s) + 1] = e
  OBVIOUS
<1>2. ASSUME NEW i \in DOMAIN Append(s, e) PROVE Append(s, e)[i] \in Elems(s) \cup {e}
  <2>1. i \in DOMAIN s \/ i = Len(s) + 1
    BY <1>1, <1>2
  <2> QED BY <1>1, <2>1 DEF Elems
<1>3. ASSUME NEW i \in DOMAIN s PROVE s[i] \in Elems(Append(s, e))
  <2>1. i \in DOMAIN Append(s, e) /\ Append(s, e)[i] = s[i]
    BY <1>1, <1>3
  <2> QED BY <2>1 DEF Elems
<1>4. e \in Elems(Append(s, e))
  <2>1. Len(s) + 1 \in DOMAIN Append(s, e)
    BY <1>1
  <2> QED BY <1>1, <2>1 DEF Elems
<1> QED BY <1>2, <1>3, <1>4 DEF Elems

LEMMA InFlightTypes ==
    ASSUME MonitorTypeOK
    PROVE  /\ Pending = Elems(cmds) \cup {cur} /\ Elems(cmds) \subseteq Cmds
           /\ Coming = Elems(events) \cup {out} /\ Elems(events) \subseteq Events
           /\ Pending \subseteq Cmds \cup {Idle} /\ Coming \subseteq Events \cup {Idle}
<1>1. Elems(cmds) \subseteq Cmds
  BY DEF MonitorTypeOK, Elems
<1>2. Elems(events) \subseteq Events
  BY DEF MonitorTypeOK, Elems
<1>3. Pending = Elems(cmds) \cup {cur} /\ Coming = Elems(events) \cup {out}
  BY DEF Pending, Coming, Elems
<1> QED BY <1>1, <1>2, <1>3 DEF MonitorTypeOK

LEMMA DispatchElems ==
    ASSUME MonitorTypeOK, NEW was, DispatchRefresh(was), gen + 1 \in Gens
    PROVE  Elems(cmds') = IF Room THEN Elems(cmds) \cup {Refresh(gen + 1)} ELSE Elems(cmds)
<1>1. Refresh(gen + 1) \in Cmds /\ cmds \in Seq(Cmds)
  BY DEF Refresh, Cmds, MonitorTypeOK
<1>2. Elems(Append(cmds, Refresh(gen + 1))) = Elems(cmds) \cup {Refresh(gen + 1)}
  BY <1>1, ElemsAppend
<1> QED BY <1>2 DEF DispatchRefresh

LEMMA TakeElems ==
    ASSUME MonitorTypeOK, cmds # <<>>, Begin(Head(cmds)), cmds' = Tail(cmds)
    PROVE  Elems(cmds) = Elems(cmds') \cup {cur'} /\ cur' = Head(cmds)
BY ElemsTail DEF MonitorTypeOK, Begin

LEMMA DrainElems ==
    ASSUME MonitorTypeOK, OnEvent
    PROVE  Elems(events) = Elems(events') \cup {Head(events)} /\ Head(events) \in Events
BY ElemsTail DEF MonitorTypeOK, OnEvent

LEMMA SendElems ==
    ASSUME TypeInv, Send
    PROVE  Elems(events') = Elems(events) \cup {out} /\ out \in Events
<1>1. out \in Events /\ events \in Seq(Events)
  BY DEF TypeInv, MonitorTypeOK, TaskShape, Send
<1> QED BY <1>1, ElemsAppend DEF Send

(* Manual refreshes and kills' outcomes keep the generation within bounds. *)
LEMMA DispatchStaysInGens ==
    ASSUME TypeInv, TypeInv'
    PROVE  /\ ManualRefresh => gen + 1 \in Gens
           /\ OnEvent /\ TakeKillResult(Head(events)) => gen + 1 \in Gens
<1>1. gen' \in Gens
  BY DEF TypeInv, MonitorTypeOK
<1> QED BY <1>1 DEF ManualRefresh, TakeKillResult, DispatchRefresh

-----------------------------------------------------------------------------
(* Nothing newer than the view *)

(* A step that moves the generation on leaves nothing in flight that bears *)
(* the new one, but the refresh it has dispatched.                         *)
LEMMA NewGeneration ==
    ASSUME TruthInv, TypeInv', gen' = gen + 1, acked' \in Nat, acked' <= killed, killed' = killed,
           \A c \in Pending' : c \in Pending \/ c = Refresh(gen + 1),
           \A e \in Coming' : e \in Coming
    PROVE  NothingNewer'
<1>1. /\ gen \in Nat /\ killed \in Nat
      /\ Pending \subseteq Cmds \cup {Idle} /\ Coming \subseteq Events \cup {Idle}
  BY InFlightTypes DEF TruthInv, TypeInv, MonitorTypeOK, Gens
<1>2. ASSUME NEW c \in Pending', c # Idle PROVE c.gen <= gen'
  <2>1. CASE c = Refresh(gen + 1)
    BY <1>1, <2>1 DEF Refresh
  <2>2. CASE c \in Pending
    <3>1. c.gen <= gen /\ c.gen \in Nat
      BY <1>1, <1>2, <2>2 DEF TruthInv, NothingNewer, Cmds, Gens
    <3> QED BY <1>1, <3>1
  <2> QED BY <1>2, <2>1, <2>2
<1>3. ASSUME NEW e \in Coming', e # Idle PROVE e.gen <= gen /\ e.gen \in Nat /\ e.n <= killed
  <2>1. e \in Coming
    BY <1>3
  <2>2. e \in Events
    BY <1>1, <1>3, <2>1
  <2> QED BY <1>3, <2>1, <2>2 DEF TruthInv, NothingNewer, Events, Gens
<1>4. ASSUME NEW e \in Coming', e # Idle PROVE e.gen <= gen' /\ e.n <= killed' /\ e.gen # gen'
  BY <1>1, <1>3, <1>4
<1>5. \A e \in Coming' : e.kind = "Data" => e # Idle
  BY DEF Idle
<1> QED BY <1>2, <1>4, <1>5 DEF NothingNewer

LEMMA TruthStep == TruthInv /\ [MonitorNext]_monitorVars => TruthInv'
<1> SUFFICES ASSUME TruthInv, [MonitorNext]_monitorVars PROVE NothingNewer'
  BY TypeInvStep DEF TruthInv
<1>0. TypeInv /\ TypeInv' /\ MonitorTypeOK /\ MonitorTypeOK' /\ TaskShape /\ NothingNewer
  BY TypeInvStep DEF TruthInv, TypeInv
<1>1. /\ Pending = Elems(cmds) \cup {cur} /\ Coming = Elems(events) \cup {out}
      /\ Pending \subseteq Cmds \cup {Idle} /\ Coming \subseteq Events \cup {Idle}
      /\ Pending' = Elems(cmds') \cup {cur'} /\ Coming' = Elems(events') \cup {out'}
  <2>1. MonitorTypeOK => Pending = Elems(cmds) \cup {cur} /\ Coming = Elems(events) \cup {out}
                  /\ Pending \subseteq Cmds \cup {Idle} /\ Coming \subseteq Events \cup {Idle}
    BY InFlightTypes
  <2>2. Pending' = Elems(cmds') \cup {cur'} /\ Coming' = Elems(events') \cup {out'}
    BY DEF Pending, Coming, Elems
  <2> QED BY <1>0, <2>1, <2>2
<1>2. gen \in Nat /\ killed \in Nat /\ acked \in Nat /\ acked' \in Nat /\ acked <= killed
  BY <1>0 DEF MonitorTypeOK, Gens, NothingNewer
<1>3. CASE ManualRefresh
  <2>1. /\ gen' = gen + 1 /\ UNCHANGED <<taskVars, events, acked>>
        /\ Elems(cmds') = IF Room THEN Elems(cmds) \cup {Refresh(gen + 1)} ELSE Elems(cmds)
    BY <1>0, <1>3, DispatchElems, DispatchStaysInGens DEF ManualRefresh, DispatchRefresh
  <2>2. \A c \in Pending' : c \in Pending \/ c = Refresh(gen + 1)
    BY <1>1, <2>1 DEF taskVars
  <2>3. Coming' = Coming
    BY <1>1, <2>1 DEF taskVars
  <2> QED BY <1>0, <1>2, <2>1, <2>2, <2>3, NewGeneration DEF taskVars
<1>4. CASE OnEvent /\ TakeKillResult(Head(events))
  <2> DEFINE e == Head(events)
  <2>1. /\ gen' = gen + 1 /\ UNCHANGED taskVars
        /\ Elems(cmds') = IF Room THEN Elems(cmds) \cup {Refresh(gen + 1)} ELSE Elems(cmds)
    BY <1>0, <1>4, DispatchElems, DispatchStaysInGens DEF OnEvent, TakeKillResult, DispatchRefresh
  <2>2. \A c \in Pending' : c \in Pending \/ c = Refresh(gen + 1)
    BY <1>1, <2>1 DEF taskVars
  <2>3. Elems(events) = Elems(events') \cup {e} /\ e \in Events /\ e # Idle
    BY <1>0, <1>4, DrainElems DEF Events, Idle
  <2>4. \A x \in Coming' : x \in Coming
    BY <1>1, <2>1, <2>3 DEF taskVars
  <2>5. e \in Coming /\ e.n <= killed
    BY <1>0, <1>1, <2>3 DEF NothingNewer
  <2>6. acked' <= killed
    BY <1>2, <1>4, <2>5 DEF TakeKillResult
  <2> QED BY <1>0, <1>2, <2>1, <2>2, <2>4, <2>6, NewGeneration DEF taskVars
<1>5. CASE OnEvent /\ (TakeData(Head(events)) \/ TakeError(Head(events)))
  <2>1. UNCHANGED <<gen, cmds, acked, taskVars>>
    BY <1>5 DEF OnEvent, TakeData, TakeError
  <2>2. Elems(events) = Elems(events') \cup {Head(events)}
    BY <1>0, <1>5, DrainElems
  <2>3. Pending' = Pending /\ \A e \in Coming' : e \in Coming
    BY <1>1, <2>1, <2>2 DEF taskVars
  <2> QED BY <1>0, <2>1, <2>3 DEF NothingNewer, taskVars
<1>6. CASE ConfirmKill
  <2>1. UNCHANGED <<gen, acked, taskVars, events>>
        /\ cmds' = IF Room THEN Append(cmds, Kill(gen, dialog.pid)) ELSE cmds
    BY <1>6 DEF ConfirmKill, viewVars
  <2>2. Kill(gen, dialog.pid) \in Cmds /\ Kill(gen, dialog.pid).gen = gen
    BY <1>0 DEF MonitorTypeOK, Kill, Cmds
  <2>3. Elems(cmds') \subseteq Elems(cmds) \cup {Kill(gen, dialog.pid)}
    BY <1>0, <2>1, <2>2, ElemsAppend DEF MonitorTypeOK
  <2>4. Coming' = Coming /\ \A c \in Pending' : c \in Pending \/ c = Kill(gen, dialog.pid)
    BY <1>1, <2>1, <2>3 DEF taskVars
  <2> QED BY <1>0, <1>2, <2>1, <2>2, <2>4 DEF NothingNewer, taskVars
<1>7. CASE TakeCommand \/ Preempt
  <2>1. /\ cmds # <<>> /\ Begin(Head(cmds)) /\ cmds' = Tail(cmds)
        /\ UNCHANGED <<gen, acked, killed, out, events>>
    BY <1>7 DEF TakeCommand, Preempt, viewVars
  <2>2. Elems(cmds) = Elems(cmds') \cup {cur'}
    BY <1>0, <2>1, TakeElems
  <2>3. Coming' = Coming /\ \A c \in Pending' : c \in Pending
    BY <1>1, <2>1, <2>2
  <2> QED BY <1>0, <2>1, <2>3 DEF NothingNewer
<1>8. CASE Connect \/ RefreshDone \/ KillDone
  <2>1. /\ UNCHANGED <<gen, acked, cmds, events>>
        /\ killed' \in {killed, killed + 1} /\ cur' \in {cur, Idle}
        /\ \/ out' = out
           \/ out'.gen = cur.gen /\ out'.n = killed' /\ cur # Idle
    BY <1>0, <1>8 DEF Connect, RefreshDone, KillDone, Emit, Event, viewVars, TaskShape
  <2>2. \A c \in Pending' : c \in Pending \/ c = Idle
    BY <1>1, <2>1
  <2>3. \A e \in Coming' : e \in Coming \/ (e.gen = cur.gen /\ e.n = killed' /\ cur # Idle)
    BY <1>1, <2>1
  <2>4. cur # Idle => cur.gen <= gen
    BY <1>0, <1>1 DEF NothingNewer
  <2>5. killed <= killed' /\ killed' \in Nat
    BY <1>2, <2>1
  <2>6. ASSUME NEW e \in Coming', e # Idle
        PROVE  e.gen <= gen' /\ e.n <= killed' /\ (e.kind = "Data" /\ e.gen = gen' => e.n >= acked')
    <3>1. CASE e \in Coming
      <4>1. e.gen <= gen /\ e.n <= killed /\ (e.kind = "Data" /\ e.gen = gen => e.n >= acked)
        BY <1>0, <2>6, <3>1 DEF NothingNewer
      <4>2. e.n \in Nat
        BY <1>1, <2>6, <3>1 DEF Events
      <4> QED BY <1>2, <2>1, <2>5, <4>1, <4>2
    <3>2. CASE e.gen = cur.gen /\ e.n = killed' /\ cur # Idle
      BY <1>2, <2>1, <2>4, <2>5, <3>2
    <3> QED BY <2>3, <2>6, <3>1, <3>2
  <2>7. \A e \in Coming' : e.kind = "Data" => e # Idle
    BY DEF Idle
  <2>8. acked' <= killed' /\ gen' = gen
    BY <1>2, <2>1, <2>5
  <2>9. \A c \in Pending' : c # Idle => c.gen <= gen'
    BY <1>0, <2>2, <2>8 DEF NothingNewer
  <2> QED BY <2>6, <2>7, <2>8, <2>9 DEF NothingNewer
<1>9. CASE Send
  <2>1. Elems(events') = Elems(events) \cup {out}
    BY <1>0, <1>9, SendElems
  <2>2. out' = Idle /\ UNCHANGED <<gen, acked, killed, cmds, cur>>
    BY <1>9 DEF Send, viewVars
  <2>3. Pending' = Pending /\ \A e \in Coming' : e \in Coming \/ e = Idle
    BY <1>1, <2>1, <2>2
  <2>4. Idle.kind # "Data"
    BY DEF Idle
  <2> QED BY <1>0, <2>2, <2>3, <2>4 DEF NothingNewer
<1>10. CASE CancelDialog \/ (\E p \in Pids : RequestKill(p)) \/ UNCHANGED monitorVars
  <2>1. UNCHANGED <<gen, acked, cmds, taskVars, events>>
    BY <1>10 DEF CancelDialog, RequestKill, viewVars, monitorVars
  <2>2. Pending' = Pending /\ Coming' = Coming
    BY <1>1, <2>1 DEF taskVars
  <2> QED BY <1>0, <2>1, <2>2 DEF NothingNewer, taskVars
<1> QED BY <1>3, <1>4, <1>5, <1>6, <1>7, <1>8, <1>9, <1>10 DEF MonitorNext, View, Task, MonitorQuiet, OnEvent

LEMMA InitTruthInv == MonitorInit => TruthInv
<1> SUFFICES ASSUME MonitorInit PROVE NothingNewer
  BY InitTypeInv DEF TruthInv
<1>1. \A c \in Pending : c = Refresh(1) \/ c = Idle
  BY DEF MonitorInit, Pending
<1>2. \A e \in Coming : e = Idle
  BY DEF MonitorInit, Coming
<1> QED BY <1>1, <1>2 DEF MonitorInit, NothingNewer, Refresh, Idle

(* What the model's states are made of, for any channels, even too small.  *)
THEOREM TypeCorrect == MonitorSpec => []MonitorTypeOK
<1>1. TypeInv => MonitorTypeOK
  BY DEF TypeInv
<1> QED BY <1>1, InitTypeInv, TypeInvStep, PTL DEF MonitorSpec

(* No snapshot older than a kill the user was told of is ever shown, even  *)
(* if the channels are so small that commands are dropped.                 *)
THEOREM TruthIsShown == MonitorSpec => ShowsTheTruth
<1>1. TruthInv /\ [MonitorNext]_monitorVars => [shown' # shown => shown' >= acked]_monitorVars
  <2> SUFFICES ASSUME TruthInv, MonitorNext, shown' # shown PROVE shown' >= acked
    BY DEF monitorVars, viewVars
  <2> DEFINE e == Head(events)
  <2>1. OnEvent /\ TakeData(e)
    BY DEF MonitorNext, View, ManualRefresh, ConfirmKill, CancelDialog, RequestKill, OnEvent, TakeError,
           TakeKillResult, Task, TakeCommand, Connect, RefreshDone, Preempt, KillDone, Send, MonitorQuiet,
           viewVars, monitorVars
  <2>2. e \in Coming
    BY <2>1, DrainElems, InFlightTypes DEF TruthInv, TypeInv
  <2>3. e.kind = "Data" /\ e.gen = gen /\ shown' = e.n
    BY <2>1 DEF TakeData
  <2> QED BY <2>2, <2>3 DEF TruthInv, NothingNewer
<1> QED BY <1>1, InitTruthInv, TruthStep, PTL DEF MonitorSpec, ShowsTheTruth

-----------------------------------------------------------------------------
(* Whatever is waited for is on its way *)

(* In channels that hold every kill confirmed, no command is dropped.      *)
LEMMA RoomForAll ==
    ASSUME MonitorIInv, ChanCap > MaxKills
    PROVE  ManualRefresh \/ ConfirmKill \/ OnEvent => Room
<1> DEFINE n == Len(cmds)
           m == Len(events)
           c == IF cur = Idle THEN 0 ELSE 1
           o == IF out = Idle THEN 0 ELSE 1
           a == IF awaitingRefresh THEN 1 ELSE 0
<1>1. /\ n \in Nat /\ m \in Nat /\ c \in Nat /\ o \in Nat /\ a \in {0, 1}
      /\ confirmed \in Nat /\ confirmed <= MaxKills /\ MaxKills \in Nat /\ ChanCap \in Nat
  BY MonitorAssumption DEF MonitorIInv, TruthInv, TypeInv, MonitorTypeOK
<1>2. n + m + c + o <= confirmed + a
  BY DEF MonitorIInv, ChannelsHold, InFlight
<1>3. ManualRefresh => a = 0
  BY DEF ManualRefresh
<1>4. ConfirmKill => confirmed < MaxKills
  BY DEF ConfirmKill
<1>5. OnEvent => m >= 1
  <2>1. OnEvent => events # <<>>
    BY DEF OnEvent
  <2> QED BY <2>1 DEF MonitorIInv, TruthInv, TypeInv, MonitorTypeOK
<1> HIDE DEF n, m, c, o, a
<1>6. ManualRefresh \/ ConfirmKill \/ OnEvent => n < ChanCap
  BY <1>1, <1>2, <1>3, <1>4, <1>5
<1> QED BY <1>6 DEF n, Room

LEMMA SnapshotsStep ==
    ASSUME MonitorIInv, MonitorNext
    PROVE  KillsFollowSnapshots'
<1>0. TypeInv /\ MonitorTypeOK /\ TaskShape /\ KillsFollowSnapshots
  BY DEF MonitorIInv, TruthInv, TypeInv
<1>1. /\ Pending = Elems(cmds) \cup {cur} /\ Coming = Elems(events) \cup {out}
      /\ Pending' = Elems(cmds') \cup {cur'} /\ Coming' = Elems(events') \cup {out'}
  BY DEF Pending, Coming, Elems
<1>2. Idle.kind \notin {"Kill", "Data"}
  BY DEF Idle
<1>3. connected => connected'
  BY DEF MonitorNext, View, ManualRefresh, ConfirmKill, CancelDialog, RequestKill, OnEvent,
         Task, TakeCommand, Connect, RefreshDone, Preempt, KillDone, Send, MonitorQuiet, monitorVars, taskVars
<1>4. CASE connected
  BY <1>3, <1>4, Zenon DEF KillsFollowSnapshots
<1>5. CASE ~connected
  <2>1. /\ shown = NoSnapshot /\ dialog = NoDialog
        /\ \A e \in Coming : e.kind # "Data"
        /\ \A c \in Pending : c.kind # "Kill"
    BY <1>0, <1>5 DEF KillsFollowSnapshots
  <2>2. ~ConfirmKill /\ ~RefreshDone /\ ~KillDone /\ ~(\E p \in Pids : RequestKill(p)) /\ ~CancelDialog
    BY <1>0, <1>5, <2>1 DEF ConfirmKill, RefreshDone, KillDone, RequestKill, CancelDialog, TaskShape
  <2>3. CASE ManualRefresh
    <3>1. Elems(cmds') \subseteq Elems(cmds) \cup {Refresh(gen + 1)}
      <4>1. Refresh(gen + 1) \in [kind : {"Refresh"}, gen : {gen + 1}, pid : {0}]
        BY DEF Refresh
      <4>2. MonitorTypeOK' /\ TypeInv'
        BY <1>0, <2>3, ViewKeepsTypeInv DEF View, TypeInv
      <4> QED BY <1>0, <2>3, <4>2, DispatchElems, DispatchStaysInGens DEF ManualRefresh
    <3>2. UNCHANGED <<shown, dialog, cur, out, events>>
      BY <2>3 DEF ManualRefresh, taskVars
    <3>3. Refresh(gen + 1).kind # "Kill"
      BY DEF Refresh
    <3> QED BY <1>1, <2>1, <3>1, <3>2, <3>3 DEF KillsFollowSnapshots
  <2>4. CASE OnEvent
    <3> DEFINE e == Head(events)
    <3>1. Elems(events) = Elems(events') \cup {e} /\ UNCHANGED <<cur, out>>
      BY <1>0, <2>4, DrainElems DEF OnEvent, taskVars
    <3>2. e.kind # "Data"
      BY <1>1, <2>1, <3>1
    <3>3. shown' = shown /\ dialog' = NoDialog
      <4>1. CASE TakeError(e)
        BY <2>1, <4>1 DEF TakeError
      <4>2. CASE TakeKillResult(e)
        BY <2>1, <4>2 DEF TakeKillResult, NoDialog
      <4> QED BY <2>4, <3>2, <4>1, <4>2 DEF OnEvent, TakeData
    <3>4. Elems(cmds') \subseteq Elems(cmds) \cup {Refresh(gen + 1)}
      <4>1. CASE TakeError(e)
        BY <4>1 DEF TakeError
      <4>2. CASE TakeKillResult(e)
        <5>1. MonitorTypeOK' /\ TypeInv'
          BY <1>0, <2>4, ViewKeepsTypeInv DEF View, TypeInv
        <5> QED BY <1>0, <2>4, <4>2, <5>1, DispatchElems, DispatchStaysInGens DEF TakeKillResult
      <4> QED BY <2>4, <3>2, <4>1, <4>2 DEF OnEvent, TakeData
    <3>5. Refresh(gen + 1).kind # "Kill"
      BY DEF Refresh
    <3> QED BY <1>1, <2>1, <3>1, <3>3, <3>4, <3>5 DEF KillsFollowSnapshots
  <2>5. CASE TakeCommand \/ Preempt
    <3>1. /\ cmds # <<>> /\ Begin(Head(cmds)) /\ cmds' = Tail(cmds)
          /\ UNCHANGED <<shown, dialog, out, events>>
      BY <2>5 DEF TakeCommand, Preempt, viewVars
    <3>2. Elems(cmds) = Elems(cmds') \cup {cur'}
      BY <1>0, <3>1, TakeElems
    <3> QED BY <1>1, <2>1, <3>1, <3>2 DEF KillsFollowSnapshots
  <2>6. CASE Connect
    <3>1. UNCHANGED <<shown, dialog, cmds, events>> /\ cur' \in {cur, Idle}
          /\ (out' = out \/ out'.kind = "Error")
      BY <2>6 DEF Connect, Emit, Event, viewVars
    <3> QED BY <1>1, <1>2, <2>1, <3>1 DEF KillsFollowSnapshots
  <2>7. CASE Send
    <3>1. Elems(events') = Elems(events) \cup {out}
      BY <1>0, <2>7, SendElems
    <3>2. out' = Idle /\ UNCHANGED <<shown, dialog, cmds, cur>>
      BY <2>7 DEF Send, viewVars
    <3> QED BY <1>1, <1>2, <2>1, <3>1, <3>2 DEF KillsFollowSnapshots
  <2>8. CASE MonitorQuiet
    BY <1>1, <2>1, <2>8 DEF KillsFollowSnapshots, MonitorQuiet, monitorVars, viewVars, taskVars
  <2> QED BY <2>2, <2>3, <2>4, <2>5, <2>6, <2>7, <2>8 DEF MonitorNext, View, Task
<1> QED BY <1>4, <1>5

(* The step that dispatches a refresh, as the lemmas below use it.         *)
LEMMA Dispatched ==
    ASSUME MonitorIInv, ManualRefresh \/ (OnEvent /\ TakeKillResult(Head(events))), Room
    PROVE  /\ gen \in Nat /\ gen' = gen + 1 /\ Refresh(gen + 1) \in Cmds
           /\ cmds' = Append(cmds, Refresh(gen + 1)) /\ awaitingRefresh' = TRUE
           /\ Elems(cmds') = Elems(cmds) \cup {Refresh(gen + 1)}
           /\ cur' = cur /\ out' = out /\ UNCHANGED <<taskVars, confirmed>>
<1>1. TypeInv /\ MonitorTypeOK /\ gen \in Nat
  BY DEF MonitorIInv, TruthInv, TypeInv, MonitorTypeOK, Gens
<1>2. PICK was : DispatchRefresh(was)
  BY DEF ManualRefresh, OnEvent, TakeKillResult
<1>3. gen + 1 \in Gens
  BY <1>1, ViewKeepsTypeInv, DispatchStaysInGens DEF View
<1>4. gen' = gen + 1 /\ cmds' = Append(cmds, Refresh(gen + 1)) /\ awaitingRefresh' = TRUE
  BY <1>2 DEF DispatchRefresh
<1>5. Elems(cmds') = Elems(cmds) \cup {Refresh(gen + 1)}
  BY <1>1, <1>2, <1>3, DispatchElems
<1>6. UNCHANGED <<taskVars, confirmed>>
  BY DEF ManualRefresh, OnEvent
<1>7. Refresh(gen + 1) \in Cmds
  BY <1>3 DEF Refresh, Cmds
<1> QED BY <1>1, <1>4, <1>5, <1>6, <1>7 DEF taskVars

LEMMA LastIsLastStep ==
    ASSUME MonitorIInv, MonitorNext, ChanCap > MaxKills
    PROVE  LastIsLast'
<1>0. TypeInv /\ MonitorTypeOK /\ LastIsLast /\ NothingNewer /\ TaskShape
      /\ cmds \in Seq(Cmds) /\ DOMAIN cmds = 1 .. Len(cmds) /\ Len(cmds) \in Nat
  BY DEF MonitorIInv, TruthInv, TypeInv, MonitorTypeOK
<1>1. Idle.kind # "Refresh"
  BY DEF Idle
<1>2. CASE ManualRefresh \/ (OnEvent /\ TakeKillResult(Head(events)))
  <2>1. /\ gen \in Nat /\ gen' = gen + 1 /\ Refresh(gen + 1) \in Cmds
        /\ cmds' = Append(cmds, Refresh(gen + 1)) /\ cur' = cur
    BY <1>2, Dispatched, RoomForAll
  <2>2. /\ DOMAIN cmds' = 1 .. Len(cmds) + 1
        /\ \A i \in 1 .. Len(cmds) : cmds'[i] = cmds[i]
    BY <1>0, <2>1
  <2>3. ASSUME NEW c \in Pending, c.kind = "Refresh" PROVE c.gen # gen'
    <3>1. c \in Cmds /\ c # Idle
      BY <1>0, <1>1, <2>3, InFlightTypes
    <3>2. c.gen <= gen /\ c.gen \in Nat
      BY <1>0, <3>1 DEF NothingNewer, Cmds, Gens
    <3> QED BY <2>1, <3>2
  <2>4. cur \in Pending /\ \A i \in 1 .. Len(cmds) : cmds[i] \in Pending
    BY <1>0 DEF Pending
  <2>5. cur'.kind = "Refresh" => cur'.gen # gen'
    BY <2>1, <2>3, <2>4
  <2>6. \A i, j \in DOMAIN cmds' : i < j /\ cmds'[i].kind = "Refresh" => cmds'[i].gen # gen'
    <3>1. \A i, j \in DOMAIN cmds' : i < j => i \in 1 .. Len(cmds)
      BY <1>0, <2>2
    <3> QED BY <2>2, <2>3, <2>4, <3>1
  <2> QED BY <2>5, <2>6 DEF LastIsLast
<1>3. CASE OnEvent /\ (TakeData(Head(events)) \/ TakeError(Head(events)))
  BY <1>0, <1>3 DEF OnEvent, TakeData, TakeError, LastIsLast, taskVars
<1>4. CASE ConfirmKill
  <2> DEFINE c == Kill(gen, dialog.pid)
  <2>1. c \in Cmds /\ c.kind = "Kill"
    BY <1>0 DEF MonitorTypeOK, Kill, Cmds
  <2>2. UNCHANGED <<gen, cur>> /\ cmds' = Append(cmds, c)
    BY <1>4, RoomForAll DEF ConfirmKill, viewVars, taskVars
  <2>3. /\ DOMAIN cmds' = 1 .. Len(cmds) + 1 /\ cmds'[Len(cmds) + 1].kind = "Kill"
        /\ \A i \in 1 .. Len(cmds) : cmds'[i] = cmds[i]
    BY <1>0, <2>1, <2>2
  <2>4. \A i \in DOMAIN cmds' : i \in DOMAIN cmds \/ i = Len(cmds) + 1
    BY <1>0, <2>3
  <2>5. \A i, j \in DOMAIN cmds' : i < j /\ j \in DOMAIN cmds => i \in DOMAIN cmds
    BY <1>0, <2>3
  <2> HIDE DEF c
  <2>6. \A i \in DOMAIN cmds : cmds'[i] = cmds[i]
    BY <1>0, <2>3
  <2>7. cur'.kind = "Refresh" /\ cur'.gen = gen' => \A j \in DOMAIN cmds' : cmds'[j].kind = "Kill"
    BY <1>0, <2>2, <2>3, <2>4, <2>6 DEF LastIsLast
  <2>8. ASSUME NEW i \in DOMAIN cmds', NEW j \in DOMAIN cmds', i < j,
               cmds'[i].kind = "Refresh", cmds'[i].gen = gen'
        PROVE  cmds'[j].kind = "Kill"
    <3>1. CASE j = Len(cmds) + 1
      BY <2>3, <3>1
    <3>2. CASE j \in DOMAIN cmds
      <4>1. i \in DOMAIN cmds
        BY <2>5, <2>8, <3>2
      <4>2. cmds[i].kind = "Refresh" /\ cmds[i].gen = gen
        BY <2>2, <2>6, <2>8, <4>1
      <4>3. cmds[j].kind = "Kill"
        BY <1>0, <2>8, <3>2, <4>1, <4>2 DEF LastIsLast
      <4> QED BY <2>6, <3>2, <4>3
    <3> QED BY <2>4, <3>1, <3>2
  <2> QED BY <2>7, <2>8 DEF LastIsLast
<1>5. CASE TakeCommand \/ Preempt
  <2>1. /\ cmds # <<>> /\ cur' = Head(cmds) /\ cmds' = Tail(cmds) /\ gen' = gen
    BY <1>5 DEF TakeCommand, Preempt, Begin, viewVars
  <2>2. /\ DOMAIN cmds' = 1 .. Len(cmds) - 1 /\ cur' = cmds[1] /\ 1 \in DOMAIN cmds
        /\ \A i \in DOMAIN cmds' : cmds'[i] = cmds[i + 1] /\ i + 1 \in DOMAIN cmds /\ 1 < i + 1
        /\ \A i, j \in DOMAIN cmds' : i < j => i + 1 < j + 1
    BY <1>0, <2>1
  <2>3. cur'.kind = "Refresh" /\ cur'.gen = gen' => \A j \in DOMAIN cmds' : cmds'[j].kind = "Kill"
    BY <1>0, <2>1, <2>2 DEF LastIsLast
  <2>4. ASSUME NEW i \in DOMAIN cmds', NEW j \in DOMAIN cmds', i < j,
               cmds'[i].kind = "Refresh", cmds'[i].gen = gen'
        PROVE  cmds'[j].kind = "Kill"
    <3>1. cmds[i + 1].kind = "Refresh" /\ cmds[i + 1].gen = gen /\ i + 1 < j + 1
      BY <2>1, <2>2, <2>4
    <3>2. cmds[j + 1].kind = "Kill"
      BY <1>0, <2>2, <3>1 DEF LastIsLast
    <3> QED BY <2>2, <3>2
  <2> QED BY <2>3, <2>4 DEF LastIsLast
<1>6. CASE Connect \/ RefreshDone \/ KillDone \/ Send
  <2>1. UNCHANGED <<gen, cmds>> /\ cur' \in {cur, Idle}
    BY <1>6 DEF Connect, RefreshDone, KillDone, Send, Emit, viewVars
  <2> QED BY <1>0, <1>1, <2>1 DEF LastIsLast
<1>7. CASE CancelDialog \/ (\E p \in Pids : RequestKill(p)) \/ MonitorQuiet
  <2>1. UNCHANGED <<gen, cmds, cur>>
    BY <1>7 DEF CancelDialog, RequestKill, MonitorQuiet, monitorVars, viewVars, taskVars
  <2> QED BY <1>0, <2>1 DEF LastIsLast
<1> QED BY <1>2, <1>3, <1>4, <1>5, <1>6, <1>7 DEF MonitorNext, View, Task, OnEvent

LEMMA ChannelsHoldStep ==
    ASSUME MonitorIInv, MonitorNext, ChanCap > MaxKills
    PROVE  ChannelsHold'
<1> DEFINE n == Len(cmds)
           m == Len(events)
           c == IF cur = Idle THEN 0 ELSE 1
           o == IF out = Idle THEN 0 ELSE 1
           a == IF awaitingRefresh THEN 1 ELSE 0
<1>0. TypeInv /\ MonitorTypeOK /\ TaskShape /\ cmds \in Seq(Cmds) /\ events \in Seq(Events)
  BY DEF MonitorIInv, TruthInv, TypeInv, MonitorTypeOK
<1>1. /\ n \in Nat /\ m \in Nat /\ c \in {0, 1} /\ o \in {0, 1} /\ a \in {0, 1} /\ a' \in {0, 1}
      /\ confirmed \in Nat
  BY <1>0 DEF MonitorTypeOK
<1>2. n + m + c + o <= confirmed + a
  BY DEF MonitorIInv, ChannelsHold, InFlight
<1>3. n' + m' + c' + o' <= confirmed' + a' => ChannelsHold'
  BY DEF ChannelsHold, InFlight
<1>4. CASE ManualRefresh
  <2>1. n' = n + 1
    BY <1>0, <1>4, Dispatched, RoomForAll
  <2>2. m' = m /\ c' = c /\ o' = o /\ confirmed' = confirmed
    BY <1>4 DEF ManualRefresh, taskVars
  <2>3. a = 0 /\ a' = 1
    BY <1>4, Dispatched, RoomForAll, Zenon DEF ManualRefresh
  <2> HIDE DEF n, m, c, o, a
  <2> QED BY <1>1, <1>2, <1>3, <2>1, <2>2, <2>3
<1>5. CASE OnEvent /\ TakeKillResult(Head(events))
  <2>1. n' = n + 1
    BY <1>0, <1>5, Dispatched, RoomForAll
  <2>2. c' = c /\ o' = o /\ confirmed' = confirmed
    BY <1>5 DEF OnEvent, taskVars
  <2>3. m' = m - 1
    BY <1>0, <1>5 DEF OnEvent
  <2>4. a' = 1
    BY <1>5, Dispatched, RoomForAll, Zenon
  <2> HIDE DEF n, m, c, o, a
  <2> QED BY <1>1, <1>2, <1>3, <2>1, <2>2, <2>3, <2>4
<1>6. CASE OnEvent /\ (TakeData(Head(events)) \/ TakeError(Head(events)))
  <2>1. n' = n /\ c' = c /\ o' = o /\ confirmed' = confirmed
    BY <1>6 DEF OnEvent, TakeData, TakeError, taskVars
  <2>2. m' = m - 1
    BY <1>0, <1>6 DEF OnEvent
  <2> HIDE DEF n, m, c, o, a
  <2>3. n + (m - 1) + c + o <= confirmed
    BY <1>1, <1>2
  <2>4. CASE a' = 0
    BY <1>1, <1>3, <2>1, <2>2, <2>3, <2>4
  <2>5. CASE a' = 1
    BY <1>1, <1>3, <2>1, <2>2, <2>3, <2>5
  <2> QED BY <1>1, <2>4, <2>5
<1>7. CASE ConfirmKill
  <2>1. Kill(gen, dialog.pid) \in Cmds
    BY <1>0 DEF MonitorTypeOK, Kill, Cmds
  <2>2. n' = n + 1
    BY <1>0, <1>7, <2>1, RoomForAll DEF ConfirmKill
  <2>3. m' = m /\ c' = c /\ o' = o /\ a' = a /\ confirmed' = confirmed + 1
    BY <1>7 DEF ConfirmKill, viewVars, taskVars
  <2> HIDE DEF n, m, c, o, a
  <2> QED BY <1>1, <1>2, <1>3, <2>2, <2>3
<1>8. CASE TakeCommand \/ Preempt
  <2>1. cmds # <<>> /\ cmds' = Tail(cmds)
    BY <1>8 DEF TakeCommand, Preempt
  <2>2. n' = n - 1
    BY <1>0, <2>1
  <2>3. m' = m /\ o' = o /\ a' = a /\ confirmed' = confirmed /\ c' \in {0, 1}
    BY <1>8 DEF TakeCommand, Preempt, viewVars
  <2> HIDE DEF n, m, c, o, a
  <2>4. (n - 1) + m + 1 + o <= confirmed + a /\ (n - 1) + m + 0 + o <= confirmed + a
    <3>1. CASE c = 0
      BY <1>1, <1>2, <3>1
    <3>2. CASE c = 1
      BY <1>1, <1>2, <3>2
    <3> QED BY <1>1, <3>1, <3>2
  <2>5. CASE c' = 0
    <3>1. n' + m' + c' + o' <= confirmed' + a'
      BY ONLY <2>2, <2>3, <2>4, <2>5
    <3> QED BY <1>3, <3>1
  <2>6. CASE c' = 1
    <3>1. n' + m' + c' + o' <= confirmed' + a'
      BY ONLY <2>2, <2>3, <2>4, <2>6
    <3> QED BY <1>3, <3>1
  <2> QED BY <2>3, <2>5, <2>6
<1>9. CASE Connect \/ RefreshDone \/ KillDone
  <2>1. n' = n /\ m' = m /\ a' = a /\ confirmed' = confirmed
    BY <1>9 DEF Connect, RefreshDone, KillDone, viewVars
  <2>2. (c' = c /\ o' = o) \/ (c = 1 /\ c' = 0 /\ o' \in {0, 1})
    <3>1. cur # Idle
      BY <1>0, <1>9 DEF Connect, RefreshDone, KillDone, TaskShape
    <3>2. UNCHANGED <<cur, out>> \/ cur' = Idle
      BY <1>9 DEF Connect, RefreshDone, KillDone, Emit
    <3> QED BY <3>1, <3>2
  <2> HIDE DEF n, m, c, o, a
  <2> QED BY <1>1, <1>2, <1>3, <2>1, <2>2
<1>10. CASE Send
  <2>1. out \in Events /\ out # Idle
    BY <1>0, <1>10 DEF Send, MonitorTypeOK, TaskShape
  <2>2. m' = m + 1
    BY <1>0, <1>10, <2>1 DEF Send
  <2>3. n' = n /\ c' = c /\ a' = a /\ confirmed' = confirmed
    BY <1>10 DEF Send, viewVars
  <2>4. o = 1 /\ o' = 0
    BY <1>10, <2>1 DEF Send
  <2> HIDE DEF n, m, c, o, a
  <2> QED BY <1>1, <1>2, <1>3, <2>2, <2>3, <2>4
<1>11. CASE CancelDialog \/ (\E p \in Pids : RequestKill(p)) \/ MonitorQuiet
  <2>1. n' = n /\ m' = m /\ c' = c /\ o' = o /\ a' = a /\ confirmed' = confirmed
    BY <1>11 DEF CancelDialog, RequestKill, MonitorQuiet, monitorVars, viewVars, taskVars
  <2> HIDE DEF n, m, c, o, a
  <2> QED BY <1>2, <1>3, <2>1
<1> QED BY <1>4, <1>5, <1>6, <1>7, <1>8, <1>9, <1>10, <1>11 DEF MonitorNext, View, Task, OnEvent

(* The answers that a command or an event in flight may still become.      *)
LEMMA WaitsStep ==
    ASSUME MonitorIInv, MonitorNext, ChanCap > MaxKills
    PROVE  AwaitingIsAnswered' /\ DialogIsResolved'
<1> DEFINE Replies(c) == c.kind = "Kill" \/ (c.kind = "Refresh" /\ c.gen = gen)
           Answered(e) == e.kind \in {"KillOk", "KillErr"} \/ (e.kind \in {"Data", "Error"} /\ e.gen = gen)
           Kills(c) == c.kind = "Kill" /\ c.pid = dialog.pid
           Killed(e) == e.kind \in {"KillOk", "KillErr"} /\ e.pid = dialog.pid
<1>0. TypeInv /\ MonitorTypeOK /\ TaskShape /\ LastIsLast /\ KillsFollowSnapshots /\ cmds \in Seq(Cmds)
  BY DEF MonitorIInv, TruthInv, TypeInv, MonitorTypeOK
<1>1. /\ Pending = Elems(cmds) \cup {cur} /\ Coming = Elems(events) \cup {out}
      /\ Pending' = Elems(cmds') \cup {cur'} /\ Coming' = Elems(events') \cup {out'}
  BY DEF Pending, Coming, Elems
<1>2. Idle.kind = "none"
  BY DEF Idle
<1>3. /\ awaitingRefresh => (\E c \in Pending : Replies(c)) \/ (\E e \in Coming : Answered(e))
      /\ dialog.dispatched => (\E c \in Pending : Kills(c)) \/ (\E e \in Coming : Killed(e))
  BY DEF MonitorIInv, AwaitingIsAnswered, DialogIsResolved
<1>4. CASE ManualRefresh \/ (OnEvent /\ TakeKillResult(Head(events)))
  <2>1. /\ Elems(cmds') = Elems(cmds) \cup {Refresh(gen + 1)} /\ gen' = gen + 1
        /\ cur' = cur /\ out' = out
    BY <1>4, Dispatched, RoomForAll
  <2>2. Pending' = Pending \cup {Refresh(gen + 1)}
    BY <1>1, <2>1
  <2>3. AwaitingIsAnswered'
    <3>1. Refresh(gen + 1).kind = "Refresh" /\ Refresh(gen + 1).gen = gen'
      BY <2>1 DEF Refresh
    <3> QED BY <2>2, <3>1 DEF AwaitingIsAnswered
  <2>4. DialogIsResolved'
    <3>1. CASE ManualRefresh
      <4>1. dialog' = dialog /\ Coming' = Coming
        BY <1>1, <2>1, <3>1 DEF ManualRefresh
      <4> QED BY <1>3, <2>2, <4>1 DEF DialogIsResolved
    <3>2. CASE OnEvent /\ TakeKillResult(Head(events))
      <4> DEFINE e == Head(events)
      <4>1. Elems(events) = Elems(events') \cup {e}
        BY <1>0, <3>2, DrainElems
      <4>2. CASE dialog.pid = e.pid
        <5>1. ~dialog'.dispatched
          BY <1>0, <3>2, <4>2 DEF TakeKillResult, NoDialog, MonitorTypeOK
        <5> QED BY <5>1 DEF DialogIsResolved
      <4>3. CASE dialog.pid # e.pid
        <5>1. dialog' = dialog
          BY <3>2, <4>3 DEF TakeKillResult
        <5>2. ~Killed(e)
          BY <4>3
        <5>3. \A x \in Coming : x \in Coming' \/ x = e
          BY <1>1, <2>1, <4>1
        <5> HIDE DEF e
        <5> QED BY <1>3, <2>2, <5>1, <5>2, <5>3 DEF DialogIsResolved
      <4> QED BY <4>2, <4>3
    <3> QED BY <1>4, <3>1, <3>2
  <2> QED BY <2>3, <2>4
<1>5. CASE OnEvent /\ (TakeData(Head(events)) \/ TakeError(Head(events)))
  <2> DEFINE e == Head(events)
  <2>1. Elems(events) = Elems(events') \cup {e}
    BY <1>0, <1>5, DrainElems
  <2>2. UNCHANGED <<gen, dialog, cmds, cur, out>> /\ e.kind \in {"Data", "Error"}
    BY <1>5 DEF OnEvent, TakeData, TakeError, taskVars
  <2>3. Pending' = Pending /\ \A x \in Coming : x \in Coming' \/ x = e
    BY <1>1, <2>1, <2>2
  <2>4. awaitingRefresh' => awaitingRefresh /\ e.gen # gen
    BY <1>5 DEF TakeData, TakeError
  <2>5. e.kind # "KillOk" /\ e.kind # "KillErr"
    BY <2>2
  <2> HIDE DEF e
  <2>6. AwaitingIsAnswered'
    BY <1>3, <2>2, <2>3, <2>4, <2>5 DEF AwaitingIsAnswered
  <2>7. DialogIsResolved'
    BY <1>3, <2>2, <2>3, <2>5 DEF DialogIsResolved
  <2> QED BY <2>6, <2>7
<1>6. CASE ConfirmKill
  <2> DEFINE theKill == Kill(gen, dialog.pid)
  <2>1. theKill \in Cmds /\ theKill.kind = "Kill" /\ theKill.pid = dialog.pid
    BY <1>0 DEF MonitorTypeOK, Kill, Cmds
  <2>2. cmds' = Append(cmds, theKill) /\ cur' = cur
    BY <1>6, RoomForAll DEF ConfirmKill, taskVars
  <2>3. theKill \in Pending'
    BY <1>0, <1>1, <2>1, <2>2, ElemsAppend
  <2>4. dialog'.pid = dialog.pid
    BY <1>0, <1>6 DEF ConfirmKill, MonitorTypeOK
  <2> QED BY <2>1, <2>3, <2>4 DEF AwaitingIsAnswered, DialogIsResolved
<1>7. CASE TakeCommand \/ Preempt
  <2>1. /\ cmds # <<>> /\ Begin(Head(cmds)) /\ cmds' = Tail(cmds)
        /\ UNCHANGED <<gen, awaitingRefresh, dialog, out, events>>
    BY <1>7 DEF TakeCommand, Preempt, viewVars
  <2>2. Elems(cmds) = Elems(cmds') \cup {cur'} /\ cur' = Head(cmds)
    BY <1>0, <2>1, TakeElems
  <2>3. Pending' = Elems(cmds) /\ Coming' = Coming
    BY <1>1, <2>1, <2>2
  <2>4. cur = Idle \/ cur.kind = "Refresh"
    BY <1>0, <1>7 DEF TakeCommand, Preempt, TaskShape
  <2>5. DialogIsResolved'
    BY <1>1, <1>2, <1>3, <2>1, <2>3, <2>4 DEF DialogIsResolved
  <2>6. AwaitingIsAnswered'
    <3>1. CASE cur.kind = "Refresh" /\ cur.gen = gen
      <4>1. Head(cmds) = cmds[1] /\ 1 \in DOMAIN cmds
        BY <1>0, <2>1
      <4>2. Head(cmds).kind = "Kill" /\ Head(cmds) \in Pending'
        BY <1>0, <2>2, <2>3, <3>1, <4>1 DEF LastIsLast
      <4> QED BY <4>2 DEF AwaitingIsAnswered
    <3>2. CASE ~(cur.kind = "Refresh" /\ cur.gen = gen)
      BY <1>1, <1>2, <1>3, <2>1, <2>3, <2>4, <3>2 DEF AwaitingIsAnswered
    <3> QED BY <3>1, <3>2
  <2> QED BY <2>5, <2>6
<1>8. CASE Connect \/ RefreshDone \/ KillDone
  <2>1. UNCHANGED <<gen, awaitingRefresh, dialog, cmds, events>>
    BY <1>8 DEF Connect, RefreshDone, KillDone, viewVars
  <2>2. CASE UNCHANGED <<cur, out>>
    <3>1. Pending' = Pending /\ Coming' = Coming
      BY <1>1, <2>1, <2>2
    <3> QED BY <1>3, <2>1, <3>1 DEF AwaitingIsAnswered, DialogIsResolved
  <2>3. CASE ~UNCHANGED <<cur, out>>
    <3>1. out = Idle /\ \A e \in Coming : e \in Coming' \/ e = Idle
      BY <1>0, <1>1, <1>8, <2>1 DEF Connect, RefreshDone, KillDone, TaskShape
    <3>2. out' \in Coming' /\ \A c \in Pending : c \in Pending' \/ c = cur
      BY <1>1, <2>1
    <3>3. /\ cur.kind = "Kill" => out'.kind \in {"KillOk", "KillErr"} /\ out'.pid = cur.pid
          /\ cur.kind = "Refresh" => out'.kind \in {"Data", "Error"} /\ out'.gen = cur.gen
      <4>1. CASE Connect
        <5>1. cur.kind # "Kill"
          BY <1>0, <1>1, <4>1 DEF Connect, TaskShape, KillsFollowSnapshots
        <5>2. out'.kind = "Error" /\ out'.gen = cur.gen
          BY <2>3, <4>1 DEF Connect, Emit, Event
        <5> QED BY <5>1, <5>2
      <4>2. CASE RefreshDone
        BY <1>0, <4>2 DEF RefreshDone, Emit, Event, TaskShape
      <4>3. CASE KillDone
        BY <1>0, <4>3 DEF KillDone, Emit, Event, TaskShape
      <4> QED BY <1>8, <4>1, <4>2, <4>3
    <3>4. AwaitingIsAnswered'
      BY <1>2, <1>3, <2>1, <3>1, <3>2, <3>3 DEF AwaitingIsAnswered
    <3>5. DialogIsResolved'
      BY <1>2, <1>3, <2>1, <3>1, <3>2, <3>3 DEF DialogIsResolved
    <3> QED BY <3>4, <3>5
  <2> QED BY <2>2, <2>3
<1>9. CASE Send
  <2>1. Elems(events') = Elems(events) \cup {out} /\ UNCHANGED <<gen, awaitingRefresh, dialog, cmds, cur>>
    BY <1>0, <1>9, SendElems DEF Send, viewVars
  <2>2. Pending' = Pending /\ \A e \in Coming : e \in Coming'
    BY <1>1, <2>1
  <2> QED BY <1>3, <2>1, <2>2 DEF AwaitingIsAnswered, DialogIsResolved
<1>10. CASE CancelDialog \/ (\E p \in Pids : RequestKill(p)) \/ MonitorQuiet
  <2>1. UNCHANGED <<gen, awaitingRefresh, cmds, cur, out, events>>
    BY <1>10 DEF CancelDialog, RequestKill, MonitorQuiet, monitorVars, viewVars, taskVars
  <2>2. dialog' = dialog \/ dialog'.dispatched = FALSE
    BY <1>10 DEF CancelDialog, RequestKill, NoDialog, MonitorQuiet, monitorVars
  <2>3. Pending' = Pending /\ Coming' = Coming
    BY <1>1, <2>1
  <2> QED BY <1>3, <2>1, <2>2, <2>3 DEF AwaitingIsAnswered, DialogIsResolved
<1> QED BY <1>4, <1>5, <1>6, <1>7, <1>8, <1>9, <1>10 DEF MonitorNext, View, Task, OnEvent

LEMMA InitIInv == MonitorInit => MonitorIInv
<1> SUFFICES ASSUME MonitorInit PROVE MonitorIInv
  OBVIOUS
<1>1. TruthInv
  BY InitTruthInv
<1>2. Pending = {Refresh(1), Idle} /\ Coming = {Idle}
  BY DEF MonitorInit, Pending, Coming
<1>3. Refresh(1).kind = "Refresh" /\ Refresh(1).gen = 1 /\ Idle.kind = "none"
  BY DEF Refresh, Idle
<1>4. KillsFollowSnapshots
  BY <1>2, <1>3 DEF MonitorInit, KillsFollowSnapshots
<1>5. LastIsLast
  BY <1>3 DEF MonitorInit, LastIsLast
<1>6. ChannelsHold
  BY DEF MonitorInit, ChannelsHold, InFlight
<1>7. AwaitingIsAnswered
  BY <1>2, <1>3 DEF MonitorInit, AwaitingIsAnswered
<1>8. DialogIsResolved
  BY DEF MonitorInit, DialogIsResolved, NoDialog
<1> QED BY <1>1, <1>4, <1>5, <1>6, <1>7, <1>8 DEF MonitorIInv

LEMMA IInvStep ==
    ASSUME ChanCap > MaxKills
    PROVE  MonitorIInv /\ [MonitorNext]_monitorVars => MonitorIInv'
<1> SUFFICES ASSUME MonitorIInv, [MonitorNext]_monitorVars PROVE MonitorIInv'
  OBVIOUS
<1>1. TruthInv'
  BY TruthStep DEF MonitorIInv
<1>2. CASE MonitorNext
  BY <1>1, <1>2, SnapshotsStep, LastIsLastStep, ChannelsHoldStep, WaitsStep DEF MonitorIInv
<1>3. CASE UNCHANGED monitorVars
  BY <1>1, <1>3 DEF MonitorIInv, KillsFollowSnapshots, LastIsLast, ChannelsHold, InFlight,
                    AwaitingIsAnswered, DialogIsResolved, Pending, Coming, monitorVars, viewVars, taskVars
<1> QED BY <1>2, <1>3

(* The auto-refresh never dies and the kill dialog is never wedged, as     *)
(* long as the user confirms fewer kills than the command channel holds.   *)
THEOREM WaitsAreAnswered ==
    ASSUME ChanCap > MaxKills
    PROVE  MonitorSpec => []MonitorInv
<1>1. MonitorIInv => MonitorInv
  BY DEF MonitorIInv, TruthInv, TypeInv, MonitorInv
<1>2. MonitorIInv /\ [MonitorNext]_monitorVars => MonitorIInv'
  BY IInvStep
<1> QED BY <1>1, <1>2, InitIInv, PTL DEF MonitorSpec
=============================================================================
