----------------------------- MODULE SessionProofs -----------------------------
(***************************************************************************)
(* Lemmas about Session: what a statement that ends does to its session,   *)
(* and what every step of the server preserves of a pipeline that holds    *)
(* one transaction's statements in order.                                  *)
(***************************************************************************)
EXTENDS Session, SequenceTheorems, TLAPS

(* The answers of a statement that has taken effect. *)
Effective == {"ok", "mismatch"}

(* The head of a pipeline finds the transaction its client left: BEGIN     *)
(* none, write k the writes before it, COMMIT all of them.                 *)
HeadOK(t) ==
    LET st == t.queue[1]
    IN  /\ st.op # "READ"
        /\ st.op = "BEGIN"  => t.tx = "none" /\ t.staged = {}
        /\ st.op = "WRITE"  => st.id \in Stmts /\ t.tx = "open" /\ t.staged = 1 .. st.id - 1
        /\ st.op = "COMMIT" => t.tx = "open" /\ t.staged = Stmts

(* A pipeline holds one statement, and perhaps a ROLLBACK behind it; a     *)
(* session that is not open has no transaction and nothing to do.          *)
PipelineOK(t) ==
    /\ t.state # "open" => t = Fresh(t.state)
    /\ Len(t.queue) <= 2
    /\ Len(t.queue) = 2 => t.queue[2].op = "ROLLBACK"
    /\ t.queue # <<>> => HeadOK(t)

PipelinesOK == \A s \in Sessions : PipelineOK(sess[s])

-----------------------------------------------------------------------------
LEMMA FreshType ==
    ASSUME NEW state \in {"unopened", "open", "closed"}
    PROVE  /\ Fresh(state) \in SessionStates /\ PipelineOK(Fresh(state))
           /\ Fresh(state).state = state /\ Fresh(state).queue = <<>>
           /\ Fresh(state).tx = "none" /\ Fresh(state).staged = {}
<1>1. Fresh(state) \in SessionStates
  BY DEF Fresh, SessionStates
<1>2. /\ Fresh(state).state = state /\ Fresh(state).queue = <<>>
      /\ Fresh(state).tx = "none" /\ Fresh(state).staged = {}
  BY DEF Fresh
<1>3. PipelineOK(Fresh(state))
  BY <1>2 DEF PipelineOK
<1> QED BY <1>1, <1>2, <1>3

LEMMA EmptyPipeline ==
    ASSUME NEW t, t.state = "open", t.queue = <<>>
    PROVE  PipelineOK(t)
BY DEF PipelineOK

LEMMA OneInPipeline ==
    ASSUME NEW t, t.state = "open", Len(t.queue) = 1, HeadOK(t)
    PROVE  PipelineOK(t)
BY DEF PipelineOK

LEMMA TwoInPipeline ==
    ASSUME NEW t, t.state = "open", Len(t.queue) = 2, t.queue[2].op = "ROLLBACK", HeadOK(t)
    PROVE  PipelineOK(t)
BY DEF PipelineOK

LEMMA EndedType ==
    ASSUME NEW t \in SessionStates
    PROVE  /\ Ended(t) \in SessionStates /\ Ended(t).state = t.state /\ Ended(t).queue = t.queue
BY DEF Ended, SessionStates

LEMMA AfterErrorType ==
    ASSUME NEW t \in SessionStates
    PROVE  /\ AfterError(t) \in SessionStates
           /\ AfterError(t).state = t.state /\ AfterError(t).queue = t.queue
           /\ AfterFailedCommit(t) \in SessionStates
           /\ AfterFailedCommit(t).state = t.state /\ AfterFailedCommit(t).queue = t.queue
BY DEF AfterError, AfterFailedCommit, SessionStates

(* How a statement may end: it changes the transaction and nothing else of *)
(* its session, and makes durable what COMMIT says.                        *)
EndedAs(st, t, end) ==
    /\ end[1] \in Answers \ {"none"}
    /\ end[2] \in SessionStates /\ end[2].state = t.state /\ end[2].queue = t.queue
    /\ end[3] \in SUBSET Stmts
    /\ st.op = "BEGIN" =>
         end[3] = {} /\ (end[1] \in Effective => end[2].tx = "open" /\ end[2].staged = t.staged)
    /\ st.op = "WRITE" /\ t.tx = "open" =>
         end[3] = {} /\ (end[1] \in Effective =>
                           end[2].tx = "open" /\ end[2].staged = t.staged \cup {st.id})
    /\ st.op = "COMMIT" /\ t.tx = "open" =>
         IF end[1] = "ok" THEN end[3] = t.staged ELSE end[3] = {}
    /\ st.op = "COMMIT" => end[1] # "mismatch"
    /\ st.op = "ROLLBACK" => end[3] = {}

LEMMA EndsOf ==
    ASSUME NEW s, NEW st \in Statements, NEW t \in SessionStates,
           st.op = "WRITE" => st.id \in Stmts,
           NEW end \in Ends(s, st, t)
    PROVE  EndedAs(st, t, end)
<1> USE DEF EndedAs
<1> DEFINE failed == {<<"error", AfterError(t), {}>>}
                     \cup (IF st.hit THEN {<<"cancelled", AfterError(t), {}>>} ELSE {})
<1>0. \A e \in failed : e[1] \in {"error", "cancelled"} /\ e[2] = AfterError(t) /\ e[3] = {}
  OBVIOUS
<1>1. CASE st.op = "BEGIN"
  <2>1. end \in failed \/ end = <<"ok", [t EXCEPT !.tx = "open"], {}>>
    BY <1>1 DEF Ends
  <2>2. CASE end \in failed
    BY <1>0, <1>1, <2>2, AfterErrorType DEF Answers, Effective
  <2>3. CASE end = <<"ok", [t EXCEPT !.tx = "open"], {}>>
    BY <1>1, <2>3 DEF Answers, Effective, SessionStates
  <2> QED BY <2>1, <2>2, <2>3
<1>2. CASE st.op = "READ"
  <2>1. end \in failed \/ end = <<"ok", t, {}>>
    BY <1>2 DEF Ends
  <2>2. CASE end \in failed
    BY <1>0, <1>2, <2>2, AfterErrorType DEF Answers
  <2>3. CASE end = <<"ok", t, {}>>
    BY <1>2, <2>3 DEF Answers
  <2> QED BY <2>1, <2>2, <2>3
<1>3. CASE st.op = "WRITE"
  <2>1. \/ end \in failed
        \/ t.tx = "open" /\ \E a \in Effective : end = <<a, [t EXCEPT !.staged = @ \cup {st.id}], {}>>
        \/ t.tx # "open" /\ \E a \in Effective : end = <<a, t, {st.id}>>
    BY <1>3 DEF Ends, Effective
  <2>2. CASE end \in failed
    BY <1>0, <1>3, <2>2, AfterErrorType DEF Answers, Effective
  <2>3. CASE t.tx = "open" /\ \E a \in Effective : end = <<a, [t EXCEPT !.staged = @ \cup {st.id}], {}>>
    BY <1>3, <2>3 DEF Answers, Effective, SessionStates
  <2>4. CASE t.tx # "open" /\ \E a \in Effective : end = <<a, t, {st.id}>>
    BY <1>3, <2>4 DEF Answers, Effective
  <2> QED BY <2>1, <2>2, <2>3, <2>4
<1>4. CASE st.op = "COMMIT"
  <2>1. \/ t.tx = "open" /\ end = <<"ok", Ended(t), t.staged>>
        \/ t.tx = "open" /\ \E e \in failed : end = <<e[1], AfterFailedCommit(t), {}>>
        \/ t.tx # "open" /\ end = <<"ok", Ended(t), {}>>
        \/ t.tx # "open" /\ end \in failed
    BY <1>4 DEF Ends
  <2>2. CASE t.tx = "open" /\ end = <<"ok", Ended(t), t.staged>>
    BY <1>4, <2>2, EndedType DEF Answers, SessionStates
  <2>3. CASE t.tx = "open" /\ \E e \in failed : end = <<e[1], AfterFailedCommit(t), {}>>
    <3>1. end[1] \in {"error", "cancelled"} /\ end[2] = AfterFailedCommit(t) /\ end[3] = {}
      BY <1>0, <2>3
    <3> QED BY <1>4, <3>1, AfterErrorType DEF Answers
  <2>4. CASE t.tx # "open" /\ end = <<"ok", Ended(t), {}>>
    BY <1>4, <2>4, EndedType DEF Answers
  <2>5. CASE t.tx # "open" /\ end \in failed
    BY <1>0, <1>4, <2>5, AfterErrorType DEF Answers
  <2> QED BY <2>1, <2>2, <2>3, <2>4, <2>5
<1>5. CASE st.op = "ROLLBACK"
  <2>1. end \in failed \/ end = <<"ok", Ended(t), {}>>
    BY <1>5 DEF Ends
  <2>2. CASE end \in failed
    BY <1>0, <1>5, <2>2, AfterErrorType DEF Answers
  <2>3. CASE end = <<"ok", Ended(t), {}>>
    BY <1>5, <2>3, EndedType DEF Answers
  <2> QED BY <2>1, <2>2, <2>3
<1>6. st.op \in {"BEGIN", "WRITE", "READ", "COMMIT", "ROLLBACK"}
  BY DEF Statements, Ops
<1> QED BY <1>1, <1>2, <1>3, <1>4, <1>5, <1>6

-----------------------------------------------------------------------------
(* The server's steps *)

LEMMA TailOf ==
    ASSUME NEW S, NEW q \in Seq(S), q # <<>>
    PROVE  /\ Len(q) \in Nat \ {0} /\ Head(q) = q[1] /\ q[1] \in S
           /\ Tail(q) \in Seq(S) /\ (Tail(q) = <<>> <=> Len(q) = 1)
           /\ Len(q) = 2 => Len(Tail(q)) = 1 /\ Tail(q)[1] = q[2]
<1>1. /\ Len(q) \in Nat \ {0} /\ Head(q) = q[1] /\ q[1] \in S
  OBVIOUS
<1>2. Tail(q) \in Seq(S) /\ Len(Tail(q)) = Len(q) - 1
      /\ \A i \in 1 .. Len(Tail(q)) : Tail(q)[i] = q[i + 1]
  BY HeadTailProperties
<1>3. Tail(q) = <<>> <=> Len(Tail(q)) = 0
  BY <1>2, EmptySeq
<1> QED BY <1>1, <1>2, <1>3

Others(s) == Sessions \ {s}

(* How statement st of session s ended: with answer a, the session in t.   *)
ServedAs(s, a, t) ==
    LET st == sess[s].queue[1]
    IN  /\ a \in Answers \ {"none"} /\ t \in SessionStates
        /\ sess[s].state = "open" /\ sess[s].queue # <<>>
        /\ sess' = [sess EXCEPT ![s] = t]
        /\ t.state = "open" /\ t.queue = Tail(sess[s].queue)
        /\ st.op \in {"BEGIN", "WRITE", "COMMIT", "ROLLBACK"}
        /\ st.op # "COMMIT" => durable' = durable
        /\ st.op = "COMMIT" => a # "mismatch" /\ durable' = IF a = "ok" THEN durable \cup Stmts ELSE durable
        /\ st.op = "BEGIN" /\ a \in Effective => t.tx = "open" /\ t.staged = {}
        /\ st.op = "WRITE" /\ a \in Effective => t.tx = "open" /\ t.staged = 1 .. st.id
        /\ IF awaiting = s /\ Len(sess[s].queue) = 1
           THEN awaiting' = 0 /\ answer' = a ELSE UNCHANGED <<awaiting, answer>>
        /\ creqs' \in {creqs, creqs + 1} /\ view' \in {durable \cup sess[s].staged, view}
        /\ UNCHANGED <<engine, conn, fired, lost>>

LEMMA QueueType ==
    ASSUME SessionTypeOK, NEW s \in Sessions
    PROVE  /\ sess[s] \in SessionStates /\ sess[s].queue \in Seq(Statements)
           /\ Len(sess[s].queue) \in Nat /\ DOMAIN sess[s].queue = 1 .. Len(sess[s].queue)
           /\ \A j \in 1 .. Len(sess[s].queue) : sess[s].queue[j] \in Statements
           /\ sess[s].staged \in SUBSET Stmts
BY DEF SessionTypeOK, SessionStates

LEMMA ServeEffect ==
    ASSUME SessionTypeOK, PipelinesOK, NEW s \in Sessions, Serve(s)
    PROVE  \E a, t : ServedAs(s, a, t)
<1> DEFINE q == sess[s].queue
           st == q[1]
<1>1. /\ sess[s] \in SessionStates /\ q \in Seq(Statements) /\ q # <<>> /\ sess[s].state = "open"
  BY QueueType DEF Serve
<1>t. /\ Len(q) \in Nat \ {0} /\ Head(q) = st /\ st \in Statements
      /\ Tail(q) \in Seq(Statements) /\ (Tail(q) = <<>> <=> Len(q) = 1)
  BY <1>1, TailOf
<1>2. HeadOK(sess[s])
  BY <1>1 DEF PipelinesOK, PipelineOK
<1>3. st.op = "WRITE" => st.id \in Stmts
  BY <1>2 DEF HeadOK
<1>4. PICK end \in Ends(s, st, sess[s]) :
        /\ sess' = [sess EXCEPT ![s] = [end[2] EXCEPT !.queue = Tail(q)]]
        /\ durable' = durable \cup end[3]
        /\ IF awaiting = s /\ Tail(q) = <<>> THEN awaiting' = 0 /\ answer' = end[1]
                                            ELSE UNCHANGED <<awaiting, answer>>
        /\ view' = IF st.op = "READ" THEN durable \cup sess[s].staged ELSE view
        /\ creqs' \in {creqs, creqs + 1}
  BY <1>1, <1>t DEF Serve
<1> DEFINE a == end[1]
           t == [end[2] EXCEPT !.queue = Tail(q)]
<1>5. /\ a \in Answers \ {"none"} /\ end[2] \in SessionStates /\ end[2].state = "open"
      /\ end[3] \in SUBSET Stmts
      /\ st.op = "BEGIN" =>
            end[3] = {} /\ (a \in Effective => end[2].tx = "open" /\ end[2].staged = sess[s].staged)
      /\ st.op = "WRITE" /\ sess[s].tx = "open" =>
            end[3] = {} /\ (a \in Effective => end[2].tx = "open" /\ end[2].staged = sess[s].staged \cup {st.id})
      /\ st.op = "COMMIT" /\ sess[s].tx = "open" => IF a = "ok" THEN end[3] = sess[s].staged ELSE end[3] = {}
      /\ st.op = "COMMIT" => a # "mismatch"
      /\ st.op = "ROLLBACK" => end[3] = {}
  <2> HIDE DEF q, st
  <2>1. EndedAs(st, sess[s], end)
    BY <1>1, <1>t, <1>3, EndsOf
  <2> QED BY <1>1, <2>1 DEF EndedAs
<1>7. /\ t \in SessionStates /\ t.state = "open" /\ t.queue = Tail(q)
      /\ t.tx = end[2].tx /\ t.staged = end[2].staged
  BY <1>5, <1>t DEF SessionStates
<1>8. st.op \in {"BEGIN", "WRITE", "COMMIT", "ROLLBACK"}
  BY <1>t, <1>2 DEF HeadOK, Statements, Ops
<1>9. st.op = "WRITE" => 1 .. st.id - 1 \cup {st.id} = 1 .. st.id
  <2>1. st.op = "WRITE" => st.id \in Nat \ {0}
    BY <1>3, SessionAssumption
  <2>2. \A n \in Nat \ {0} : 1 .. n - 1 \cup {n} = 1 .. n
    OBVIOUS
  <2> QED BY <2>1, <2>2
<1>10. st.op # "COMMIT" => durable' = durable
  BY <1>2, <1>4, <1>5, <1>8 DEF HeadOK
<1>11. st.op = "COMMIT" => a # "mismatch" /\ durable' = IF a = "ok" THEN durable \cup Stmts ELSE durable
  BY <1>2, <1>4, <1>5 DEF HeadOK
<1>12. st.op = "BEGIN" /\ a \in Effective => t.tx = "open" /\ t.staged = {}
  BY <1>2, <1>5, <1>7 DEF HeadOK
<1>13. st.op = "WRITE" /\ a \in Effective => t.tx = "open" /\ t.staged = 1 .. st.id
  BY <1>2, <1>5, <1>7, <1>9 DEF HeadOK
<1>14. UNCHANGED <<engine, conn, fired, lost>>
  BY DEF Serve
<1>15. ServedAs(s, a, t)
  <2> HIDE DEF a, t
  <2> QED BY <1>1, <1>t, <1>4, <1>5, <1>7, <1>8, <1>10, <1>11, <1>12, <1>13, <1>14 DEF ServedAs, a, t
<1> QED BY <1>15

(* The next statement of a pipeline, if any, is a ROLLBACK.                *)
LEMMA ServedPipeline ==
    ASSUME SessionTypeOK, PipelinesOK, NEW s \in Sessions, NEW a, NEW t, ServedAs(s, a, t)
    PROVE  PipelineOK(t) /\ (t.queue # <<>> => t.queue[1].op = "ROLLBACK" /\ Len(sess[s].queue) = 2)
<1> DEFINE q == sess[s].queue
           u == t.queue
<1>1. q \in Seq(Statements) /\ q # <<>> /\ u = Tail(q) /\ t.state = "open"
  BY QueueType DEF ServedAs
<1>2. Len(q) <= 2 /\ (Len(q) = 2 => q[2].op = "ROLLBACK")
  BY DEF PipelinesOK, PipelineOK
<1>t. /\ Len(q) \in Nat \ {0} /\ (u = <<>> <=> Len(q) = 1)
      /\ Len(q) = 2 => Len(u) = 1 /\ u[1] = q[2]
  <2> HIDE DEF q, u
  <2> QED BY <1>1, TailOf
<1>3. Len(q) = 1 \/ Len(q) = 2
  <2> DEFINE n == Len(q)
  <2>1. n \in Nat \ {0} /\ n <= 2
    BY <1>2, <1>t
  <2> HIDE DEF n
  <2>2. n = 1 \/ n = 2
    BY <2>1
  <2> QED BY <2>2 DEF n
<1>4. CASE Len(q) = 1
  <2>1. u = <<>> /\ Len(u) = 0
    BY <1>t, <1>4
  <2>2. PipelineOK(t)
    BY <1>1, <2>1, EmptyPipeline
  <2> QED BY <2>1, <2>2
<1>5. CASE Len(q) = 2
  <2>1. Len(u) = 1 /\ u[1].op = "ROLLBACK"
    BY <1>2, <1>t, <1>5
  <2>2. HeadOK(t)
    BY <2>1 DEF HeadOK
  <2>3. PipelineOK(t)
    BY <1>1, <2>1, <2>2, OneInPipeline
  <2> QED BY <1>5, <2>1, <2>3
<1> QED BY <1>3, <1>4, <1>5

LEMMA ServeKeeps ==
    ASSUME SessionTypeOK, PipelinesOK, NEW s \in Sessions, NEW a, NEW t, ServedAs(s, a, t)
    PROVE  SessionTypeOK' /\ PipelinesOK'
<1>1. t \in SessionStates /\ PipelineOK(t) /\ sess' = [sess EXCEPT ![s] = t]
  BY ServedPipeline DEF ServedAs
<1>2. sess' \in [Sessions -> SessionStates] /\ \A r \in Sessions : sess'[r] = IF r = s THEN t ELSE sess[r]
  BY <1>1 DEF SessionTypeOK
<1>3. creqs' \in Nat
  BY DEF SessionTypeOK, ServedAs
<1>4. durable' \in SUBSET Stmts /\ view' \in SUBSET Stmts
  <2>1. durable \in SUBSET Stmts /\ view \in SUBSET Stmts /\ sess[s].staged \in SUBSET Stmts
    BY QueueType DEF SessionTypeOK
  <2>2. durable' = durable \/ durable' = durable \cup Stmts
    BY DEF ServedAs
  <2>3. view' = durable \cup sess[s].staged \/ view' = view
    BY DEF ServedAs
  <2> QED BY <2>1, <2>2, <2>3
<1>5. awaiting' \in 0 .. Aside /\ answer' \in Answers
  <2>1. awaiting \in 0 .. Aside /\ answer \in Answers /\ 0 \in 0 .. Aside
    BY SessionAssumption DEF SessionTypeOK, Aside
  <2>2. (awaiting' = awaiting /\ answer' = answer) \/ (awaiting' = 0 /\ answer' = a /\ a \in Answers)
    BY DEF ServedAs
  <2> QED BY <2>1, <2>2
<1>6. /\ engine' \in Engines /\ conn' \in 0 .. MaxSessions
      /\ fired' \in SUBSET Tokens
  BY DEF SessionTypeOK, ServedAs
<1>7. lost' \in BOOLEAN
  BY Zenon DEF SessionTypeOK, ServedAs
<1>8. SessionTypeOK'
  BY <1>2, <1>3, <1>4, <1>5, <1>6, <1>7 DEF SessionTypeOK
<1> QED BY <1>1, <1>2, <1>8 DEF PipelinesOK

(* Sessions that differ at most in what the watchers and CancelRequests    *)
(* left on their statements.                                               *)
Alike(u, v) ==
    /\ v.state = u.state /\ v.tx = u.tx /\ v.staged = u.staged
    /\ Len(v.queue) = Len(u.queue) /\ (v.queue = <<>> <=> u.queue = <<>>)
    /\ \A j \in 1 .. Len(u.queue) : v.queue[j].op = u.queue[j].op /\ v.queue[j].id = u.queue[j].id

Marked ==
    /\ sess' \in [Sessions -> SessionStates]
    /\ \A s \in Sessions : Alike(sess[s], sess'[s])
    /\ creqs' \in Nat
    /\ UNCHANGED <<engine, conn, awaiting, answer, fired, durable, view, lost>>

LEMMA AlikeSelf == ASSUME NEW u PROVE Alike(u, u)
BY DEF Alike

LEMMA AlikeMarked ==
    ASSUME NEW u \in SessionStates, NEW j \in 1 .. Len(u.queue), NEW st \in Statements,
           st.op = u.queue[j].op, st.id = u.queue[j].id
    PROVE  /\ [u EXCEPT !.queue = [@ EXCEPT ![j] = st]] \in SessionStates
           /\ Alike(u, [u EXCEPT !.queue = [@ EXCEPT ![j] = st]])
<1> DEFINE q == u.queue
           p == [q EXCEPT ![j] = st]
           v == [u EXCEPT !.queue = p]
<1>1. q \in Seq(Statements) /\ j \in 1 .. Len(q)
  BY DEF SessionStates
<1>2. /\ p \in Seq(Statements) /\ Len(p) = Len(q)
      /\ \A i \in 1 .. Len(q) : p[i] = IF i = j THEN st ELSE q[i]
  <2> HIDE DEF q
  <2> QED BY <1>1, ExceptSeq
<1>3. /\ v \in SessionStates /\ v.queue = p
      /\ v.state = u.state /\ v.tx = u.tx /\ v.staged = u.staged
  <2> HIDE DEF p
  <2> QED BY <1>2 DEF SessionStates
<1>4. p # <<>> /\ q # <<>>
  <2> HIDE DEF p, q
  <2>1. Len(q) # 0
    BY <1>1, LenProperties DEF q
  <2> QED BY <1>2, <2>1, EmptySeq
<1>5. \A i \in 1 .. Len(q) : p[i].op = q[i].op /\ p[i].id = q[i].id
  BY <1>2
<1>6. Alike(u, v)
  BY <1>2, <1>3, <1>4, <1>5 DEF Alike
<1> QED BY <1>3, <1>6

(* A watcher or a CancelRequest only leaves its mark on a statement.       *)
LEMMA WatchMarks ==
    ASSUME SessionTypeOK, NEW s \in Sessions, Watch(s)
    PROVE  Marked
<1> DEFINE u == sess[s]
           q == u.queue
<1>1. u \in SessionStates /\ \A j \in 1 .. Len(q) : q[j] \in Statements
  BY QueueType
<1>2. PICK j \in 1 .. Len(q) : sess' = [sess EXCEPT ![s].queue[j].asked = TRUE]
  BY DEF Watch
<1> DEFINE st == [q[j] EXCEPT !.asked = TRUE]
           v == [u EXCEPT !.queue = [@ EXCEPT ![j] = st]]
<1>3. st \in Statements /\ st.op = q[j].op /\ st.id = q[j].id
  <2>1. \A x \in Statements : LET y == [x EXCEPT !.asked = TRUE]
                              IN  y \in Statements /\ y.op = x.op /\ y.id = x.id
    BY DEF Statements
  <2> QED BY <1>1, <2>1
<1>4. v \in SessionStates /\ Alike(u, v)
  <2> HIDE DEF st
  <2> QED BY <1>1, <1>3, AlikeMarked
<1>5. sess' = [sess EXCEPT ![s] = v]
  BY <1>2
<1> HIDE DEF v
<1>6. sess' \in [Sessions -> SessionStates] /\ \A r \in Sessions : sess'[r] = IF r = s THEN v ELSE sess[r]
  BY <1>4, <1>5 DEF SessionTypeOK
<1>7. creqs' \in Nat /\ UNCHANGED <<engine, conn, awaiting, answer, fired, durable, view, lost>>
  BY DEF Watch, SessionTypeOK
<1> QED BY <1>4, <1>6, <1>7, AlikeSelf DEF Marked

LEMMA CancelMarks ==
    ASSUME SessionTypeOK, CancelLands
    PROVE  Marked
<1>1. \A s \in Sessions : sess'[s] \in SessionStates /\ Alike(sess[s], sess'[s])
  <2> SUFFICES ASSUME NEW s \in Sessions
               PROVE  sess'[s] \in SessionStates /\ Alike(sess[s], sess'[s])
    OBVIOUS
  <2> DEFINE u == sess[s]
             q == u.queue
  <2>1. u \in SessionStates /\ q \in Seq(Statements) /\ \A j \in 1 .. Len(q) : q[j] \in Statements
    BY QueueType
  <2>2. \/ sess'[s] = u
        \/ q # <<>> /\ sess'[s] = [u EXCEPT !.queue = [@ EXCEPT ![1] = [q[1] EXCEPT !.hit = TRUE]]]
    BY DEF CancelLands
  <2>3. CASE sess'[s] = u
    BY <2>1, <2>3, AlikeSelf
  <2>4. CASE q # <<>> /\ sess'[s] = [u EXCEPT !.queue = [@ EXCEPT ![1] = [q[1] EXCEPT !.hit = TRUE]]]
    <3> DEFINE st == [q[1] EXCEPT !.hit = TRUE]
    <3>1. 1 \in 1 .. Len(q)
      BY <2>1, <2>4, EmptySeq
    <3>2. \A x \in Statements : LET y == [x EXCEPT !.hit = TRUE]
                                IN  y \in Statements /\ y.op = x.op /\ y.id = x.id
      BY DEF Statements
    <3>3. st \in Statements /\ st.op = q[1].op /\ st.id = q[1].id
      BY <2>1, <3>1, <3>2
    <3> DEFINE v == [u EXCEPT !.queue = [@ EXCEPT ![1] = st]]
    <3>4. v \in SessionStates /\ Alike(u, v)
      <4> HIDE DEF st
      <4> QED BY <2>1, <3>1, <3>3, AlikeMarked
    <3>5. sess'[s] = v
      BY <2>4
    <3> HIDE DEF v
    <3> QED BY <3>4, <3>5
  <2> QED BY <2>2, <2>3, <2>4
<1>2. sess' = [s \in Sessions |-> sess'[s]]
  BY DEF CancelLands
<1>3. sess' \in [Sessions -> SessionStates]
  BY <1>1, <1>2
<1>4. creqs' \in Nat
  <2>1. creqs \in Nat /\ creqs > 0 /\ creqs' = creqs - 1
    BY DEF CancelLands, SessionTypeOK
  <2> QED BY <2>1
<1>5. UNCHANGED <<engine, conn, awaiting, answer, fired, durable, view, lost>>
  BY DEF CancelLands
<1> QED BY <1>1, <1>3, <1>4, <1>5 DEF Marked

LEMMA AlikePipeline ==
    ASSUME NEW u \in SessionStates, NEW v \in SessionStates, Alike(u, v), PipelineOK(u)
    PROVE  PipelineOK(v)
<1>1. u.queue \in Seq(Statements) /\ Len(u.queue) \in Nat /\ (u.queue # <<>> => 1 \in 1 .. Len(u.queue))
  BY DEF SessionStates
<1>2. u.queue # <<>> => HeadOK(v)
  <2>1. u.queue # <<>> => HeadOK(u)
    BY DEF PipelineOK
  <2>2. u.queue # <<>> => v.queue[1].op = u.queue[1].op /\ v.queue[1].id = u.queue[1].id
                          /\ v.tx = u.tx /\ v.staged = u.staged
    BY <1>1 DEF Alike
  <2> QED BY <2>1, <2>2 DEF HeadOK
<1>3. v.state # "open" => v = Fresh(v.state)
  <2> SUFFICES ASSUME v.state # "open" PROVE v = Fresh(v.state)
    OBVIOUS
  <2>1. u = Fresh(v.state) /\ u.queue = <<>>
    BY DEF PipelineOK, Alike, Fresh
  <2>2. v.queue = <<>> /\ v.tx = u.tx /\ v.staged = u.staged /\ v.state = u.state
    BY <2>1 DEF Alike
  <2>3. v = [state |-> v.state, tx |-> v.tx, staged |-> v.staged, queue |-> v.queue]
    BY DEF SessionStates
  <2> QED BY <2>1, <2>2, <2>3 DEF Fresh
<1>4. Len(v.queue) <= 2 /\ (Len(v.queue) = 2 => v.queue[2].op = "ROLLBACK")
  BY <1>1 DEF PipelineOK, Alike
<1>5. v.queue # <<>> => HeadOK(v)
  BY <1>2 DEF Alike
<1> QED BY <1>3, <1>4, <1>5 DEF PipelineOK

LEMMA MarkedKeeps ==
    ASSUME SessionTypeOK, PipelinesOK, Marked
    PROVE  SessionTypeOK' /\ PipelinesOK'
<1>1. SessionTypeOK'
  BY DEF SessionTypeOK, Marked
<1>2. PipelinesOK'
  BY QueueType, AlikePipeline DEF PipelinesOK, Marked
<1> QED BY <1>1, <1>2

(* The session's next statement is a COMMIT.                               *)
CommitNext(u) == u.queue # <<>> /\ u.queue[1].op = "COMMIT"

(* Session s closes, or its link is lost with the answer of what it did.   *)
SessionEnds(s) ==
    /\ sess[s].state = "open"
    /\ sess' = [sess EXCEPT ![s] = Fresh("closed")]
    /\ UNCHANGED <<engine, conn, fired, creqs, view>>
    /\ \/ /\ conn # s /\ awaiting # s
          /\ UNCHANGED <<awaiting, answer, durable, lost>>
       \/ /\ conn = s \/ awaiting = s
          /\ lost' = TRUE
          /\ durable' = durable \/ (CommitNext(sess[s]) /\ durable' = durable \cup Stmts)
          /\ IF awaiting = s THEN awaiting' = 0 /\ answer' = "error" ELSE UNCHANGED <<awaiting, answer>>

LEMMA CloseEnds == \A s : Close(s) => SessionEnds(s)
BY DEF Close, SessionEnds

LEMMA LinkLostEnds ==
    ASSUME SessionTypeOK, PipelinesOK, NEW s \in Sessions, LinkLost(s)
    PROVE  SessionEnds(s)
<1> DEFINE q == sess[s].queue
           st == q[1]
<1>1. sess[s] \in SessionStates /\ q \in Seq(Statements) /\ sess[s].state = "open"
  BY QueueType DEF LinkLost
<1>2. durable' = durable \/ (CommitNext(sess[s]) /\ durable' = durable \cup Stmts)
  <2>1. CASE durable' # durable
    <3>1. PICK end \in Ends(s, Head(q), sess[s]) : q # <<>> /\ durable' = durable \cup end[3]
      BY <2>1 DEF LinkLost
    <3>2. Head(q) = st /\ st \in Statements
      <4> HIDE DEF q
      <4> QED BY <1>1, <3>1, TailOf DEF st
    <3>3. HeadOK(sess[s])
      BY <3>1 DEF PipelinesOK, PipelineOK
    <3>4. EndedAs(st, sess[s], end)
      <4>1. st.op = "WRITE" => st.id \in Stmts
        BY <3>3 DEF HeadOK
      <4> HIDE DEF st, q
      <4> QED BY <1>1, <3>1, <3>2, <4>1, EndsOf
    <3>5. st.op \in {"BEGIN", "WRITE", "COMMIT", "ROLLBACK"}
      BY <3>2, <3>3 DEF HeadOK, Statements, Ops
    <3>6. end[3] # {}
      BY <2>1, <3>1
    <3>7. st.op = "COMMIT" /\ end[3] = Stmts
      BY <3>3, <3>4, <3>5, <3>6 DEF HeadOK, EndedAs
    <3> QED BY <3>1, <3>7 DEF CommitNext
  <2> QED BY <2>1
<1>3. /\ sess' = [sess EXCEPT ![s] = Fresh("closed")]
      /\ UNCHANGED <<engine, conn, fired, creqs, view>>
      /\ conn = s \/ awaiting = s
      /\ lost' = TRUE
      /\ IF awaiting = s THEN awaiting' = 0 /\ answer' = "error" ELSE UNCHANGED <<awaiting, answer>>
  BY DEF LinkLost
<1> QED BY <1>1, <1>2, <1>3 DEF SessionEnds

LEMMA EndsKeeps ==
    ASSUME SessionTypeOK, PipelinesOK, NEW s \in Sessions, SessionEnds(s)
    PROVE  /\ SessionTypeOK' /\ PipelinesOK'
           /\ \A r \in Sessions : sess'[r] = IF r = s THEN Fresh("closed") ELSE sess[r]
<1>1. Fresh("closed") \in SessionStates /\ PipelineOK(Fresh("closed"))
  BY FreshType
<1>2. /\ sess' \in [Sessions -> SessionStates]
      /\ \A r \in Sessions : sess'[r] = IF r = s THEN Fresh("closed") ELSE sess[r]
  BY <1>1 DEF SessionTypeOK, SessionEnds
<1>3. awaiting' \in 0 .. Aside /\ answer' \in Answers
  <2>1. awaiting \in 0 .. Aside /\ answer \in Answers /\ 0 \in 0 .. Aside
    BY SessionAssumption DEF SessionTypeOK, Aside
  <2>2. \/ awaiting' = awaiting /\ answer' = answer
        \/ awaiting' = 0 /\ answer' = "error"
    BY DEF SessionEnds
  <2> QED BY <2>1, <2>2 DEF Answers
<1>4. durable' \in SUBSET Stmts
  <2>1. durable \in SUBSET Stmts
    BY DEF SessionTypeOK
  <2>2. durable' = durable \/ durable' = durable \cup Stmts
    BY DEF SessionEnds
  <2> QED BY <2>1, <2>2
<1>5. lost' \in BOOLEAN
  <2>1. lost' = lost \/ lost' = TRUE
    BY DEF SessionEnds
  <2> QED BY <2>1, Zenon DEF SessionTypeOK
<1>6. /\ engine' \in Engines /\ conn' \in 0 .. MaxSessions /\ fired' \in SUBSET Tokens
      /\ creqs' \in Nat /\ view' \in SUBSET Stmts
  BY DEF SessionTypeOK, SessionEnds
<1>7. SessionTypeOK'
  BY <1>2, <1>3, <1>4, <1>5, <1>6 DEF SessionTypeOK
<1> QED BY <1>1, <1>2, <1>7 DEF PipelinesOK

(* What the server does to a client that never reads: every step is one of *)
(* three.                                                                  *)
LEMMA ServerCases ==
    ASSUME SessionTypeOK, PipelinesOK, Server, awaiting # Aside
    PROVE  \/ Marked
           \/ \E s \in Sessions : \E a, t : ServedAs(s, a, t)
           \/ \E s \in Sessions : SessionEnds(s)
<1>1. CASE \E s \in Sessions : Serve(s)
  BY <1>1, ServeEffect
<1>2. CASE \E s \in Sessions : Watch(s)
  BY <1>2, WatchMarks
<1>3. CASE \E s \in Sessions : Close(s)
  BY <1>3, CloseEnds
<1>4. CASE \E s \in Sessions : LinkLost(s)
  BY <1>4, LinkLostEnds
<1>5. CASE CancelLands
  BY <1>5, CancelMarks
<1>6. ~ServeAside
  BY DEF ServeAside
<1> QED BY <1>1, <1>2, <1>3, <1>4, <1>5, <1>6 DEF Server

(* Every step of the server keeps types and pipelines.                     *)
LEMMA ServerTypes ==
    ASSUME SessionTypeOK, PipelinesOK, Server, awaiting # Aside
    PROVE  SessionTypeOK' /\ PipelinesOK'
BY ServerCases, MarkedKeeps, ServeKeeps, EndsKeeps

-----------------------------------------------------------------------------
(* What a client that sends one statement at a time knows of its session   *)

(* It waits for the answer to the only statement there.                    *)
Awaits(op, id) ==
    /\ conn \in Sessions /\ awaiting = conn /\ answer = "none"
    /\ sess[conn].state = "open"
    /\ Len(sess[conn].queue) = 1
    /\ sess[conn].queue[1].op = op /\ sess[conn].queue[1].id = id

(* It holds an answer, and nothing of its own is left in the session.      *)
HasAnswer ==
    /\ awaiting = 0 /\ answer # "none"
    /\ conn # 0 => sess[conn].queue = <<>>

(* Writes 1 to n are staged in its transaction, unless the session is gone. *)
Applied(n) ==
    /\ conn # 0
    /\ \/ sess[conn].state = "closed"
       \/ sess[conn].state = "open" /\ sess[conn].tx = "open" /\ sess[conn].staged = 1 .. n

LEMMA ConnType == SessionTypeOK => conn = 0 \/ conn \in Sessions
BY SessionAssumption DEF SessionTypeOK, Sessions

LEMMA ZeroIsNoSession == 0 \notin Sessions /\ Aside \notin Sessions /\ Aside # 0
BY SessionAssumption DEF Sessions, Aside

(* An answer the client holds stays, and so does what it was about.        *)
LEMMA AnsweredStays ==
    ASSUME SessionTypeOK, PipelinesOK, Server, HasAnswer
    PROVE  /\ HasAnswer' /\ UNCHANGED <<conn, answer, awaiting>>
           /\ \A n : Applied(n) => Applied(n)'
<1>1. awaiting = 0 /\ awaiting # Aside /\ (conn = 0 \/ conn \in Sessions)
  BY ConnType, ZeroIsNoSession DEF HasAnswer
<1>2. CASE Marked
  <2>1. UNCHANGED <<conn, answer, awaiting>>
    BY <1>2 DEF Marked
  <2>2. conn \in Sessions => Alike(sess[conn], sess'[conn])
    BY <1>2 DEF Marked
  <2> QED BY <1>1, <2>1, <2>2 DEF HasAnswer, Applied, Alike
<1>3. CASE \E s \in Sessions : \E a, t : ServedAs(s, a, t)
  <2>0. PICK s \in Sessions : \E a, t : ServedAs(s, a, t)
    BY <1>3
  <2>1. PICK a, t : ServedAs(s, a, t)
    BY <2>0
  <2>2. s # 0 /\ s # conn
    BY ZeroIsNoSession, <2>1 DEF ServedAs, HasAnswer
  <2>3. UNCHANGED <<conn, answer, awaiting>>
    BY <1>1, <2>1, <2>2 DEF ServedAs
  <2>4. conn \in Sessions => sess'[conn] = sess[conn]
    BY <2>1, <2>2 DEF ServedAs, SessionTypeOK
  <2> QED BY <1>1, <2>3, <2>4 DEF HasAnswer, Applied
<1>4. CASE \E s \in Sessions : SessionEnds(s)
  <2>1. PICK s \in Sessions : SessionEnds(s)
    BY <1>4
  <2>2. \A r \in Sessions : sess'[r] = IF r = s THEN Fresh("closed") ELSE sess[r]
    BY <2>1, EndsKeeps
  <2>3. UNCHANGED <<conn, answer, awaiting>>
    BY <1>1, <2>1, ZeroIsNoSession DEF SessionEnds
  <2>4. conn \in Sessions => sess'[conn] = sess[conn] \/ sess'[conn] = Fresh("closed")
    BY <2>2
  <2>5. Fresh("closed").state = "closed" /\ Fresh("closed").queue = <<>>
    BY DEF Fresh
  <2> QED BY <1>1, <2>3, <2>4, <2>5 DEF HasAnswer, Applied
<1> QED BY <1>1, <1>2, <1>3, <1>4, ServerCases

(* What an answer to the awaited statement says.                           *)
Tells(op, id) ==
    /\ op = "BEGIN" /\ answer' \in Effective => Applied(0)'
    /\ op = "WRITE" /\ answer' \in Effective => Applied(id)'
    /\ op = "COMMIT" => answer' # "mismatch" /\ (answer' = "ok" => durable' = durable \cup Stmts)

LEMMA ServerAnswers ==
    ASSUME SessionTypeOK, PipelinesOK, Server, NEW op, NEW id, Awaits(op, id)
    PROVE  conn' = conn /\ (Awaits(op, id)' \/ (HasAnswer' /\ Tells(op, id)))
<1> DEFINE q == sess[conn].queue
<1>1. /\ conn \in Sessions /\ awaiting = conn /\ awaiting # Aside /\ awaiting # 0
      /\ Len(q) = 1 /\ q # <<>> /\ 1 \in 1 .. Len(q) /\ q[1].op = op /\ q[1].id = id
  <2>1. conn \in Sessions /\ awaiting = conn /\ Len(q) = 1 /\ q[1].op = op /\ q[1].id = id
    BY DEF Awaits
  <2>2. q # <<>>
    BY <2>1, EmptySeq
  <2>3. 1 \in 1 .. Len(q)
    <3> HIDE DEF q
    <3> QED BY <2>1
  <2> QED BY <2>1, <2>2, <2>3, ZeroIsNoSession
<1>2. CASE Marked
  <2>1. UNCHANGED <<conn, answer, awaiting>> /\ Alike(sess[conn], sess'[conn])
    BY <1>1, <1>2 DEF Marked
  <2> QED BY <1>1, <2>1 DEF Awaits, Alike
<1>3. CASE \E s \in Sessions : \E a, t : ServedAs(s, a, t)
  <2>0. PICK s \in Sessions : \E a, t : ServedAs(s, a, t)
    BY <1>3
  <2>1. PICK a, t : ServedAs(s, a, t)
    BY <2>0
  <2>2. conn' = conn /\ \A r \in Sessions : sess'[r] = IF r = s THEN t ELSE sess[r]
    BY <2>1 DEF ServedAs, SessionTypeOK
  <2>3. CASE s # conn
    <3>1. UNCHANGED <<conn, answer, awaiting>> /\ sess'[conn] = sess[conn]
      BY <1>1, <2>1, <2>2, <2>3 DEF ServedAs
    <3> QED BY <3>1 DEF Awaits
  <2>4. CASE s = conn
    <3>1. awaiting' = 0 /\ answer' = a /\ a # "none" /\ sess'[conn] = t /\ t.state = "open"
      BY <1>1, <2>1, <2>2, <2>4 DEF ServedAs
    <3>2. t.queue = <<>>
      <4>1. q \in Seq(Statements) /\ t.queue = Tail(q)
        BY <1>1, <2>1, <2>4, QueueType DEF ServedAs
      <4> HIDE DEF q
      <4> QED BY <1>1, <4>1, TailOf
    <3>3. HasAnswer'
      BY <2>2, <3>1, <3>2 DEF HasAnswer
    <3>4. /\ op = "BEGIN" /\ a \in Effective => t.tx = "open" /\ t.staged = {}
          /\ op = "WRITE" /\ a \in Effective => t.tx = "open" /\ t.staged = 1 .. id
          /\ op = "COMMIT" => a # "mismatch" /\ (a = "ok" => durable' = durable \cup Stmts)
      BY <1>1, <2>1, <2>4 DEF ServedAs
    <3>5. 1 .. 0 = {}
      OBVIOUS
    <3>6. Tells(op, id)
      BY <1>1, <2>2, <3>1, <3>4, <3>5 DEF Tells, Applied
    <3> QED BY <2>2, <3>3, <3>6
  <2> QED BY <2>3, <2>4
<1>4. CASE \E s \in Sessions : SessionEnds(s)
  <2>1. PICK s \in Sessions : SessionEnds(s)
    BY <1>4
  <2>2. conn' = conn /\ \A r \in Sessions : sess'[r] = IF r = s THEN Fresh("closed") ELSE sess[r]
    BY <2>1, EndsKeeps DEF SessionEnds
  <2>3. CASE s # conn
    <3>1. UNCHANGED <<conn, answer, awaiting>> /\ sess'[conn] = sess[conn]
      BY <1>1, <2>1, <2>2, <2>3 DEF SessionEnds
    <3> QED BY <3>1 DEF Awaits
  <2>4. CASE s = conn
    <3>1. awaiting' = 0 /\ answer' = "error"
      BY <1>1, <2>1, <2>4 DEF SessionEnds
    <3>2. sess'[conn].queue = <<>>
      BY <1>1, <2>2, <2>4 DEF Fresh
    <3> QED BY <2>2, <3>1, <3>2 DEF HasAnswer, Tells, Effective
  <2> QED BY <2>3, <2>4
<1> QED BY <1>1, <1>2, <1>3, <1>4, ServerCases

(* Only a COMMIT that is next makes anything durable, and then everything. *)
Commits ==
    \E s \in Sessions :
        /\ CommitNext(sess[s])
        /\ durable' = durable \cup Stmts
        /\ awaiting = s /\ Len(sess[s].queue) = 1 => answer' = "ok" \/ lost'

LEMMA ServerCommits ==
    ASSUME SessionTypeOK, PipelinesOK, Server, awaiting # Aside
    PROVE  /\ conn' = conn
           /\ awaiting' = awaiting \/ awaiting' = 0
           /\ lost => lost'
           /\ conn = 0 /\ awaiting = 0 => awaiting' = 0 /\ lost' = lost
           /\ \A s \in Sessions : CommitNext(sess'[s]) =>
                    CommitNext(sess[s]) /\ (awaiting = s => awaiting' = s)
           /\ durable' = durable \/ Commits
<1>1. CASE Marked
  <2>1. \A s \in Sessions : CommitNext(sess'[s]) => CommitNext(sess[s])
    <3> SUFFICES ASSUME NEW s \in Sessions, CommitNext(sess'[s]) PROVE CommitNext(sess[s])
      OBVIOUS
    <3> DEFINE q == sess[s].queue
    <3>1. Alike(sess[s], sess'[s]) /\ q \in Seq(Statements)
      BY <1>1, QueueType DEF Marked
    <3>2. q # <<>>
      BY <3>1 DEF Alike, CommitNext
    <3>3. 1 \in 1 .. Len(q)
      <4> HIDE DEF q
      <4> QED BY <3>1, <3>2, EmptySeq
    <3> QED BY <3>1, <3>2, <3>3 DEF Alike, CommitNext
  <2>2. UNCHANGED <<conn, awaiting, durable, lost>>
    BY <1>1 DEF Marked
  <2> QED BY <2>1, <2>2
<1>2. CASE \E s \in Sessions : \E a, t : ServedAs(s, a, t)
  <2>0. PICK s \in Sessions : \E a, t : ServedAs(s, a, t)
    BY <1>2
  <2>1. PICK a, t : ServedAs(s, a, t)
    BY <2>0
  <2>2. \A r \in Sessions : sess'[r] = IF r = s THEN t ELSE sess[r]
    BY <2>1 DEF ServedAs, SessionTypeOK
  <2>3. ~CommitNext(t)
    BY <2>1, ServedPipeline DEF CommitNext
  <2>4. UNCHANGED <<conn, lost>>
    BY <2>1 DEF ServedAs
  <2>5. /\ awaiting' = awaiting \/ awaiting' = 0
        /\ awaiting = 0 => awaiting' = 0
        /\ awaiting # s => awaiting' = awaiting
        /\ awaiting = s /\ Len(sess[s].queue) = 1 => answer' = a
    BY <2>1, ZeroIsNoSession DEF ServedAs
  <2>6. \A r \in Sessions : CommitNext(sess'[r]) => CommitNext(sess[r]) /\ (awaiting = r => awaiting' = r)
    BY <2>2, <2>3, <2>5
  <2>7. durable' = durable \/ (CommitNext(sess[s]) /\ durable' = durable \cup Stmts /\ a = "ok")
    BY <2>1 DEF ServedAs, CommitNext
  <2>8. durable' = durable \/ Commits
    BY <2>5, <2>7 DEF Commits
  <2> QED BY <2>4, <2>5, <2>6, <2>8
<1>3. CASE \E s \in Sessions : SessionEnds(s)
  <2>1. PICK s \in Sessions : SessionEnds(s)
    BY <1>3
  <2>2. \A r \in Sessions : sess'[r] = IF r = s THEN Fresh("closed") ELSE sess[r]
    BY <2>1, EndsKeeps
  <2>3. ~CommitNext(Fresh("closed"))
    BY DEF CommitNext, Fresh
  <2>4. /\ conn' = conn
        /\ awaiting' = awaiting \/ awaiting' = 0
        /\ awaiting # s => awaiting' = awaiting
        /\ lost => lost'
        /\ conn = 0 /\ awaiting = 0 => awaiting' = 0 /\ lost' = lost
    BY <2>1, ZeroIsNoSession DEF SessionEnds
  <2>5. durable' = durable \/ (CommitNext(sess[s]) /\ durable' = durable \cup Stmts /\ lost')
    BY <2>1 DEF SessionEnds
  <2>6. durable' = durable \/ Commits
    BY <2>5 DEF Commits
  <2> QED BY <2>2, <2>3, <2>4, <2>6
<1> QED BY <1>1, <1>2, <1>3, ServerCases

-----------------------------------------------------------------------------
(* The client's steps *)

(* Statement st may follow what session u holds.                           *)
Fits(u, st) ==
    \/ u.queue = <<>> /\ HeadOK([u EXCEPT !.state = "open", !.queue = <<st>>])
    \/ Len(u.queue) = 1 /\ st.op = "ROLLBACK"

LEMMA AppendTo ==
    ASSUME NEW S, NEW q \in Seq(S), NEW e \in S
    PROVE  /\ Append(q, e) \in Seq(S) /\ Append(q, e) # <<>>
           /\ q = <<>> => Append(q, e) = <<e>> /\ Len(Append(q, e)) = 1 /\ Append(q, e)[1] = e
           /\ Len(q) = 1 => /\ Len(Append(q, e)) = 2 /\ q # <<>>
                            /\ Append(q, e)[1] = q[1] /\ Append(q, e)[2] = e
<1> DEFINE p == Append(q, e)
<1>1. /\ p \in Seq(S) /\ Len(p) = Len(q) + 1 /\ p[Len(q) + 1] = e
      /\ \A i \in 1 .. Len(q) : p[i] = q[i]
  OBVIOUS
<1>2. p # <<>>
  <2>1. Len(q) \in Nat /\ Len(p) = Len(q) + 1
    BY <1>1
  <2>2. Len(p) # 0
    <3> HIDE DEF p
    <3> QED BY <2>1
  <2> QED BY <2>2, EmptySeq
<1>3. q = <<>> => p = <<e>> /\ Len(p) = 1 /\ p[1] = e
  <2> SUFFICES ASSUME q = <<>> PROVE p = <<e>> /\ Len(p) = 1 /\ p[1] = e
    OBVIOUS
  <2>1. Len(q) = 0
    BY EmptySeq
  <2>2. <<e>> \in Seq(S) /\ Len(<<e>>) = 1 /\ <<e>>[1] = e
    OBVIOUS
  <2>3. Len(p) = 1 /\ p[1] = e
    BY <1>1, <2>1
  <2>4. p = <<e>>
    <3> HIDE DEF p
    <3> QED BY <1>1, <2>2, <2>3, SeqEqual
  <2> QED BY <2>3, <2>4
<1>4. Len(q) = 1 => Len(p) = 2 /\ q # <<>> /\ p[1] = q[1] /\ p[2] = e
  BY <1>1, EmptySeq
<1> QED BY <1>1, <1>2, <1>3, <1>4

LEMMA SendKeeps ==
    ASSUME SessionTypeOK, PipelinesOK, NEW s \in Sessions, NEW st \in Statements,
           SendOn(s, st), Fits(sess[s], st)
    PROVE  /\ sess' \in [Sessions -> SessionStates] /\ PipelinesOK'
           /\ conn' = s /\ awaiting' = s /\ answer' = "none"
           /\ \A r \in Sessions : CommitNext(sess'[r]) =>
                    CommitNext(sess[r]) \/ (r = s /\ st.op = "COMMIT")
           /\ sess[s].queue = <<>> => Awaits(st.op, st.id)'
<1> DEFINE u == sess[s]
           q == u.queue
           p == Append(q, st)
           v == [u EXCEPT !.state = "open", !.queue = p]
<1>1. u \in SessionStates /\ q \in Seq(Statements) /\ PipelineOK(u)
  BY QueueType DEF PipelinesOK
<1>2. /\ p \in Seq(Statements) /\ p # <<>>
      /\ q = <<>> => p = <<st>> /\ Len(p) = 1 /\ p[1] = st
      /\ Len(q) = 1 => Len(p) = 2 /\ p[1] = q[1] /\ p[2] = st /\ q # <<>>
  <2> HIDE DEF q
  <2> QED BY <1>1, AppendTo
<1>3. sess' = [sess EXCEPT ![s] = v] /\ conn' = s /\ awaiting' = s /\ answer' = "none"
  BY DEF SendOn
<1>4. /\ v \in SessionStates /\ v.state = "open" /\ v.queue = p /\ v.tx = u.tx
      /\ v.staged = u.staged
  <2> HIDE DEF p
  <2> QED BY <1>1, <1>2 DEF SessionStates
<1>5. PipelineOK(v)
  <2> HIDE DEF p
  <2>1. CASE q = <<>> /\ HeadOK([u EXCEPT !.state = "open", !.queue = <<st>>])
    <3>1. HeadOK(v) /\ Len(v.queue) = 1
      BY <1>2, <1>4, <2>1
    <3> QED BY <1>4, <3>1, OneInPipeline
  <2>2. CASE Len(q) = 1 /\ st.op = "ROLLBACK"
    <3>1. HeadOK(u)
      BY <1>1, <1>2, <2>2 DEF PipelineOK
    <3>2. HeadOK(v)
      BY <1>2, <1>4, <2>2, <3>1 DEF HeadOK
    <3> QED BY <1>2, <1>4, <2>2, <3>2, TwoInPipeline
  <2> QED BY <2>1, <2>2 DEF Fits
<1>6. CommitNext(v) => CommitNext(u) \/ st.op = "COMMIT"
  BY <1>2, <1>4 DEF CommitNext, Fits
<1>7. q = <<>> => v.state = "open" /\ Len(v.queue) = 1 /\ v.queue[1] = st
  BY <1>2, <1>4
<1> HIDE DEF v
<1>8. /\ sess' \in [Sessions -> SessionStates]
      /\ \A r \in Sessions : sess'[r] = IF r = s THEN v ELSE sess[r]
  BY <1>3, <1>4 DEF SessionTypeOK
<1>9. PipelinesOK'
  BY <1>5, <1>8 DEF PipelinesOK
<1>10. q = <<>> => Awaits(st.op, st.id)'
  BY <1>3, <1>7, <1>8 DEF Awaits
<1> QED BY <1>3, <1>6, <1>8, <1>9, <1>10

(* execute(): the statement is sent where it fits, or refused; nothing but *)
(* a COMMIT that is sent adds a COMMIT to what is next.                    *)
LEMMA ExecuteKeeps ==
    ASSUME SessionTypeOK, PipelinesOK, NEW c \in 0 .. MaxSessions, NEW cancelled,
           NEW st \in Statements, Execute(c, cancelled, st),
           c = 0 => Fits(Fresh("unopened"), st),
           c # 0 => sess[c].state = "closed" \/ Fits(sess[c], st)
    PROVE  /\ sess' \in [Sessions -> SessionStates] /\ PipelinesOK'
           /\ conn' \in 0 .. MaxSessions /\ awaiting' \in 0 .. Aside /\ answer' \in Answers
           /\ awaiting' # Aside
           /\ \A r \in Sessions : CommitNext(sess'[r]) =>
                    CommitNext(sess[r]) \/ (awaiting' = r /\ st.op = "COMMIT")
           /\ c = 0 \/ sess[c].queue = <<>> =>
                    Awaits(st.op, st.id)' \/ (HasAnswer' /\ answer' \in {"error", "cancelled"})
<1>c. c = 0 \/ c \in Sessions
  BY SessionAssumption DEF Sessions
<1>1. ASSUME NEW s \in Sessions, SendOn(s, st), Fits(sess[s], st),
             c = 0 \/ sess[c].queue = <<>> => sess[s].queue = <<>>
      PROVE  /\ sess' \in [Sessions -> SessionStates] /\ PipelinesOK'
             /\ conn' \in 0 .. MaxSessions /\ awaiting' \in 0 .. Aside /\ answer' \in Answers
             /\ awaiting' # Aside
             /\ \A r \in Sessions : CommitNext(sess'[r]) =>
                      CommitNext(sess[r]) \/ (awaiting' = r /\ st.op = "COMMIT")
             /\ c = 0 \/ sess[c].queue = <<>> => Awaits(st.op, st.id)'
  <2>1. s \in 0 .. MaxSessions /\ s \in 0 .. Aside /\ s # Aside /\ "none" \in Answers
    BY SessionAssumption DEF Sessions, Aside, Answers
  <2> QED BY <1>1, <2>1, SendKeeps
<1>2. ASSUME NEW a \in {"error", "cancelled"}, Refuse(c, a)
      PROVE  /\ sess' \in [Sessions -> SessionStates] /\ PipelinesOK'
             /\ conn' \in 0 .. MaxSessions /\ awaiting' \in 0 .. Aside /\ answer' \in Answers
             /\ awaiting' # Aside
             /\ \A r \in Sessions : CommitNext(sess'[r]) => CommitNext(sess[r])
             /\ c = 0 \/ sess[c].queue = <<>> =>
                      HasAnswer' /\ answer' \in {"error", "cancelled"}
  <2>1. sess' = sess /\ conn' = c /\ awaiting' = 0 /\ answer' = a
    BY <1>2 DEF Refuse
  <2>2. sess \in [Sessions -> SessionStates] /\ PipelinesOK'
    BY <2>1 DEF SessionTypeOK, PipelinesOK
  <2>3. 0 \in 0 .. Aside /\ 0 # Aside /\ a \in Answers /\ a # "none"
    BY SessionAssumption, ZeroIsNoSession DEF Aside, Answers
  <2> QED BY <2>1, <2>2, <2>3 DEF HasAnswer
<1>3. \/ \E a \in {"error", "cancelled"} : Refuse(c, a)
      \/ c = 0 /\ \E s \in Sessions : sess[s].state = "unopened" /\ SendOn(s, st)
      \/ c # 0 /\ sess[c].state # "closed" /\ SendOn(c, st)
  BY DEF Execute, Unopened
<1>4. CASE c = 0 /\ \E s \in Sessions : sess[s].state = "unopened" /\ SendOn(s, st)
  <2>1. PICK s \in Sessions : sess[s].state = "unopened" /\ SendOn(s, st)
    BY <1>4
  <2>2. sess[s] = Fresh("unopened")
    BY <2>1 DEF PipelinesOK, PipelineOK
  <2>3. sess[s].queue = <<>>
    BY <2>2 DEF Fresh
  <2> QED BY <1>1, <1>4, <2>1, <2>2, <2>3
<1>5. CASE c # 0 /\ sess[c].state # "closed" /\ SendOn(c, st)
  BY <1>c, <1>1, <1>5
<1> QED BY <1>2, <1>3, <1>4, <1>5

(* What each statement needs of the session it is sent to.                 *)
LEMMA StatementFits ==
    ASSUME NEW u \in SessionStates, u.queue = <<>>, NEW id \in Stmts \cup {NoStatement},
           NEW tok \in Tokens
    PROVE  /\ \A op \in Ops : Statement(op, id, tok) \in Statements
           /\ \A op \in Ops : Statement(op, id, tok).op = op /\ Statement(op, id, tok).id = id
           /\ u = Fresh(u.state) => Fits(u, Statement("BEGIN", id, tok))
           /\ Fits(u, Statement("ROLLBACK", id, tok))
           /\ id \in Stmts /\ u.tx = "open" /\ u.staged = 1 .. id - 1 => Fits(u, Statement("WRITE", id, tok))
           /\ u.tx = "open" /\ u.staged = Stmts => Fits(u, Statement("COMMIT", id, tok))
<1>1. \A op \in Ops : /\ Statement(op, id, tok) \in Statements
                      /\ Statement(op, id, tok).op = op /\ Statement(op, id, tok).id = id
  BY DEF Statement, Statements
<1>2. \A st : LET v == [u EXCEPT !.state = "open", !.queue = <<st>>]
             IN  v.queue[1] = st /\ v.tx = u.tx /\ v.staged = u.staged
  BY DEF SessionStates
<1>3. {"BEGIN", "WRITE", "COMMIT", "ROLLBACK"} \subseteq Ops
  BY DEF Ops
<1>4. u = Fresh(u.state) => u.tx = "none" /\ u.staged = {}
  BY DEF Fresh
<1> QED BY <1>1, <1>2, <1>3, <1>4 DEF Fits, HeadOK

LEMMA ExecuteTypes ==
    ASSUME SessionTypeOK,
           sess' \in [Sessions -> SessionStates], conn' \in 0 .. MaxSessions,
           awaiting' \in 0 .. Aside, answer' \in Answers, fired' \in SUBSET Tokens,
           UNCHANGED <<engine, creqs, durable, view, lost>>
    PROVE  SessionTypeOK'
<1>1. lost' \in BOOLEAN
  BY Zenon DEF SessionTypeOK
<1> QED BY <1>1 DEF SessionTypeOK

(* A Connection that is dropped leaves the sessions to the server.         *)
LEMMA DropTypes ==
    ASSUME SessionTypeOK, PipelinesOK, DropConnection
    PROVE  /\ SessionTypeOK' /\ PipelinesOK'
           /\ conn' = 0 /\ awaiting' = 0 /\ awaiting' # Aside
           /\ UNCHANGED <<sess, durable, lost>>
<1>1. /\ conn' = 0 /\ awaiting' = 0 /\ answer' = "none"
      /\ UNCHANGED <<engine, sess, fired, creqs, durable, view, lost>>
  BY DEF DropConnection
<1>2. 0 \in 0 .. Aside /\ 0 \in 0 .. MaxSessions /\ 0 # Aside /\ "none" \in Answers
  BY SessionAssumption, ZeroIsNoSession DEF Aside, Answers
<1>3. /\ sess' \in [Sessions -> SessionStates] /\ conn' \in 0 .. MaxSessions
      /\ awaiting' \in 0 .. Aside /\ answer' \in Answers /\ fired' \in SUBSET Tokens
      /\ UNCHANGED <<engine, creqs, durable, view, lost>>
  BY <1>1, <1>2 DEF SessionTypeOK
<1>4. SessionTypeOK'
  BY <1>3, ExecuteTypes
<1> QED BY <1>1, <1>2, <1>4 DEF PipelinesOK

(* Before the first execute() the server has nothing to do.                *)
LEMMA ServerAtRest ==
    ASSUME SessionTypeOK, PipelinesOK, Server, awaiting = 0,
           \A s \in Sessions : sess[s].state = "unopened"
    PROVE  /\ UNCHANGED <<conn, awaiting, answer, durable, lost>>
           /\ \A s \in Sessions : sess'[s].state = "unopened"
<1>1. Marked
  BY ServerCases, ZeroIsNoSession DEF ServedAs, SessionEnds
<1> QED BY <1>1 DEF Marked, Alike

LEMMA SessionInitTypes ==
    SessionInit => SessionTypeOK /\ PipelinesOK /\ \A s \in Sessions : sess[s] = Fresh("unopened")
<1> SUFFICES ASSUME SessionInit
             PROVE  SessionTypeOK /\ PipelinesOK /\ \A s \in Sessions : sess[s] = Fresh("unopened")
  OBVIOUS
<1>1. Fresh("unopened") \in SessionStates /\ PipelineOK(Fresh("unopened"))
  BY FreshType
<1>2. sess \in [Sessions -> SessionStates] /\ \A s \in Sessions : sess[s] = Fresh("unopened")
  BY <1>1 DEF SessionInit
<1>3. 0 \in 0 .. Aside /\ 0 \in 0 .. MaxSessions /\ "none" \in Answers
  BY SessionAssumption DEF Aside, Answers
<1>4. lost \in BOOLEAN
  BY Zenon DEF SessionInit
<1>5. SessionTypeOK
  BY <1>2, <1>3, <1>4 DEF SessionInit, SessionTypeOK
<1> QED BY <1>1, <1>2, <1>5 DEF PipelinesOK

(* What a client step that executes one statement comes to.                *)
LEMMA StatementSent ==
    ASSUME SessionTypeOK, PipelinesOK, NEW c \in 0 .. MaxSessions, NEW cancelled,
           NEW op \in Ops, NEW id \in Stmts \cup {NoStatement}, NEW tok \in Tokens,
           Execute(c, cancelled, Statement(op, id, tok)),
           fired' \in SUBSET Tokens, UNCHANGED <<engine, creqs, durable, view, lost>>,
           c = 0 => op \in {"BEGIN", "ROLLBACK"},
           c # 0 => sess[c].state = "closed" \/ Fits(sess[c], Statement(op, id, tok))
    PROVE  /\ SessionTypeOK' /\ PipelinesOK' /\ awaiting' # Aside
           /\ \A r \in Sessions : CommitNext(sess'[r]) =>
                    CommitNext(sess[r]) \/ (awaiting' = r /\ op = "COMMIT")
           /\ c = 0 \/ sess[c].queue = <<>> =>
                    Awaits(op, id)' \/ (HasAnswer' /\ answer' \in {"error", "cancelled"})
<1> DEFINE st == Statement(op, id, tok)
           u == Fresh("unopened")
<1>1. u \in SessionStates /\ u.queue = <<>> /\ u = Fresh(u.state)
  BY FreshType
<1>2. st \in Statements /\ st.op = op /\ st.id = id
  BY <1>1, StatementFits
<1>3. c = 0 => Fits(u, st)
  BY <1>1, StatementFits
<1>4. /\ sess' \in [Sessions -> SessionStates] /\ PipelinesOK'
      /\ conn' \in 0 .. MaxSessions /\ awaiting' \in 0 .. Aside /\ answer' \in Answers
      /\ awaiting' # Aside
      /\ \A r \in Sessions : CommitNext(sess'[r]) =>
               CommitNext(sess[r]) \/ (awaiting' = r /\ op = "COMMIT")
      /\ c = 0 \/ sess[c].queue = <<>> =>
               Awaits(op, id)' \/ (HasAnswer' /\ answer' \in {"error", "cancelled"})
  <2> HIDE DEF st, u
  <2>1. Execute(c, cancelled, st)
    BY DEF st
  <2>2. /\ sess' \in [Sessions -> SessionStates] /\ PipelinesOK'
        /\ conn' \in 0 .. MaxSessions /\ awaiting' \in 0 .. Aside /\ answer' \in Answers
        /\ awaiting' # Aside
        /\ \A r \in Sessions : CommitNext(sess'[r]) =>
                 CommitNext(sess[r]) \/ (awaiting' = r /\ st.op = "COMMIT")
        /\ c = 0 \/ sess[c].queue = <<>> =>
                 Awaits(st.op, st.id)' \/ (HasAnswer' /\ answer' \in {"error", "cancelled"})
    BY <1>2, <1>3, <2>1, ExecuteKeeps DEF st, u
  <2> QED BY <1>2, <2>2 DEF Awaits
<1>5. SessionTypeOK'
  BY <1>4, ExecuteTypes
<1> QED BY <1>4, <1>5

(* A session whose statements have all succeeded takes the next one.       *)
LEMMA NextFits ==
    ASSUME SessionTypeOK, NEW n \in Nat, NEW tok \in Tokens, HasAnswer, Applied(n)
    PROVE  /\ conn \in 0 .. MaxSessions /\ conn # 0 /\ sess[conn].queue = <<>>
           /\ n + 1 \in Stmts => sess[conn].state = "closed"
                                  \/ Fits(sess[conn], Statement("WRITE", n + 1, tok))
           /\ 1 .. n = Stmts => sess[conn].state = "closed"
                                  \/ Fits(sess[conn], Statement("COMMIT", NoStatement, tok))
<1> DEFINE u == sess[conn]
<1>1. conn \in 0 .. MaxSessions /\ conn # 0 /\ conn \in Sessions /\ u.queue = <<>>
  BY ConnType DEF SessionTypeOK, HasAnswer, Applied
<1>2. u.state = "closed" \/ (u.tx = "open" /\ u.staged = 1 .. n)
  BY DEF Applied
<1>3. u \in SessionStates /\ tok \in Tokens
  BY <1>1, QueueType
<1>4. (n + 1) - 1 = n
  OBVIOUS
<1> HIDE DEF u
<1>5. n + 1 \in Stmts => u.state = "closed" \/ Fits(u, Statement("WRITE", n + 1, tok))
  <2> SUFFICES ASSUME n + 1 \in Stmts, u.tx = "open", u.staged = 1 .. n
               PROVE  Fits(u, Statement("WRITE", n + 1, tok))
    BY <1>2
  <2>1. u.staged = 1 .. (n + 1) - 1
    BY <1>4
  <2> DEFINE m == n + 1
  <2> HIDE DEF m
  <2> QED BY <1>1, <1>3, <2>1, StatementFits DEF m
<1>6. 1 .. n = Stmts => u.state = "closed" \/ Fits(u, Statement("COMMIT", NoStatement, tok))
  BY <1>1, <1>2, <1>3, StatementFits
<1> QED BY <1>1, <1>5, <1>6 DEF u

(* A step that leaves the sessions alone.                                  *)
LEMMA SessionsSame ==
    ASSUME SessionTypeOK, PipelinesOK, fired' \in SUBSET Tokens,
           UNCHANGED <<engine, sess, conn, awaiting, answer, creqs, durable, view, lost>>
    PROVE  /\ SessionTypeOK' /\ PipelinesOK'
           /\ HasAnswer => HasAnswer'
           /\ \A op, id : Awaits(op, id) => Awaits(op, id)'
           /\ \A n : Applied(n) => Applied(n)'
<1>1. SessionTypeOK'
  BY ExecuteTypes DEF SessionTypeOK
<1>2. PipelinesOK'
  BY DEF PipelinesOK
<1>3. /\ HasAnswer => HasAnswer'
      /\ \A op, id : Awaits(op, id) => Awaits(op, id)'
      /\ \A n : Applied(n) => Applied(n)'
  BY DEF HasAnswer, Awaits, Applied
<1> QED BY <1>1, <1>2, <1>3
=============================================================================
