------------------------ MODULE ScriptAndFilesProofs ------------------------
(***************************************************************************)
(* Theorems about Script: a run's units are atomic and its report is       *)
(* honest, for every number of files, statements and sessions and every    *)
(* engine. And, below, about ScriptFiles: its files and bindings in every  *)
(* state, what a landing save leaves, and that no unsaved text goes        *)
(* unasked.                                                                *)
(*                                                                         *)
(* The inductive invariant of Script is ScriptInv. Its parts, in the order *)
(* they are built: what the server may do to any session (Sound, EffectOf, *)
(* ServerDoes); where the run may be and what its tab shows (ControlInv);  *)
(* that only writes of begun files are anywhere (SessionInv); where the    *)
(* transaction stands at each place of the run under PerFile and WholeRun  *)
(* (TxInv); what is durable there (PerFileOK, WholeRunOK, FilesDone); and  *)
(* the run without transactions (FreeInv).                                 *)
(***************************************************************************)
EXTENDS Script, ScriptFiles, SessionProofs

-----------------------------------------------------------------------------
(* Sessions with any statements in their pipelines *)

(* A session that is not open holds nothing, and no writes are staged but  *)
(* in an open transaction.                                                 *)
Sound(t) ==
    /\ t.state # "open" => t = Fresh(t.state)
    /\ t.tx # "open" => t.staged = {}

(* The writes that are durable, staged or on their way are all in A.       *)
HoldsOnly(A) ==
    /\ durable \subseteq A
    /\ \A s \in Sessions :
         /\ sess[s].staged \subseteq A
         /\ \A j \in 1 .. Len(sess[s].queue) :
                sess[s].queue[j].op = "WRITE" => sess[s].queue[j].id \in A

AllSound ==
    /\ \A s \in Sessions : Sound(sess[s])
    /\ answer # "none" => awaiting = 0
    /\ HoldsOnly(Stmts)

(* How statement st ends on a session that was in state t: with answer a,  *)
(* the session in state u, having made the writes of made durable.         *)
EffectOf(st, t, a, u, made) ==
    /\ a \in Answers \ {"none"}
    /\ u \in SessionStates /\ u.state = t.state /\ u.queue = t.queue
    /\ made \in SUBSET Stmts
    /\ u.tx # "open" => u.staged = {}
    /\ made \cup u.staged \subseteq t.staged \cup (IF st.op = "WRITE" THEN {st.id} ELSE {})
    /\ made # {} => (st.op = "COMMIT" /\ t.tx = "open") \/ (st.op = "WRITE" /\ t.tx # "open")
    /\ st.op = "BEGIN" /\ (OneSession => t.tx # "open") /\ a \in Effective =>
         u.tx = "open" /\ u.staged = {}
    /\ st.op = "WRITE" /\ t.tx = "open" /\ a \in Effective =>
         u.tx = "open" /\ u.staged = t.staged \cup {st.id}
    /\ st.op = "WRITE" /\ t.tx = "none" /\ a \in Effective => st.id \in made
    /\ st.op \in {"READ", "WRITE"} /\ t.tx = "none" => u.tx = "none"
    /\ st.op = "READ" /\ a \in Effective => u = t
    /\ st.op = "COMMIT" /\ t.tx = "open" =>
         /\ a # "mismatch"
         /\ IF a = "ok" THEN made = t.staged /\ u.tx = "none" ELSE made = {}
    /\ st.op = "ROLLBACK" /\ OneSession => u.tx # "open"

(* A statement that fails never adds to its transaction; Postgres does not *)
(* leave one open.                                                         *)
LEMMA AfterErrorIs ==
    ASSUME NEW t \in SessionStates, t.tx # "open" => t.staged = {}, NEW u,
           u = AfterError(t) \/ u = AfterFailedCommit(t)
    PROVE  /\ u \in SessionStates /\ u.state = t.state /\ u.queue = t.queue
           /\ u.tx # "open" => u.staged = {}
           /\ u.staged \subseteq t.staged
           /\ t.tx = "none" => u.tx = "none"
           /\ OneSession /\ u = AfterError(t) => u.tx # "open"
<1>1. CASE u = AfterError(t)
  <2>1. \/ u = t /\ (t.tx = "open" => engine = "Sqlite")
        \/ t.tx = "open" /\ u = [t EXCEPT !.tx = "none", !.staged = {}]
        \/ t.tx = "open" /\ u = [t EXCEPT !.tx = "aborted", !.staged = {}]
    BY <1>1 DEF AfterError
  <2> QED BY <2>1 DEF SessionStates, OneSession
<1>2. CASE u = AfterFailedCommit(t)
  <2>1. u = t \/ u = [t EXCEPT !.tx = "none", !.staged = {}]
    BY <1>2 DEF AfterFailedCommit
  <2>2. /\ u \in SessionStates /\ u.state = t.state /\ u.queue = t.queue
        /\ u.tx # "open" => u.staged = {}
        /\ u.staged \subseteq t.staged
        /\ t.tx = "none" => u.tx = "none"
    BY <2>1 DEF SessionStates
  <2>3. CASE u = AfterError(t)
    BY <1>1, <2>3
  <2> QED BY <2>2, <2>3
<1> QED BY <1>1, <1>2

(* Every way Ends lists for a statement is one EffectOf allows.            *)
LEMMA EndsEffect ==
    ASSUME NEW s, NEW st \in Statements, NEW t \in SessionStates,
           st.op = "WRITE" => st.id \in Stmts,
           t.tx # "open" => t.staged = {},
           NEW end \in Ends(s, st, t)
    PROVE  EffectOf(st, t, end[1], end[2], end[3])
<1> USE DEF EffectOf
<1> DEFINE failed1 == {<<"error", AfterError(t), {}>>}
                      \cup (IF st.hit THEN {<<"cancelled", AfterError(t), {}>>} ELSE {})
<1>0. \A e \in failed1 : e[1] \in {"error", "cancelled"} /\ e[2] = AfterError(t) /\ e[3] = {}
  OBVIOUS
<1>f. ASSUME end \in failed1, st.op = "COMMIT" => t.tx # "open"
      PROVE  EffectOf(st, t, end[1], end[2], end[3])
  <2>1. end[1] \in {"error", "cancelled"} /\ end[2] = AfterError(t) /\ end[3] = {}
    BY <1>0, <1>f
  <2> HIDE DEF failed1
  <2> DEFINE u == end[2]
  <2>2. /\ u \in SessionStates /\ u.state = t.state /\ u.queue = t.queue
        /\ u.tx # "open" => u.staged = {}
        /\ u.staged \subseteq t.staged
        /\ t.tx = "none" => u.tx = "none"
        /\ OneSession => u.tx # "open"
    BY <2>1, AfterErrorIs
  <2> QED BY <1>f, <2>1, <2>2 DEF Answers, Effective
<1>n. ASSUME NEW u, u = [t EXCEPT !.tx = "none", !.staged = {}]
      PROVE  /\ u \in SessionStates /\ u.state = t.state /\ u.queue = t.queue
             /\ u.tx = "none" /\ u.staged = {}
  BY <1>n DEF SessionStates
<1>1. CASE st.op = "BEGIN"
  <2>1. \/ end \in failed1
        \/ t.tx = "none" /\ end = <<"ok", [t EXCEPT !.tx = "open"], {}>>
        \/ OneSession /\ t.tx = "open" /\ end = <<"ok", [t EXCEPT !.tx = "open"], {}>>
    BY <1>1 DEF Ends, OneSession
  <2>2. CASE end = <<"ok", [t EXCEPT !.tx = "open"], {}>> /\ (t.tx = "none" \/ (OneSession /\ t.tx = "open"))
    BY <1>1, <2>2 DEF Answers, Effective, SessionStates
  <2> QED BY <1>f, <1>1, <2>1, <2>2
<1>2. CASE st.op = "READ"
  <2>1. end \in failed1 \/ end = <<"ok", t, {}>>
    BY <1>2 DEF Ends
  <2>2. CASE end = <<"ok", t, {}>>
    BY <1>2, <2>2 DEF Answers
  <2> QED BY <1>f, <1>2, <2>1, <2>2
<1>3. CASE st.op = "WRITE"
  <2>1. \/ end \in failed1
        \/ t.tx = "open" /\ \E a \in Effective : end = <<a, [t EXCEPT !.staged = @ \cup {st.id}], {}>>
        \/ t.tx # "open" /\ \E a \in Effective : end = <<a, t, {st.id}>>
    BY <1>3 DEF Ends, Effective
  <2>3. CASE t.tx = "open" /\ \E a \in Effective : end = <<a, [t EXCEPT !.staged = @ \cup {st.id}], {}>>
    BY <1>3, <2>3 DEF Answers, Effective, SessionStates
  <2>4. CASE t.tx # "open" /\ \E a \in Effective : end = <<a, t, {st.id}>>
    BY <1>3, <2>4 DEF Answers, Effective
  <2> QED BY <1>f, <1>3, <2>1, <2>3, <2>4
<1>4. CASE st.op = "COMMIT"
  <2>1. \/ t.tx = "open" /\ end = <<"ok", Ended(t), t.staged>>
        \/ t.tx = "open" /\ \E e \in failed1 : end = <<e[1], AfterFailedCommit(t), {}>>
        \/ t.tx # "open" /\ end = <<"ok", Ended(t), {}>>
        \/ t.tx # "open" /\ end \in failed1
    BY <1>4 DEF Ends
  <2>2. CASE t.tx = "open" /\ end = <<"ok", Ended(t), t.staged>>
    <3>1. t.staged \in SUBSET Stmts
      BY DEF SessionStates
    <3> QED BY <1>n, <1>4, <2>2, <3>1 DEF Answers, Ended
  <2>3. CASE t.tx = "open" /\ \E e \in failed1 : end = <<e[1], AfterFailedCommit(t), {}>>
    <3>1. end[1] \in {"error", "cancelled"} /\ end[2] = AfterFailedCommit(t) /\ end[3] = {}
      BY <1>0, <2>3
    <3> HIDE DEF failed1
    <3> DEFINE u == end[2]
    <3>2. /\ u \in SessionStates /\ u.state = t.state /\ u.queue = t.queue
          /\ u.tx # "open" => u.staged = {}
          /\ u.staged \subseteq t.staged
      BY <3>1, AfterErrorIs
    <3> QED BY <1>4, <2>3, <3>1, <3>2 DEF Answers
  <2>4. CASE t.tx # "open" /\ end = <<"ok", Ended(t), {}>>
    BY <1>n, <1>4, <2>4 DEF Answers, Ended
  <2> QED BY <1>f, <2>1, <2>2, <2>3, <2>4
<1>5. CASE st.op = "ROLLBACK"
  <2>1. end \in failed1 \/ end = <<"ok", Ended(t), {}>>
    BY <1>5 DEF Ends
  <2>3. CASE end = <<"ok", Ended(t), {}>>
    BY <1>n, <1>5, <2>3 DEF Answers, Ended
  <2> QED BY <1>f, <1>5, <2>1, <2>3
<1>6. st.op \in {"BEGIN", "WRITE", "READ", "COMMIT", "ROLLBACK"}
  BY DEF Statements, Ops
<1> QED BY <1>1, <1>2, <1>3, <1>4, <1>5, <1>6

-----------------------------------------------------------------------------
(* The server's steps *)

(* The first statement of session s ends: the session goes on in v.        *)
Serves(s, a, v, made) ==
    LET q == sess[s].queue
    IN  /\ sess[s].state = "open" /\ q # <<>>
        /\ v \in SessionStates /\ v.state = "open" /\ v.queue = Tail(q)
        /\ \E u : EffectOf(q[1], sess[s], a, u, made) /\ v.tx = u.tx /\ v.staged = u.staged
        /\ \A r \in Sessions : sess'[r] = IF r = s THEN v ELSE sess[r]
        /\ durable' = durable \cup made
        /\ IF awaiting = s /\ Len(q) = 1 THEN awaiting' = 0 /\ answer' = a
                                         ELSE UNCHANGED <<awaiting, answer>>
        /\ UNCHANGED <<engine, conn, fired, lost>>

(* Session s closes, or its link is lost with the answer of what it did.   *)
Falls(s) ==
    LET q == sess[s].queue
    IN  /\ sess[s].state = "open"
        /\ \A r \in Sessions : sess'[r] = IF r = s THEN Fresh("closed") ELSE sess[r]
        /\ UNCHANGED <<engine, conn, fired>>
        /\ \/ /\ conn # s /\ awaiting # s
              /\ UNCHANGED <<awaiting, answer, durable, lost>>
           \/ /\ conn = s \/ awaiting = s
              /\ lost' = TRUE
              /\ \/ durable' = durable
                 \/ q # <<>> /\ \E a, u, made : EffectOf(q[1], sess[s], a, u, made) /\ durable' = durable \cup made
              /\ IF awaiting = s THEN awaiting' = 0 /\ answer' = "error"
                                 ELSE UNCHANGED <<awaiting, answer>>

(* The read on a session of its own is answered.                           *)
AsideServed ==
    /\ awaiting = Aside /\ awaiting' = 0 /\ answer' \in {"ok", "error"}
    /\ UNCHANGED <<engine, sess, conn, fired, durable, lost>>

(* Serve, seen as the end of the first statement of a pipeline.            *)
LEMMA ServesOf ==
    ASSUME SessionTypeOK, AllSound, NEW s \in Sessions, Serve(s)
    PROVE  SessionTypeOK' /\ \E a, v, made : Serves(s, a, v, made)
<1> DEFINE q == sess[s].queue
           st == q[1]
<1>1. /\ sess[s] \in SessionStates /\ q \in Seq(Statements) /\ q # <<>> /\ sess[s].state = "open"
      /\ sess[s].staged \in SUBSET Stmts
  BY QueueType DEF Serve
<1>t. /\ Len(q) \in Nat \ {0} /\ Head(q) = st /\ st \in Statements
      /\ Tail(q) \in Seq(Statements) /\ (Tail(q) = <<>> <=> Len(q) = 1)
  BY <1>1, TailOf
<1>2. st.op = "WRITE" => st.id \in Stmts
  <2>1. 1 \in 1 .. Len(q)
    <3> HIDE DEF q
    <3> QED BY <1>t
  <2> QED BY <2>1 DEF AllSound, HoldsOnly
<1>3. sess[s].tx # "open" => sess[s].staged = {}
  BY DEF AllSound, Sound
<1>4. PICK end \in Ends(s, st, sess[s]) :
        /\ sess' = [sess EXCEPT ![s] = [end[2] EXCEPT !.queue = Tail(q)]]
        /\ durable' = durable \cup end[3]
        /\ IF awaiting = s /\ Tail(q) = <<>> THEN awaiting' = 0 /\ answer' = end[1]
                                            ELSE UNCHANGED <<awaiting, answer>>
        /\ view' = IF st.op = "READ" THEN durable \cup sess[s].staged ELSE view
        /\ creqs' \in {creqs, creqs + 1}
  BY <1>1, <1>t DEF Serve
<1> DEFINE a == end[1]
           u == end[2]
           made == end[3]
           v == [u EXCEPT !.queue = Tail(q)]
<1>5. EffectOf(st, sess[s], a, u, made)
  <2> HIDE DEF q, st
  <2> QED BY <1>1, <1>t, <1>2, <1>3, EndsEffect
<1>6. /\ a \in Answers \ {"none"} /\ u \in SessionStates /\ u.state = "open" /\ made \in SUBSET Stmts
  BY <1>1, <1>5 DEF EffectOf
<1>7. v \in SessionStates /\ v.state = "open" /\ v.queue = Tail(q) /\ v.tx = u.tx /\ v.staged = u.staged
  BY <1>6, <1>t DEF SessionStates
<1>8. UNCHANGED <<engine, conn, fired, lost>>
  BY DEF Serve
<1> HIDE DEF a, u, made, v
<1>9. sess' = [sess EXCEPT ![s] = v] /\ durable' = durable \cup made
      /\ IF awaiting = s /\ Len(q) = 1 THEN awaiting' = 0 /\ answer' = a
                                       ELSE UNCHANGED <<awaiting, answer>>
  BY <1>4, <1>t DEF a, u, made, v
<1>10. sess' \in [Sessions -> SessionStates] /\ \A r \in Sessions : sess'[r] = IF r = s THEN v ELSE sess[r]
  BY <1>7, <1>9 DEF SessionTypeOK
<1>11. Serves(s, a, v, made)
  BY <1>1, <1>5, <1>7, <1>8, <1>9, <1>10 DEF Serves
<1>12. SessionTypeOK'
  <2>1. durable \in SUBSET Stmts /\ view \in SUBSET Stmts /\ creqs \in Nat
    BY DEF SessionTypeOK
  <2>2. durable' \in SUBSET Stmts /\ view' \in SUBSET Stmts /\ creqs' \in Nat
    BY <1>1, <1>4, <1>6, <1>9, <2>1
  <2>3. awaiting' \in 0 .. Aside /\ answer' \in Answers
    <3>1. awaiting \in 0 .. Aside /\ answer \in Answers /\ 0 \in 0 .. Aside
      BY SessionAssumption DEF SessionTypeOK, Aside
    <3> QED BY <1>6, <1>9, <3>1
  <2>4. engine' \in Engines /\ conn' \in 0 .. MaxSessions /\ fired' \in SUBSET Tokens
    BY <1>8 DEF SessionTypeOK
  <2>5. lost' \in BOOLEAN
    BY <1>8, Zenon DEF SessionTypeOK
  <2> QED BY <1>10, <2>2, <2>3, <2>4, <2>5 DEF SessionTypeOK
<1> QED BY <1>11, <1>12

(* Close and LinkLost, seen as the fall of a session.                      *)
LEMMA FallsOf ==
    ASSUME SessionTypeOK, AllSound, NEW s \in Sessions, Close(s) \/ LinkLost(s)
    PROVE  SessionTypeOK' /\ Falls(s)
<1> DEFINE q == sess[s].queue
           Lost == \/ durable' = durable
                   \/ q # <<>> /\ \E a, u, made : EffectOf(q[1], sess[s], a, u, made) /\ durable' = durable \cup made
<1>1. sess[s] \in SessionStates /\ q \in Seq(Statements) /\ sess[s].state = "open"
  BY QueueType DEF LinkLost, Close
<1>2. LinkLost(s) => Lost /\ durable' \in SUBSET Stmts
  <2> SUFFICES ASSUME LinkLost(s), durable' # durable PROVE Lost /\ durable' \in SUBSET Stmts
    BY DEF SessionTypeOK
  <2>1. PICK end \in Ends(s, Head(q), sess[s]) : q # <<>> /\ durable' = durable \cup end[3]
    BY DEF LinkLost
  <2>2. Head(q) = q[1] /\ q[1] \in Statements /\ Len(q) \in Nat \ {0}
    <3> HIDE DEF q
    <3> QED BY <1>1, <2>1, TailOf
  <2>3. q[1].op = "WRITE" => q[1].id \in Stmts
    <3>1. 1 \in 1 .. Len(q)
      <4> HIDE DEF q
      <4> QED BY <2>2
    <3> QED BY <3>1 DEF AllSound, HoldsOnly
  <2>4. sess[s].tx # "open" => sess[s].staged = {}
    BY DEF AllSound, Sound
  <2>5. EffectOf(q[1], sess[s], end[1], end[2], end[3])
    <3> HIDE DEF q
    <3> QED BY <1>1, <2>1, <2>2, <2>3, <2>4, EndsEffect
  <2>6. end[3] \in SUBSET Stmts
    BY <2>5 DEF EffectOf
  <2>7. Lost
    BY <2>1, <2>5
  <2> QED BY <2>1, <2>6, <2>7 DEF SessionTypeOK
<1>3. /\ sess' = [sess EXCEPT ![s] = Fresh("closed")]
      /\ UNCHANGED <<engine, conn, fired, view, creqs>>
  BY DEF LinkLost, Close
<1>4. /\ sess' \in [Sessions -> SessionStates]
      /\ \A r \in Sessions : sess'[r] = IF r = s THEN Fresh("closed") ELSE sess[r]
  BY <1>3, FreshType DEF SessionTypeOK
<1>5. \/ conn # s /\ awaiting # s /\ UNCHANGED <<awaiting, answer, durable, lost>>
      \/ /\ conn = s \/ awaiting = s
         /\ lost' = TRUE /\ Lost /\ durable' \in SUBSET Stmts
         /\ IF awaiting = s THEN awaiting' = 0 /\ answer' = "error" ELSE UNCHANGED <<awaiting, answer>>
  <2>1. CASE Close(s)
    BY <2>1 DEF Close
  <2>2. CASE LinkLost(s)
    <3>1. /\ conn = s \/ awaiting = s
          /\ lost' = TRUE
          /\ IF awaiting = s THEN awaiting' = 0 /\ answer' = "error" ELSE UNCHANGED <<awaiting, answer>>
      BY <2>2 DEF LinkLost
    <3> HIDE DEF Lost
    <3> QED BY <1>2, <2>2, <3>1
  <2> QED BY <2>1, <2>2
<1>6. Falls(s)
  BY <1>1, <1>3, <1>4, <1>5 DEF Falls
<1>7. SessionTypeOK'
  <2>1. durable' \in SUBSET Stmts
    BY <1>5 DEF SessionTypeOK
  <2>2. awaiting' \in 0 .. Aside /\ answer' \in Answers
    <3>1. awaiting \in 0 .. Aside /\ answer \in Answers /\ 0 \in 0 .. Aside /\ "error" \in Answers
      BY SessionAssumption DEF SessionTypeOK, Aside, Answers
    <3> HIDE DEF Lost
    <3> QED BY <1>5, <3>1
  <2>3. lost' \in BOOLEAN
    <3>1. lost' = lost \/ lost' = TRUE
      BY <1>5
    <3> QED BY <3>1, Zenon DEF SessionTypeOK
  <2>4. /\ engine' \in Engines /\ conn' \in 0 .. MaxSessions /\ fired' \in SUBSET Tokens
        /\ creqs' \in Nat /\ view' \in SUBSET Stmts
    BY <1>3 DEF SessionTypeOK
  <2> QED BY <1>4, <2>1, <2>2, <2>3, <2>4 DEF SessionTypeOK
<1> QED BY <1>6, <1>7

(* ServeAside keeps the types and answers the read.                        *)
LEMMA AsideOf ==
    ASSUME SessionTypeOK, ServeAside
    PROVE  SessionTypeOK' /\ AsideServed
<1>1. AsideServed /\ creqs' = creqs /\ view' \in {durable, view}
  BY DEF ServeAside, AsideServed
<1>2. 0 \in 0 .. Aside /\ {"ok", "error"} \subseteq Answers
  BY SessionAssumption DEF Aside, Answers
<1>3. /\ sess' \in [Sessions -> SessionStates] /\ conn' \in 0 .. MaxSessions
      /\ engine' \in Engines /\ fired' \in SUBSET Tokens /\ creqs' \in Nat
      /\ durable' \in SUBSET Stmts /\ view' \in SUBSET Stmts
      /\ awaiting' \in 0 .. Aside /\ answer' \in Answers
  BY <1>1, <1>2 DEF SessionTypeOK, AsideServed
<1>4. lost' \in BOOLEAN
  BY <1>1, Zenon DEF SessionTypeOK, AsideServed
<1> QED BY <1>1, <1>3, <1>4 DEF SessionTypeOK

(* What the server may do, one step at a time.                             *)
LEMMA ServerDoes ==
    ASSUME SessionTypeOK, AllSound, Server
    PROVE  /\ SessionTypeOK'
           /\ \/ Marked
              \/ \E s \in Sessions : \E a, v, made : Serves(s, a, v, made)
              \/ \E s \in Sessions : Falls(s)
              \/ AsideServed
<1>1. CASE \E s \in Sessions : Serve(s)
  BY <1>1, ServesOf
<1>2. CASE \E s \in Sessions : Watch(s)
  BY <1>2, WatchMarks DEF Marked, SessionTypeOK
<1>3. CASE \E s \in Sessions : Close(s) \/ LinkLost(s)
  BY <1>3, FallsOf
<1>4. CASE CancelLands
  BY <1>4, CancelMarks DEF Marked, SessionTypeOK
<1>5. CASE ServeAside
  BY <1>5, AsideOf
<1> QED BY <1>1, <1>2, <1>3, <1>4, <1>5 DEF Server

(* What a session has left in its pipeline is what it had.                 *)
LEMMA QueueAfter ==
    ASSUME SessionTypeOK, NEW s \in Sessions, NEW a, NEW v, NEW made, Serves(s, a, v, made)
    PROVE  LET q == sess[s].queue
           IN  /\ q \in Seq(Statements) /\ Len(q) \in Nat \ {0}
               /\ Len(v.queue) = Len(q) - 1
               /\ \A j \in 1 .. Len(v.queue) : j + 1 \in 1 .. Len(q) /\ v.queue[j] = q[j + 1]
               /\ v.queue = <<>> <=> Len(q) = 1
<1> DEFINE q == sess[s].queue
           p == v.queue
<1>1. q \in Seq(Statements) /\ q # <<>> /\ p = Tail(q)
  BY QueueType DEF Serves
<1> HIDE DEF q, p
<1>2. Len(q) \in Nat \ {0} /\ (p = <<>> <=> Len(q) = 1)
  BY <1>1, TailOf
<1>3. /\ Len(p) = Len(q) - 1
      /\ \A j \in 1 .. Len(p) : p[j] = q[j + 1]
  BY <1>1, HeadTailProperties
<1>4. \A j \in 1 .. Len(p) : j + 1 \in 1 .. Len(q)
  BY <1>2, <1>3
<1> QED BY <1>1, <1>2, <1>3, <1>4 DEF q, p

(* A session that holds nothing is sound.                                  *)
LEMMA SoundFresh == \A state \in {"unopened", "open", "closed"} : Sound(Fresh(state))
BY DEF Sound, Fresh

(* A wider set of writes holds too.                                        *)
LEMMA HoldsMore == ASSUME NEW A, NEW B, A \subseteq B, HoldsOnly(A) PROVE HoldsOnly(B)
BY DEF HoldsOnly

(* The server invents no writes and forgets none; it touches nothing of a  *)
(* client that awaits nothing.                                             *)
LEMMA ServerHolds ==
    ASSUME SessionTypeOK, AllSound, Server, NEW A, HoldsOnly(A)
    PROVE  HoldsOnly(A)'
<1>1. CASE Marked
  <2> SUFFICES ASSUME NEW s \in Sessions
               PROVE  /\ sess'[s].staged \subseteq A
                      /\ \A j \in 1 .. Len(sess'[s].queue) :
                             sess'[s].queue[j].op = "WRITE" => sess'[s].queue[j].id \in A
    BY <1>1 DEF Marked, HoldsOnly
  <2> QED BY <1>1 DEF Marked, Alike, HoldsOnly
<1>2. CASE \E s \in Sessions : \E a, v, made : Serves(s, a, v, made)
  <2>0. PICK s \in Sessions : \E a, v, made : Serves(s, a, v, made)
    BY <1>2
  <2>1. PICK a, v, made : Serves(s, a, v, made)
    BY <2>0
  <2> DEFINE q == sess[s].queue
  <2>2. /\ q \in Seq(Statements) /\ Len(q) \in Nat \ {0}
        /\ \A j \in 1 .. Len(v.queue) : j + 1 \in 1 .. Len(q) /\ v.queue[j] = q[j + 1]
    BY <2>1, QueueAfter
  <2>3. 1 \in 1 .. Len(q)
    <3> HIDE DEF q
    <3> QED BY <2>2
  <2>4. made \cup v.staged \subseteq sess[s].staged \cup (IF q[1].op = "WRITE" THEN {q[1].id} ELSE {})
    BY <2>1 DEF Serves, EffectOf
  <2>5. sess[s].staged \subseteq A /\ (q[1].op = "WRITE" => q[1].id \in A)
    BY <2>3 DEF HoldsOnly
  <2>6. made \subseteq A /\ v.staged \subseteq A
    BY <2>4, <2>5
  <2>7. \A j \in 1 .. Len(v.queue) : v.queue[j].op = "WRITE" => v.queue[j].id \in A
    BY <2>2 DEF HoldsOnly
  <2>8. durable' \subseteq A
    BY <2>1, <2>6 DEF Serves, HoldsOnly
  <2>9. \A r \in Sessions : sess'[r] = IF r = s THEN v ELSE sess[r]
    BY <2>1 DEF Serves
  <2> QED BY <2>6, <2>7, <2>8, <2>9 DEF HoldsOnly
<1>3. CASE \E s \in Sessions : Falls(s)
  <2>1. PICK s \in Sessions : Falls(s)
    BY <1>3
  <2>2. \A r \in Sessions : sess'[r] = IF r = s THEN Fresh("closed") ELSE sess[r]
    BY <2>1 DEF Falls
  <2>3. Fresh("closed").staged = {} /\ Fresh("closed").queue = <<>> /\ 1 .. Len(<<>>) = {}
    BY DEF Fresh
  <2>4. durable' \subseteq A
    <3>1. CASE durable' = durable
      BY <3>1 DEF HoldsOnly
    <3>2. CASE durable' # durable
      <4> DEFINE q == sess[s].queue
      <4>1. PICK a, u, made : q # <<>> /\ EffectOf(q[1], sess[s], a, u, made) /\ durable' = durable \cup made
        BY <2>1, <3>2 DEF Falls
      <4>2. 1 \in 1 .. Len(q)
        <5>1. q \in Seq(Statements)
          BY QueueType
        <5> HIDE DEF q
        <5> QED BY <4>1, <5>1, EmptySeq
      <4>3. made \subseteq sess[s].staged \cup (IF q[1].op = "WRITE" THEN {q[1].id} ELSE {})
        BY <4>1 DEF EffectOf
      <4>4. sess[s].staged \subseteq A /\ (q[1].op = "WRITE" => q[1].id \in A)
        BY <4>2 DEF HoldsOnly
      <4> QED BY <4>1, <4>3, <4>4 DEF HoldsOnly
    <3> QED BY <3>1, <3>2
  <2> QED BY <2>2, <2>3, <2>4 DEF HoldsOnly
<1>4. CASE AsideServed
  BY <1>4 DEF AsideServed, HoldsOnly
<1> QED BY <1>1, <1>2, <1>3, <1>4, ServerDoes

(* The server keeps the types and its sessions sound.                      *)
LEMMA ServerSound ==
    ASSUME SessionTypeOK, AllSound, Server
    PROVE  /\ SessionTypeOK' /\ AllSound'
           /\ UNCHANGED <<engine, conn, fired>>
           /\ durable \subseteq durable' /\ (lost => lost')
           /\ awaiting' = awaiting \/ awaiting' = 0
           /\ awaiting = 0 => UNCHANGED <<awaiting, answer>>
           /\ conn = 0 /\ awaiting = 0 => lost' = lost
           /\ conn = 0 /\ awaiting = 0 /\ (\A s \in Sessions : sess[s] = Fresh("unopened")) =>
                  \A s \in Sessions : sess'[s] = Fresh("unopened")
<1>1. SessionTypeOK' /\ HoldsOnly(Stmts)'
  BY ServerDoes, ServerHolds DEF AllSound
<1>2. /\ UNCHANGED <<engine, conn, fired>>
      /\ durable \subseteq durable' /\ (lost => lost')
      /\ awaiting' = awaiting \/ awaiting' = 0
      /\ awaiting = 0 => UNCHANGED <<awaiting, answer>>
      /\ answer' # answer => awaiting' = 0
      /\ conn = 0 /\ awaiting = 0 => lost' = lost
  <2>1. CASE Marked \/ AsideServed
    BY <2>1, ZeroIsNoSession DEF Marked, AsideServed
  <2>2. CASE \E s \in Sessions : \E a, v, made : Serves(s, a, v, made)
    <3>0. PICK s \in Sessions : \E a, v, made : Serves(s, a, v, made)
      BY <2>2
    <3>1. PICK a, v, made : Serves(s, a, v, made)
      BY <3>0
    <3>2. /\ UNCHANGED <<engine, conn, fired, lost>> /\ durable' = durable \cup made
          /\ UNCHANGED <<awaiting, answer>> \/ (awaiting = s /\ awaiting' = 0)
      BY <3>1 DEF Serves
    <3> QED BY <3>2, ZeroIsNoSession
  <2>3. CASE \E s \in Sessions : Falls(s)
    <3>1. PICK s \in Sessions : Falls(s)
      BY <2>3
    <3>2. /\ UNCHANGED <<engine, conn, fired>>
          /\ durable' = durable \/ \E made : durable' = durable \cup made
          /\ \/ UNCHANGED <<awaiting, answer, lost>>
             \/ (conn = s \/ awaiting = s) /\ lost' = TRUE
                /\ (UNCHANGED <<awaiting, answer>> \/ (awaiting = s /\ awaiting' = 0))
      BY <3>1 DEF Falls
    <3> QED BY <3>2, ZeroIsNoSession
  <2> QED BY <2>1, <2>2, <2>3, ServerDoes
<1>3. \A s \in Sessions : Sound(sess'[s])
  <2>1. CASE Marked
    <3> SUFFICES ASSUME NEW s \in Sessions PROVE Sound(sess'[s])
      OBVIOUS
    <3> DEFINE u == sess[s]
               v == sess'[s]
    <3>1. Alike(u, v) /\ Sound(u) /\ u \in SessionStates /\ v \in SessionStates
      BY <2>1, QueueType DEF Marked, AllSound
    <3>2. v.state # "open" => v = Fresh(v.state)
      <4> SUFFICES ASSUME v.state # "open" PROVE v = Fresh(v.state)
        OBVIOUS
      <4>1. u = Fresh(v.state) /\ u.queue = <<>>
        BY <3>1 DEF Sound, Alike, Fresh
      <4>2. v.queue = <<>> /\ v.tx = u.tx /\ v.staged = u.staged /\ v.state = u.state
        BY <3>1, <4>1 DEF Alike
      <4>3. v = [state |-> v.state, tx |-> v.tx, staged |-> v.staged, queue |-> v.queue]
        BY <3>1 DEF SessionStates
      <4> QED BY <4>1, <4>2, <4>3 DEF Fresh
    <3>3. v.tx # "open" => v.staged = {}
      BY <3>1 DEF Sound, Alike
    <3> QED BY <3>2, <3>3 DEF Sound
  <2>2. CASE \E s \in Sessions : \E a, v, made : Serves(s, a, v, made)
    <3>0. PICK s \in Sessions : \E a, v, made : Serves(s, a, v, made)
      BY <2>2
    <3>1. PICK a, v, made : Serves(s, a, v, made)
      BY <3>0
    <3>2. Sound(v)
      BY <3>1 DEF Serves, EffectOf, Sound
    <3> QED BY <3>1, <3>2 DEF Serves, AllSound
  <2>3. CASE \E s \in Sessions : Falls(s)
    BY <2>3, SoundFresh DEF Falls, AllSound
  <2>4. CASE AsideServed
    BY <2>4 DEF AsideServed, AllSound
  <2> QED BY <2>1, <2>2, <2>3, <2>4, ServerDoes
<1>4. AllSound'
  BY <1>1, <1>2, <1>3 DEF AllSound
<1>5. conn = 0 /\ awaiting = 0 /\ (\A s \in Sessions : sess[s] = Fresh("unopened")) =>
           \A s \in Sessions : sess'[s] = Fresh("unopened")
  <2> SUFFICES ASSUME \A s \in Sessions : sess[s] = Fresh("unopened")
               PROVE  \A s \in Sessions : sess'[s] = Fresh("unopened")
    OBVIOUS
  <2>1. \A s \in Sessions : sess[s].state = "unopened"
    BY DEF Fresh
  <2>2. Marked \/ AsideServed
    BY <2>1, ServerDoes DEF Serves, Falls
  <2>3. CASE Marked
    <3>1. \A s \in Sessions : sess'[s].state = "unopened"
      BY <2>1, <2>3 DEF Marked, Alike
    <3> QED BY <1>3, <3>1 DEF Sound
  <2>4. CASE AsideServed
    BY <2>4 DEF AsideServed
  <2> QED BY <2>2, <2>3, <2>4
<1> QED BY <1>1, <1>2, <1>4, <1>5

-----------------------------------------------------------------------------
(* The numbers of a run's statements *)

(* Multiples of a file's length, in order.                                 *)
LEMMA Products ==
    ASSUME NEW a \in Nat, NEW b \in Nat, NEW l \in Nat
    PROVE  /\ a * l \in Nat /\ (a + 1) * l = a * l + l
           /\ a <= b => a * l <= b * l
<1>1. a * l \in Nat /\ (a + 1) * l = a * l + l
  OBVIOUS
<1>2. ASSUME a <= b PROVE a * l <= b * l
  <2>1. PICK c \in Nat : b = a + c
    <3>1. b - a \in Nat /\ b = a + (b - a)
      BY <1>2
    <3> QED BY <3>1
  <2>2. b * l = a * l + c * l /\ c * l \in Nat /\ a * l \in Nat
    BY <2>1
  <2> QED BY <2>2
<1> QED BY <1>1, <1>2

(* The statements of a file are statements of the run.                     *)
LEMMA FileNumbers ==
    ASSUME NEW f \in Files
    PROVE  /\ FirstOf(f) \in Nat \ {0} /\ LastOf(f) \in Nat \ {0}
           /\ FirstOf(f) <= LastOf(f)
           /\ LastOf(f) <= NFiles * FileLen /\ NFiles * FileLen \in Nat
           /\ FirstOf(f) .. LastOf(f) \subseteq Stmts
<1>1. /\ NFiles \in Nat /\ FileLen \in Nat \ {0} /\ f \in Nat /\ f - 1 \in Nat /\ f <= NFiles
      /\ f = (f - 1) + 1
  BY ScriptAssumption DEF Files
<1> DEFINE a == (f - 1) * FileLen
           b == f * FileLen
           c == NFiles * FileLen
<1>2. a \in Nat /\ b = a + FileLen /\ c \in Nat
  BY <1>1, Products
<1>3. b <= c
  BY <1>1, Products
<1>4. FirstOf(f) = a + 1 /\ LastOf(f) = b /\ Stmts = 1 .. c
  BY ScriptAssumption DEF FirstOf, LastOf
<1> HIDE DEF a, b, c
<1>5. c = NFiles * FileLen
  BY DEF c
<1>6. a + 1 \in Nat \ {0} /\ b \in Nat \ {0} /\ a + 1 <= b /\ (a + 1) .. b \subseteq 1 .. c
  BY <1>1, <1>2, <1>3
<1> QED BY <1>2, <1>3, <1>4, <1>5, <1>6

(* A file's statements come before those of the next.                      *)
LEMMA FilesInOrder ==
    ASSUME NEW f \in Files, NEW g \in Files, f < g
    PROVE  LastOf(f) < FirstOf(g)
<1>1. FileLen \in Nat \ {0} /\ f \in Nat /\ g - 1 \in Nat /\ f <= g - 1
  BY ScriptAssumption DEF Files
<1> DEFINE a == f * FileLen
           b == (g - 1) * FileLen
<1>2. a \in Nat /\ b \in Nat /\ a <= b
  BY <1>1, Products
<1> HIDE DEF a, b
<1>3. a < b + 1
  BY <1>2
<1> QED BY <1>3 DEF a, b, FirstOf, LastOf

(* No statement belongs to two files.                                      *)
LEMMA FilesApart ==
    ASSUME NEW f \in Files, NEW g \in Files, f # g
    PROVE  WritesOf(f) \cap WritesOf(g) = {}
<1>1. /\ FirstOf(f) \in Nat /\ LastOf(f) \in Nat /\ FirstOf(g) \in Nat /\ LastOf(g) \in Nat
  BY FileNumbers
<1>2. f < g \/ g < f
  BY DEF Files
<1>3. LastOf(f) < FirstOf(g) \/ LastOf(g) < FirstOf(f)
  BY <1>2, FilesInOrder
<1> HIDE DEF FirstOf, LastOf
<1>4. (FirstOf(f) .. LastOf(f)) \cap (FirstOf(g) .. LastOf(g)) = {}
  BY <1>1, <1>3
<1> QED BY <1>4 DEF WritesOf

(* A file's writes are statements of the run.                              *)
LEMMA WritesAreStmts == \A f \in Files : WritesOf(f) \subseteq Stmts
BY FileNumbers DEF WritesOf

-----------------------------------------------------------------------------
(* The control of the run *)

InFile  == {"fbegin", "split", "check", "issue", "await", "fcommit", "frollback",
            "stop", "rollback", "fend"}
Leaving == {"stop", "rollback", "fend"}

(* Where the run may be, in which file and under which TxScope.            *)
PlacesOK ==
    /\ at \in InFile => file \in Files
    /\ at \in {"start", "begin"} => file = 1
    /\ at \in {"wcommit", "wrollback"} => file = NFiles + 1
    /\ at \in {"begin", "wcommit", "wrollback"} => opts.scope = "WholeRun"
    /\ at \in {"fbegin", "fcommit", "frollback"} => opts.scope = "PerFile"
    /\ at = "rollback" => opts.scope # "None"
    /\ at = "done" <=> report # "none"
    /\ report = "completed" => file = NFiles + 1

(* What the progress tab shows of a file while the run is on.              *)
Outcome(f) == IF f \in failed THEN "Failed" ELSE "Done"
ChipOf(f) ==
    IF f < file THEN Outcome(f)
    ELSE IF f = file /\ at \in InFile THEN "Running" ELSE "Pending"

ChipsOK ==
    /\ at # "done" => \A f \in Files : chip[f] = ChipOf(f)
    /\ report = "completed" => \A f \in Files : chip[f] = Outcome(f)

(* Why a file is left, and which of its statements the run is at.          *)
StopsOK ==
    /\ \A f \in failed : f <= file
    /\ file \in failed => \/ at \in Leaving \cup {"done"}
                          \/ opts.scope = "None" /\ at \in {"check", "issue", "await"}
    /\ at \notin Leaving \cup {"done"} => stop = "none"
    /\ at \in {"stop", "rollback"} => stop # "none"
    /\ at = "rollback" /\ opts.scope = "WholeRun" => stop = "AbortRun"
    /\ at \in Leaving /\ stop = "NextFile" => file \in failed
    /\ at = "fend" /\ stop = "none" /\ opts.scope # "None" => file \notin failed

StatementOK ==
    /\ at \in {"fbegin", "split"} => stmt = FirstOf(file)
    /\ at = "check" => FirstOf(file) <= stmt /\ stmt <= LastOf(file) + 1
    /\ at \in {"issue", "await"} => FirstOf(file) <= stmt /\ stmt <= LastOf(file)
    /\ at = "fcommit" \/ (at = "fend" /\ stop = "none") => stmt > LastOf(file)

ControlType ==
    /\ opts \in [scope : TxScopes, policy : Policies, readOnly : BOOLEAN]
    /\ at \in Places
    /\ file \in 1 .. NFiles + 1
    /\ stmt \in 1 .. NFiles * FileLen + 1
    /\ stop \in {"none", "AbortRun", "NextFile"}
    /\ finished \in SUBSET Stmts
    /\ failed \in SUBSET Files
    /\ chip \in [Files -> {"Pending", "Running", "Done", "Failed", "Skipped"}]
    /\ report \in {"none", "completed", "aborted"}

ControlInv == ControlType /\ PlacesOK /\ ChipsOK /\ StopsOK /\ StatementOK

(* The moves of the run that change nothing else of its control.           *)
Moves(place) ==
    \/ at = "start" /\ place = "begin" /\ opts.scope = "WholeRun"
    \/ at = "start" /\ place = "file"
    \/ at = "begin" /\ place = "file"
    \/ at = "file" /\ place = "wcommit" /\ file = NFiles + 1 /\ opts.scope = "WholeRun"
    \/ at = "wcommit" /\ place = "wrollback"
    \/ at = "fbegin" /\ place = "split"
    \/ at = "split" /\ place = "check"
    \/ at = "check" /\ place = "issue" /\ stmt <= LastOf(file)
    \/ at = "check" /\ place = "fcommit" /\ opts.scope = "PerFile" /\ stmt > LastOf(file)
    \/ at = "check" /\ place = "fend" /\ stmt > LastOf(file)
    \/ at = "issue" /\ place = "await"
    \/ at = "fcommit" /\ place \in {"fend", "frollback"}
    \/ /\ at = "stop" /\ place = "rollback"
       /\ opts.scope = "PerFile" \/ (opts.scope = "WholeRun" /\ stop = "AbortRun")
    \/ at \in {"stop", "rollback"} /\ place = "fend"

(* The run's place among its files: one of them, or past the last.         *)
LEMMA FilesAre ==
    /\ 1 \in Files
    /\ \A f \in 1 .. NFiles + 1 : (f <= NFiles => f \in Files) /\ (f > NFiles => f = NFiles + 1)
    /\ \A f \in Files : f \in 1 .. NFiles + 1 /\ f + 1 \in 1 .. NFiles + 1
    /\ NFiles + 1 \notin Files
BY ScriptAssumption DEF Files

(* ControlInv holds after a move to another place.                         *)
LEMMA GotoKeeps ==
    ASSUME ControlInv, NEW place, Moves(place), Goto(place)
    PROVE  ControlInv'
<1>1. /\ at' = place /\ UNCHANGED <<opts, file, stmt, stop, finished, failed, chip, report>>
      /\ at # "done" /\ place \in Places \ {"done"}
      /\ at \in Places
  BY DEF Goto, Moves, ControlInv, ControlType, Places
<1>2. ControlType'
  BY <1>1 DEF ControlInv, ControlType
<1>3. PlacesOK'
  BY <1>1, FilesAre DEF ControlInv, PlacesOK, Moves, InFile
<1>4. ChipsOK'
  <2>1. place \in InFile <=> at \in InFile
    BY DEF Moves, InFile
  <2>2. report = "none"
    BY <1>1 DEF ControlInv, PlacesOK, ControlType
  <2> QED BY <1>1, <2>1, <2>2 DEF ControlInv, ChipsOK, ChipOf, Outcome
<1>5. StopsOK'
  <2>1. at = "stop" /\ stop = "NextFile" => file \in failed
    BY DEF ControlInv, StopsOK, Leaving
  <2> QED BY <1>1 DEF ControlInv, StopsOK, Moves, Leaving
<1>6. StatementOK'
  <2>1. at \in {"split"} => file \in Files /\ stmt = FirstOf(file)
    BY DEF ControlInv, StatementOK, PlacesOK, InFile
  <2>2. file \in Files => FirstOf(file) \in Nat /\ LastOf(file) \in Nat /\ FirstOf(file) <= LastOf(file)
    BY FileNumbers
  <2>3. at \in {"stop", "rollback"} => stop # "none"
    BY DEF ControlInv, StopsOK
  <2>4. at = "split" => FirstOf(file) <= stmt /\ stmt <= LastOf(file) + 1
    BY <2>1, <2>2
  <2>5. UNCHANGED <<FirstOf(file), LastOf(file)>>
    BY <1>1
  <2>6. /\ at = "fbegin" => stmt = FirstOf(file)
        /\ at = "check" => FirstOf(file) <= stmt /\ stmt <= LastOf(file) + 1
        /\ at = "issue" => FirstOf(file) <= stmt /\ stmt <= LastOf(file)
        /\ at = "fcommit" => stmt > LastOf(file)
    BY DEF ControlInv, StatementOK
  <2> HIDE DEF FirstOf, LastOf
  <2> QED BY <1>1, <2>3, <2>4, <2>5, <2>6 DEF Moves, StatementOK
<1> QED BY <1>2, <1>3, <1>4, <1>5, <1>6 DEF ControlInv

(* ControlInv holds after a file-level failure.                            *)
LEMMA FileFailsKeeps ==
    ASSUME ControlInv, at \in {"fbegin", "split", "frollback"}, FileFails
    PROVE  ControlInv'
<1>1. /\ failed' = failed \cup {file} /\ at' = "stop" /\ stop' \in {"AbortRun", "NextFile"}
      /\ UNCHANGED <<opts, file, stmt, finished, chip, report>>
      /\ file \in Files /\ report = "none"
  BY DEF FileFails, FileLevelAction, ControlInv, PlacesOK, InFile, ControlType
<1>2. ControlType'
  BY <1>1 DEF ControlInv, ControlType, Places
<1>3. PlacesOK'
  BY <1>1 DEF ControlInv, PlacesOK, InFile
<1>4. ChipsOK'
  <2> SUFFICES ASSUME NEW f \in Files PROVE (chip[f] = ChipOf(f))'
    BY <1>1 DEF ChipsOK
  <2>1. chip[f] = ChipOf(f)
    BY <1>1 DEF ControlInv, ChipsOK
  <2>2. f < file => f # file
    BY <1>1 DEF Files
  <2> QED BY <1>1, <2>1, <2>2 DEF ChipOf, Outcome, InFile
<1>5. StopsOK'
  <2>1. file <= file /\ \A f \in failed : f <= file
    BY <1>1 DEF ControlInv, StopsOK, Files
  <2> QED BY <1>1, <2>1 DEF StopsOK, Leaving
<1>6. StatementOK'
  BY <1>1 DEF StatementOK
<1> QED BY <1>2, <1>3, <1>4, <1>5, <1>6 DEF ControlInv

(* ControlInv holds after the failure of a statement.                      *)
LEMMA StatementFailsKeeps ==
    ASSUME ControlInv, at \in {"issue", "await"}, StatementFails
    PROVE  ControlInv'
<1>1. /\ failed' = failed \cup {file}
      /\ UNCHANGED <<opts, file, finished, chip, report>>
      /\ file \in Files /\ report = "none"
  BY DEF StatementFails, ControlInv, PlacesOK, InFile
<1>2. \/ opts.scope = "None" /\ at' = "check" /\ stmt' = stmt + 1 /\ stop' = stop
      \/ at' = "stop" /\ stop' \in {"AbortRun", "NextFile"} /\ stmt' = stmt
  BY DEF StatementFails, FailureAction
<1>3. /\ FirstOf(file) <= stmt /\ stmt <= LastOf(file) /\ stmt \in Nat
      /\ FirstOf(file) \in Nat /\ LastOf(file) \in Nat
      /\ LastOf(file) <= NFiles * FileLen /\ NFiles * FileLen \in Nat
  BY <1>1, FileNumbers DEF ControlInv, StatementOK, ControlType
<1>n. stmt \in 1 .. NFiles * FileLen + 1
  BY DEF ControlInv, ControlType
<1>4. stmt + 1 \in 1 .. NFiles * FileLen + 1 /\ stmt + 1 <= LastOf(file) + 1 /\ FirstOf(file) <= stmt + 1
  <2> HIDE DEF FirstOf, LastOf
  <2> DEFINE c == NFiles * FileLen
             l == LastOf(file)
  <2>1. stmt \in Nat /\ l \in Nat /\ c \in Nat /\ stmt <= l /\ l <= c /\ FirstOf(file) \in Nat /\ FirstOf(file) <= stmt
    BY <1>3
  <2> HIDE DEF c, l
  <2>2. stmt + 1 \in 1 .. c + 1 /\ stmt + 1 <= l + 1 /\ FirstOf(file) <= stmt + 1
    BY <2>1
  <2> QED BY <2>2 DEF c, l
<1>5. ControlType'
  BY <1>1, <1>2, <1>4, <1>n DEF ControlInv, ControlType, Places
<1>6. PlacesOK'
  BY <1>1, <1>2 DEF ControlInv, PlacesOK, InFile
<1>7. ChipsOK'
  <2> SUFFICES ASSUME NEW f \in Files PROVE (chip[f] = ChipOf(f))'
    BY <1>1 DEF ChipsOK
  <2>1. chip[f] = ChipOf(f)
    BY DEF ControlInv, ChipsOK
  <2>2. f < file => f # file
    BY <1>1 DEF Files
  <2>3. at' \in InFile /\ at \in InFile
    BY <1>2 DEF InFile
  <2> QED BY <1>1, <2>1, <2>2, <2>3 DEF ChipOf, Outcome
<1>8. StopsOK'
  <2>1. file <= file /\ \A f \in failed : f <= file
    BY <1>1 DEF ControlInv, StopsOK, Files
  <2>2. stop = "none"
    BY DEF ControlInv, StopsOK, Leaving
  <2> QED BY <1>1, <1>2, <2>1, <2>2 DEF StopsOK, Leaving
<1>9. StatementOK'
  <2> HIDE DEF FirstOf, LastOf
  <2>1. UNCHANGED <<FirstOf(file), LastOf(file)>>
    BY <1>1 DEF FirstOf, LastOf
  <2> QED BY <1>2, <1>4, <2>1 DEF StatementOK
<1> QED BY <1>5, <1>6, <1>7, <1>8, <1>9 DEF ControlInv

(* ControlInv holds after RunFinished.                                     *)
LEMMA FinishKeeps ==
    ASSUME ControlInv, NEW r \in {"completed", "aborted"}, NEW c, Finish(r, c),
           c \in [Files -> {"Pending", "Running", "Done", "Failed", "Skipped"}],
           r = "completed" => /\ at \in {"file", "wcommit"} /\ file = NFiles + 1
                              /\ c = chip
    PROVE  ControlInv'
<1>1. /\ at' = "done" /\ report' = r
      /\ chip' = IF r = "aborted" THEN Skipped(c) ELSE c
      /\ UNCHANGED <<opts, file, stmt, stop, finished, failed>>
  BY DEF Finish
<1>2. ControlType'
  <2>1. Skipped(c) \in [Files -> {"Pending", "Running", "Done", "Failed", "Skipped"}]
    BY DEF Skipped
  <2> QED BY <1>1, <2>1 DEF ControlInv, ControlType, Places
<1>3. PlacesOK'
  BY <1>1 DEF PlacesOK, InFile
<1>4. ChipsOK'
  <2> SUFFICES ASSUME r = "completed", NEW f \in Files PROVE (chip[f] = Outcome(f))'
    BY <1>1 DEF ChipsOK
  <2>1. chip[f] = ChipOf(f)
    BY DEF ControlInv, ChipsOK
  <2>2. f < file
    BY FilesAre, ScriptAssumption DEF Files
  <2> QED BY <1>1, <2>1, <2>2 DEF ChipOf, Outcome
<1>5. StopsOK'
  BY <1>1 DEF StopsOK, ControlInv, Leaving
<1>6. StatementOK'
  BY <1>1 DEF StatementOK
<1> QED BY <1>2, <1>3, <1>4, <1>5, <1>6 DEF ControlInv

(* ControlInv holds after the start of a file.                             *)
LEMMA StartFileKeeps ==
    ASSUME ControlInv, StartFile
    PROVE  ControlInv'
<1>1. /\ at = "file" /\ file \in Files
      /\ chip' = [chip EXCEPT ![file] = "Running"]
      /\ stmt' = FirstOf(file)
      /\ \/ opts.scope = "PerFile" /\ at' = "fbegin"
         \/ opts.scope # "PerFile" /\ at' = "split"
      /\ UNCHANGED <<opts, file, stop, finished, failed, report>>
      /\ report = "none" /\ stop = "none" /\ file \notin failed
  BY FilesAre DEF StartFile, ControlInv, ControlType, PlacesOK, StopsOK, Leaving
<1>2. FirstOf(file) \in 1 .. NFiles * FileLen + 1
  <2> HIDE DEF FirstOf, LastOf
  <2> DEFINE c == NFiles * FileLen
             l == LastOf(file)
  <2>1. FirstOf(file) \in Nat \ {0} /\ l \in Nat /\ c \in Nat /\ FirstOf(file) <= l /\ l <= c
    BY <1>1, FileNumbers
  <2> HIDE DEF c, l
  <2>2. FirstOf(file) \in 1 .. c + 1
    BY <2>1
  <2> QED BY <2>2 DEF c
<1>3. ControlType'
  <2>1. chip' \in [Files -> {"Pending", "Running", "Done", "Failed", "Skipped"}]
    BY <1>1 DEF ControlInv, ControlType
  <2>2. stmt' \in 1 .. NFiles * FileLen + 1
    BY <1>1, <1>2
  <2>3. at' \in Places
    BY <1>1 DEF Places
  <2> QED BY <1>1, <2>1, <2>2, <2>3 DEF ControlInv, ControlType
<1>4. PlacesOK'
  BY <1>1 DEF ControlInv, PlacesOK, InFile
<1>5. ChipsOK'
  <2> SUFFICES ASSUME NEW f \in Files PROVE (chip[f] = ChipOf(f))'
    BY <1>1 DEF ChipsOK
  <2>1. chip[f] = ChipOf(f)
    BY <1>1 DEF ControlInv, ChipsOK
  <2>2. chip'[f] = IF f = file THEN "Running" ELSE chip[f]
    BY <1>1 DEF ControlInv, ControlType
  <2>3. f < file => f # file
    BY <1>1 DEF Files
  <2> QED BY <1>1, <2>1, <2>2, <2>3 DEF ChipOf, Outcome, InFile
<1>6. StopsOK'
  BY <1>1 DEF StopsOK, ControlInv, Leaving
<1>7. StatementOK'
  BY <1>1 DEF StatementOK, FirstOf
<1> QED BY <1>3, <1>4, <1>5, <1>6, <1>7 DEF ControlInv

(* ControlInv holds after a statement has finished.                        *)
LEMMA StatementFinishedKeeps ==
    ASSUME ControlInv, StatementFinished
    PROVE  ControlInv'
<1>1. /\ at = "await" /\ at' = "check" /\ stmt' = stmt + 1 /\ finished' = finished \cup {stmt}
      /\ UNCHANGED <<opts, file, stop, failed, chip, report>>
      /\ file \in Files /\ report = "none" /\ stop = "none"
  BY DEF StatementFinished, ControlInv, PlacesOK, StopsOK, InFile, Leaving
<1> DEFINE c == NFiles * FileLen
           l == LastOf(file)
<1>2. /\ stmt \in Nat /\ l \in Nat /\ c \in Nat /\ FirstOf(file) \in Nat \ {0}
      /\ FirstOf(file) <= stmt /\ stmt <= l /\ l <= c /\ Stmts = 1 .. c
  BY <1>1, FileNumbers, ScriptAssumption DEF ControlInv, StatementOK, ControlType
<1> HIDE DEF c, l
<1>3. stmt + 1 \in 1 .. c + 1 /\ stmt + 1 <= l + 1 /\ FirstOf(file) <= stmt + 1 /\ stmt \in Stmts
  BY <1>2
<1>4. ControlType'
  <2>1. stmt' \in 1 .. NFiles * FileLen + 1 /\ finished' \in SUBSET Stmts
    BY <1>1, <1>3 DEF c, ControlInv, ControlType
  <2> QED BY <1>1, <2>1 DEF ControlInv, ControlType, Places
<1>5. PlacesOK'
  BY <1>1 DEF ControlInv, PlacesOK, InFile
<1>6. ChipsOK'
  BY <1>1 DEF ControlInv, ChipsOK, ChipOf, Outcome, InFile
<1>7. StopsOK'
  BY <1>1 DEF ControlInv, StopsOK, Leaving
<1>8. StatementOK'
  <2>1. UNCHANGED <<FirstOf(file), LastOf(file)>>
    BY <1>1 DEF FirstOf, LastOf
  <2> HIDE DEF FirstOf, LastOf
  <2> QED BY <1>1, <1>3, <2>1 DEF l, StatementOK
<1> QED BY <1>4, <1>5, <1>6, <1>7, <1>8 DEF ControlInv

(* ControlInv holds after the look at the run's token.                     *)
LEMMA CheckCancelKeeps ==
    ASSUME ControlInv, CheckCancel
    PROVE  ControlInv'
<1>1. CASE Goto("issue")
  BY <1>1, GotoKeeps DEF CheckCancel, Moves
<1>2. CASE ~Goto("issue")
  <2>1. /\ at = "check" /\ at' = "stop" /\ stop' = "AbortRun"
        /\ UNCHANGED <<opts, file, stmt, finished, failed, chip, report>>
        /\ file \in Files /\ report = "none"
    BY <1>2 DEF CheckCancel, ControlInv, PlacesOK, InFile
  <2>2. ControlType'
    BY <2>1 DEF ControlInv, ControlType, Places
  <2>3. PlacesOK'
    BY <2>1 DEF ControlInv, PlacesOK, InFile
  <2>4. ChipsOK'
    BY <2>1 DEF ControlInv, ChipsOK, ChipOf, Outcome, InFile
  <2>5. StopsOK'
    BY <2>1 DEF ControlInv, StopsOK, Leaving
  <2>6. StatementOK'
    BY <2>1 DEF StatementOK
  <2> QED BY <2>2, <2>3, <2>4, <2>5, <2>6 DEF ControlInv
<1> QED BY <1>1, <1>2

(* What EndFile shows: the outcome of the file it leaves.                  *)
LEMMA ShownIs ==
    ASSUME ControlInv, at = "fend"
    PROVE  /\ Shown \in [Files -> {"Pending", "Running", "Done", "Failed", "Skipped"}]
           /\ \A f \in Files : Shown[f] = IF f <= file THEN Outcome(f) ELSE "Pending"
<1>1. file \in Files /\ chip \in [Files -> {"Pending", "Running", "Done", "Failed", "Skipped"}]
  BY DEF ControlInv, PlacesOK, InFile, ControlType
<1>2. Shown = [chip EXCEPT ![file] = Outcome(file)]
  BY DEF Shown, Outcome
<1>3. Shown \in [Files -> {"Pending", "Running", "Done", "Failed", "Skipped"}]
  BY <1>1, <1>2 DEF Outcome
<1>4. ASSUME NEW f \in Files PROVE Shown[f] = IF f <= file THEN Outcome(f) ELSE "Pending"
  <2>1. Shown[f] = IF f = file THEN Outcome(f) ELSE ChipOf(f)
    BY <1>1, <1>2 DEF ControlInv, ChipsOK
  <2>2. f <= file <=> f < file \/ f = file
    BY <1>1 DEF Files
  <2>3. f < file => f # file
    BY <1>1 DEF Files
  <2> QED BY <2>1, <2>2, <2>3 DEF ChipOf
<1> QED BY <1>3, <1>4

(* ControlInv holds after the end of a file.                               *)
LEMMA EndFileKeeps ==
    ASSUME ControlInv, EndFile
    PROVE  ControlInv'
<1>1. at = "fend" /\ file \in Files /\ report = "none"
  BY DEF EndFile, ControlInv, PlacesOK, InFile
<1>2. CASE Finish("aborted", Shown)
  BY <1>1, <1>2, ShownIs, FinishKeeps
<1>3. CASE ~Finish("aborted", Shown)
  <2>1. /\ chip' = Shown /\ file' = file + 1 /\ stop' = "none" /\ at' = "file"
        /\ UNCHANGED <<opts, stmt, finished, failed, report>>
    BY <1>3 DEF EndFile
  <2>2. ControlType'
    BY <1>1, <2>1, ShownIs, FilesAre DEF ControlInv, ControlType, Places
  <2>3. PlacesOK'
    BY <1>1, <2>1 DEF ControlInv, PlacesOK, InFile
  <2>4. ChipsOK'
    <3> SUFFICES ASSUME NEW f \in Files PROVE (chip[f] = ChipOf(f))'
      BY <1>1, <2>1 DEF ChipsOK
    <3>1. Shown[f] = IF f <= file THEN Outcome(f) ELSE "Pending"
      BY <1>1, ShownIs
    <3>2. f <= file <=> f < file + 1
      BY <1>1 DEF Files
    <3> HIDE DEF Shown
    <3> QED BY <2>1, <3>1, <3>2 DEF ChipOf, Outcome, InFile
  <2>5. StopsOK'
    <3>1. \A f \in failed : f <= file /\ f \in Files
      BY DEF ControlInv, StopsOK, ControlType
    <3>2. \A f \in failed : f <= file + 1 /\ f # file + 1
      BY <1>1, <3>1 DEF Files
    <3> QED BY <2>1, <3>2 DEF StopsOK, Leaving
  <2>6. StatementOK'
    BY <2>1 DEF StatementOK
  <2> QED BY <2>2, <2>3, <2>4, <2>5, <2>6 DEF ControlInv
<1> QED BY <1>2, <1>3

(* ControlInv is about the control variables only.                         *)
LEMMA ControlSame ==
    ASSUME ControlInv, UNCHANGED control
    PROVE  ControlInv'
<1>1. UNCHANGED <<opts, at, file, stmt, stop, finished, failed, chip, report>>
  BY DEF control
<1>2. ControlType' /\ PlacesOK'
  BY <1>1 DEF ControlInv, ControlType, PlacesOK
<1>3. ChipsOK'
  BY <1>1 DEF ControlInv, ChipsOK, ChipOf, Outcome
<1>4. StopsOK' /\ StatementOK'
  BY <1>1 DEF ControlInv, StopsOK, StatementOK, FirstOf, LastOf
<1> QED BY <1>2, <1>3, <1>4 DEF ControlInv

(* What a step of the run does to its control.                             *)
LEMMA ControlSteps ==
    ASSUME ControlInv, [Next]_vars
    PROVE  \/ UNCHANGED control
           \/ \E place : Moves(place) /\ Goto(place)
           \/ at \in {"fbegin", "split", "frollback"} /\ FileFails
           \/ at \in {"issue", "await"} /\ StatementFails
           \/ at \in {"start", "begin", "file", "wrollback"} /\ Finish("aborted", chip)
           \/ at \in {"file", "wcommit"} /\ file = NFiles + 1 /\ Finish("completed", chip)
           \/ StartFile \/ StatementFinished \/ CheckCancel \/ EndFile
<1>0. file \in 1 .. NFiles + 1 /\ (file > NFiles => file = NFiles + 1)
  BY FilesAre DEF ControlInv, ControlType
<1>p. /\ at \in {"begin", "wcommit", "wrollback"} => opts.scope = "WholeRun"
      /\ at = "wcommit" => file = NFiles + 1
  BY DEF ControlInv, PlacesOK
<1>1. CASE NotOpened \/ Start \/ RunBegun
  BY <1>1 DEF NotOpened, Start, RunBegun, Moves
<1>2. CASE CancelledAtFile \/ StartFile
  BY <1>2 DEF CancelledAtFile
<1>3. CASE FileBegun \/ Split
  BY <1>3 DEF FileBegun, Split, Moves
<1>4. CASE CheckCancel \/ EndOfStatements
  BY <1>4 DEF EndOfStatements, Moves
<1>5. CASE RejectReadOnly \/ Issue \/ StatementFinished \/ StatementFailed \/ TimeOut
  BY <1>5 DEF RejectReadOnly, Issue, StatementFailed, TimeOut, Moves
<1>6. CASE FileCommitted \/ FileRolledBack
  BY <1>6 DEF FileCommitted, FileRolledBack, Moves
<1>7. CASE StopFile \/ RolledBack \/ EndFile
  BY <1>7 DEF StopFile, RolledBack, Moves
<1>8. CASE EndOfFiles \/ RunCommitted \/ RunRolledBack
  BY <1>0, <1>p, <1>8 DEF EndOfFiles, RunCommitted, RunRolledBack, Moves
<1>9. CASE Cancel \/ (Server /\ UNCHANGED control) \/ Quiet \/ UNCHANGED vars
  BY <1>9 DEF Cancel, Quiet, vars
<1> QED BY <1>1, <1>2, <1>3, <1>4, <1>5, <1>6, <1>7, <1>8, <1>9 DEF Next, Client

(* ControlInv is inductive.                                                *)
LEMMA ControlStep == ControlInv /\ [Next]_vars => ControlInv'
<1> SUFFICES ASSUME ControlInv, [Next]_vars PROVE ControlInv'
  OBVIOUS
<1>1. chip \in [Files -> {"Pending", "Running", "Done", "Failed", "Skipped"}]
  BY DEF ControlInv, ControlType
<1> QED BY <1>1, ControlSteps, ControlSame, GotoKeeps, FileFailsKeeps, StatementFailsKeeps,
           FinishKeeps, StartFileKeeps, StatementFinishedKeeps, CheckCancelKeeps, EndFileKeeps

(* ControlInv holds at first.                                              *)
LEMMA ControlInit == Init => ControlInv
<1> SUFFICES ASSUME Init PROVE ControlInv
  OBVIOUS
<1>1. /\ opts \in [scope : TxScopes, policy : Policies, readOnly : BOOLEAN]
      /\ at = "start" /\ file = 1 /\ stmt = 1 /\ stop = "none"
      /\ finished = {} /\ failed = {}
      /\ chip = [f \in Files |-> "Pending"] /\ report = "none"
  BY DEF Init
<1>2. ControlType
  <2>1. 1 \in 1 .. NFiles + 1
    BY FilesAre
  <2>2. NFiles * FileLen \in Nat
    BY FilesAre, FileNumbers
  <2>3. 1 \in 1 .. NFiles * FileLen + 1
    <3> DEFINE c == NFiles * FileLen
    <3>1. c \in Nat
      BY <2>2
    <3> HIDE DEF c
    <3>2. 1 \in 1 .. c + 1
      BY <3>1
    <3> QED BY <3>2 DEF c
  <2> QED BY <1>1, <2>1, <2>3 DEF ControlType, Places
<1>3. PlacesOK /\ StopsOK /\ StatementOK
  BY <1>1 DEF PlacesOK, StopsOK, StatementOK, InFile, Leaving
<1>4. ChipsOK
  BY <1>1 DEF ChipsOK, ChipOf, InFile, Files
<1> QED BY <1>2, <1>3, <1>4 DEF ControlInv

-----------------------------------------------------------------------------
(* What may take effect: the writes of the files that were begun.          *)
Begun   == {f \in Files : chip[f] \notin {"Pending", "Skipped"}}
Allowed == IF opts.readOnly THEN {} ELSE UNION {WritesOf(f) : f \in Begun}

(* RunFinished unbegins no file.                                           *)
LEMMA FinishBegun ==
    ASSUME ControlInv, NEW r, NEW c, Finish(r, c),
           c \in [Files -> {"Pending", "Running", "Done", "Failed", "Skipped"}],
           \A f \in Files : c[f] # "Running" /\ (chip[f] \notin {"Pending", "Skipped"} =>
                                                  c[f] \notin {"Pending", "Skipped"})
    PROVE  Begun \subseteq Begun'
BY DEF Finish, Skipped, Begun

(* What may take effect only grows.                                        *)
LEMMA AllowedGrows ==
    ASSUME ControlInv, [Next]_vars
    PROVE  Allowed \subseteq Allowed'
<1>1. opts' = opts
  BY ControlSteps DEF control, Goto, FileFails, StatementFails, Finish, StartFile,
     StatementFinished, CheckCancel, EndFile
<1>2. Begun \subseteq Begun'
  <2>0. chip \in [Files -> {"Pending", "Running", "Done", "Failed", "Skipped"}]
    BY DEF ControlInv, ControlType
  <2>1. CASE chip' = chip
    BY <2>1 DEF Begun
  <2>2. CASE \E r \in {"completed", "aborted"} :
               at \in {"start", "begin", "file", "wrollback", "wcommit"} /\ Finish(r, chip)
    <3>1. \A f \in Files : chip[f] # "Running"
      BY <2>2 DEF ControlInv, ChipsOK, ChipOf, Outcome, InFile
    <3> QED BY <2>0, <2>2, <3>1, FinishBegun
  <2>3. CASE StartFile
    BY <2>0, <2>3 DEF StartFile, Begun
  <2>4. CASE EndFile
    <3>1. \A f \in Files : Shown[f] # "Running" /\ (chip[f] \notin {"Pending", "Skipped"} =>
                                                     Shown[f] \notin {"Pending", "Skipped"})
      BY <2>0, <2>4 DEF Shown, EndFile, ControlInv, ChipsOK, ChipOf, Outcome, PlacesOK, InFile
    <3>2. Shown \in [Files -> {"Pending", "Running", "Done", "Failed", "Skipped"}]
      BY <2>4, ShownIs DEF EndFile
    <3>3. CASE Finish("aborted", Shown)
      BY <3>1, <3>2, <3>3, FinishBegun
    <3>4. CASE chip' = Shown
      BY <3>1, <3>4 DEF Begun
    <3> QED BY <2>4, <3>3, <3>4 DEF EndFile
  <2>5. UNCHANGED control \/ StatementFinished \/ CheckCancel => chip' = chip
    BY DEF control, StatementFinished, CheckCancel, Goto
  <2>6. (\E place : Goto(place)) \/ FileFails \/ StatementFails => chip' = chip
    BY DEF Goto, FileFails, StatementFails
  <2> QED BY <2>1, <2>2, <2>3, <2>4, <2>5, <2>6, ControlSteps
<1> QED BY <1>1, <1>2 DEF Allowed, WritesOf, FirstOf, LastOf

-----------------------------------------------------------------------------
(* The client's steps *)

(* Statement st goes out on session s.                                     *)
SentOn(s, st) ==
    /\ s \in Sessions /\ sess[s].state # "closed"
    /\ sess' \in [Sessions -> SessionStates]
    /\ \A r \in Sessions : r # s => sess'[r] = sess[r]
    /\ sess'[s].state = "open" /\ sess'[s].tx = sess[s].tx /\ sess'[s].staged = sess[s].staged
    /\ sess'[s].queue = Append(sess[s].queue, st)
    /\ conn' = s /\ awaiting' = s /\ answer' = "none"

(* It does not go out: the answer is there at once.                        *)
Refused(c) ==
    /\ sess' = sess
    /\ conn' = c /\ awaiting' = 0 /\ answer' \in {"error", "cancelled"}

(* SendOn appends the statement to its session's pipeline.                 *)
LEMMA SendIs ==
    ASSUME SessionTypeOK, NEW s \in Sessions, sess[s].state # "closed", NEW st \in Statements,
           SendOn(s, st)
    PROVE  SentOn(s, st)
<1> DEFINE v == [sess[s] EXCEPT !.state = "open", !.queue = Append(@, st)]
           q == Append(sess[s].queue, st)
<1>1. sess[s] \in SessionStates /\ sess[s].queue \in Seq(Statements)
  BY QueueType
<1>2. q \in Seq(Statements)
  BY <1>1, AppendTo
<1>3. sess' = [sess EXCEPT ![s] = v] /\ conn' = s /\ awaiting' = s /\ answer' = "none"
  BY DEF SendOn
<1> HIDE DEF q
<1>4. v = [sess[s] EXCEPT !.state = "open", !.queue = q]
  BY DEF q
<1>5. /\ v \in SessionStates /\ v.state = "open" /\ v.queue = q
      /\ v.tx = sess[s].tx /\ v.staged = sess[s].staged
  BY <1>1, <1>2, <1>4 DEF SessionStates
<1> HIDE DEF v
<1>6. sess' \in [Sessions -> SessionStates] /\ \A r \in Sessions : sess'[r] = IF r = s THEN v ELSE sess[r]
  BY <1>3, <1>5 DEF SessionTypeOK
<1> QED BY <1>3, <1>5, <1>6 DEF SentOn, q

(* execute() sends its statement or is refused.                            *)
LEMMA ExecuteDoes ==
    ASSUME SessionTypeOK, NEW c \in 0 .. MaxSessions, NEW cancelled, NEW st \in Statements,
           Execute(c, cancelled, st)
    PROVE  \/ \E s \in Sessions : /\ SentOn(s, st) /\ (c # 0 => s = c)
                                  /\ c = 0 => sess[s].state = "unopened"
           \/ Refused(c) /\ (c = 0 \/ sess[c].state = "closed" \/ st.tok \in cancelled)
<1>1. CASE st.tok \in cancelled
  BY <1>1 DEF Execute, Refuse, Refused
<1>2. CASE st.tok \notin cancelled /\ c = 0
  <2>1. CASE Refuse(c, "error")
    BY <1>2, <2>1 DEF Refuse, Refused
  <2>2. CASE \E s \in Unopened : SendOn(s, st)
    BY <1>2, <2>2, SendIs DEF Unopened
  <2> QED BY <1>2, <2>1, <2>2 DEF Execute
<1>3. CASE st.tok \notin cancelled /\ c # 0
  <2>1. c \in Sessions
    BY <1>3, SessionAssumption DEF Sessions
  <2>2. CASE sess[c].state = "closed"
    BY <1>3, <2>2 DEF Execute, Refuse, Refused
  <2>3. CASE sess[c].state # "closed"
    BY <1>3, <2>1, <2>3, SendIs DEF Execute
  <2> QED BY <2>2, <2>3
<1> QED BY <1>1, <1>2, <1>3

(* query() of an engine that reads aside.                                  *)
QueriesAside ==
    /\ UNCHANGED <<sess, conn>> /\ ~OneSession
    /\ awaiting' = Aside /\ answer' = "none"

(* query() sends its statement, reads aside or is refused.                 *)
LEMMA QueryDoes ==
    ASSUME SessionTypeOK, NEW st \in Statements, Query(st), OneSession => conn # 0
    PROVE  \/ SentOn(conn, st)
           \/ QueriesAside
           \/ Refused(conn)
<1>1. CASE OneSession
  <2>1. conn \in Sessions
    BY <1>1, ConnType
  <2> QED BY <1>1, <2>1, SendIs DEF Query, Refuse, Refused
<1>2. CASE ~OneSession
  BY <1>2 DEF Query, Refuse, Refused, QueriesAside
<1> QED BY <1>1, <1>2

(* A statement that went out is the last of its session's pipeline.        *)
LEMMA SentQueue ==
    ASSUME SessionTypeOK, NEW s, NEW st \in Statements, SentOn(s, st)
    PROVE  LET p == sess[s].queue
               q == sess'[s].queue
           IN  /\ Len(p) \in Nat /\ Len(q) = Len(p) + 1 /\ q # <<>> /\ q[Len(q)] = st
               /\ \A j \in 1 .. Len(q) : (j \in 1 .. Len(p) /\ q[j] = p[j]) \/ (j = Len(q) /\ q[j] = st)
               /\ p = <<>> => Len(q) = 1 /\ q[1] = st
               /\ Len(p) = 1 => Len(q) = 2 /\ q[1] = p[1] /\ q[2] = st
               /\ p # <<>> => q[1] = p[1]
<1> DEFINE p == sess[s].queue
           q == sess'[s].queue
<1>1. p \in Seq(Statements) /\ q = Append(p, st)
  BY QueueType DEF SentOn
<1> HIDE DEF p, q
<1>2. /\ Len(p) \in Nat /\ Len(q) = Len(p) + 1 /\ q[Len(p) + 1] = st
      /\ \A j \in 1 .. Len(p) : q[j] = p[j]
      /\ q # <<>>
  BY <1>1
<1>3. \A j \in 1 .. Len(q) : (j \in 1 .. Len(p) /\ q[j] = p[j]) \/ (j = Len(q) /\ q[j] = st)
  BY <1>2
<1>4. /\ p = <<>> => Len(q) = 1 /\ q[1] = st
      /\ Len(p) = 1 => Len(q) = 2 /\ q[1] = p[1] /\ q[2] = st
  BY <1>2
<1>5. p # <<>> => q[1] = p[1]
  <2>1. p # <<>> => Len(p) # 0
    BY <1>1, EmptySeq
  <2> QED BY <1>2, <2>1
<1> QED BY <1>2, <1>3, <1>4, <1>5 DEF p, q

(* A statement that goes out brings no write but its own.                  *)
LEMMA SentKeeps ==
    ASSUME SessionTypeOK, AllSound, NEW s, NEW st \in Statements, SentOn(s, st),
           NEW A, HoldsOnly(A), st.op = "WRITE" => st.id \in A \cap Stmts,
           UNCHANGED durable
    PROVE  AllSound' /\ HoldsOnly(A)'
<1>1. \A r \in Sessions : Sound(sess'[r])
  <2>1. Sound(sess'[s])
    BY DEF SentOn, AllSound, Sound
  <2> QED BY <2>1 DEF SentOn, AllSound
<1>2. ASSUME NEW B, HoldsOnly(B), st.op = "WRITE" => st.id \in B PROVE HoldsOnly(B)'
  <2>1. /\ sess'[s].staged \subseteq B
        /\ \A j \in 1 .. Len(sess'[s].queue) :
               sess'[s].queue[j].op = "WRITE" => sess'[s].queue[j].id \in B
    <3>1. s \in Sessions /\ sess'[s].staged = sess[s].staged
      BY DEF SentOn
    <3>2. ASSUME NEW j \in 1 .. Len(sess'[s].queue), sess'[s].queue[j].op = "WRITE"
          PROVE  sess'[s].queue[j].id \in B
      <4>1. \/ j \in 1 .. Len(sess[s].queue) /\ sess'[s].queue[j] = sess[s].queue[j]
            \/ sess'[s].queue[j] = st
        BY SentQueue
      <4> QED BY <1>2, <3>1, <3>2, <4>1 DEF HoldsOnly
    <3> QED BY <1>2, <3>1, <3>2 DEF HoldsOnly
  <2> QED BY <1>2, <2>1 DEF SentOn, HoldsOnly
<1>3. HoldsOnly(A)' /\ HoldsOnly(Stmts)'
  BY <1>2 DEF AllSound
<1>4. answer' = "none"
  BY DEF SentOn
<1> QED BY <1>1, <1>3, <1>4 DEF AllSound

(* What execute() leaves of the types, and of which writes there are.      *)
LEMMA SendsKeep ==
    ASSUME SessionTypeOK, AllSound,
           NEW c \in 0 .. MaxSessions, NEW st \in Statements,
           (\E s : SentOn(s, st)) \/ Refused(c),
           NEW A, HoldsOnly(A), st.op = "WRITE" => st.id \in A \cap Stmts,
           UNCHANGED <<engine, creqs, durable, view, lost>>, fired' \in SUBSET Tokens
    PROVE  SessionTypeOK' /\ AllSound' /\ HoldsOnly(A)'
<1>1. 0 \in 0 .. Aside /\ 0 \in 0 .. MaxSessions /\ \A s \in Sessions : s \in 0 .. Aside /\ s \in 0 .. MaxSessions
  BY SessionAssumption DEF Aside, Sessions
<1>2. CASE \E s : SentOn(s, st)
  <2>1. PICK s : SentOn(s, st)
    BY <1>2
  <2>2. /\ sess' \in [Sessions -> SessionStates] /\ conn' \in 0 .. MaxSessions
        /\ awaiting' \in 0 .. Aside /\ answer' \in Answers
    BY <1>1, <2>1 DEF SentOn, Answers
  <2> QED BY <2>1, <2>2, SentKeeps, ExecuteTypes
<1>3. CASE Refused(c)
  <2>1. /\ sess' = sess /\ awaiting' = 0 /\ UNCHANGED durable
        /\ sess' \in [Sessions -> SessionStates] /\ conn' \in 0 .. MaxSessions
        /\ awaiting' \in 0 .. Aside /\ answer' \in Answers
    BY <1>1, <1>3 DEF Refused, Answers, SessionTypeOK
  <2>2. AllSound' /\ HoldsOnly(A)'
    BY <2>1 DEF AllSound, HoldsOnly
  <2> QED BY <2>1, <2>2, ExecuteTypes
<1> QED BY <1>2, <1>3

-----------------------------------------------------------------------------
(* The sessions under any TxScope *)

(* Where the run waits for an answer.                                      *)
Waiting == {"begin", "fbegin", "await", "fcommit", "frollback", "rollback", "wcommit", "wrollback"}

WaitsOK ==
    /\ at = "start" => \A s \in Sessions : sess[s] = Fresh("unopened")
    /\ at \in {"start", "done"} => conn = 0
    /\ OneSession /\ at \notin {"start", "done"} => conn # 0
    /\ at \notin Waiting => awaiting = 0
    /\ awaiting = Aside => at = "await" /\ stmt \in Reads

SessionInv == SessionTypeOK /\ AllSound /\ HoldsOnly(Allowed) /\ WaitsOK

(* The run's own BEGIN, COMMIT or ROLLBACK, on the connection it has.      *)
Controls(op, c) ==
    /\ Execute(c, fired, Statement(op, NoStatement, RunToken))
    /\ UNCHANGED <<engine, fired, creqs, durable, view, lost>>

SendsControl ==
    /\ \E op \in {"BEGIN", "COMMIT", "ROLLBACK"} :
         \/ at = "start" /\ Controls(op, Opened)
         \/ at \notin {"start", "done"} /\ Controls(op, conn)
    /\ at' \in Waiting \ {"await"}

(* What a step does to the sessions.                                       *)
LEMMA SessionSteps ==
    ASSUME ControlInv, [Next]_vars
    PROVE  \/ /\ UNCHANGED sessionVars
              /\ at \notin {"start", "done"} /\ at' \in Places \ ({"start", "done"} \cup Waiting)
              /\ at \in Waiting => answer # "none"
           \/ SendsControl
           \/ DropConnection /\ at' = "done"
           \/ /\ at = "start" /\ at' = "file" /\ conn' = Opened
              /\ UNCHANGED <<engine, sess, awaiting, answer, fired, creqs, durable, view, lost>>
           \/ Issue \/ TimeOut \/ Cancel
           \/ Server /\ UNCHANGED control
           \/ UNCHANGED vars
<1> USE DEF Waiting, Places, SendsControl, Controls, Goto, Finish
<1>0. file \in 1 .. NFiles + 1
  BY DEF ControlInv, ControlType
<1>1. CASE NotOpened \/ Start \/ RunBegun
  BY <1>1 DEF NotOpened, Start, RunBegun, Answered, Succeeded
<1>2. CASE CancelledAtFile \/ StartFile
  BY <1>2 DEF CancelledAtFile, StartFile, Control
<1>3. CASE FileBegun \/ Split
  BY <1>3 DEF FileBegun, Split, Answered, FileFails
<1>4. CASE CheckCancel \/ EndOfStatements
  BY <1>4 DEF CheckCancel, EndOfStatements, Control
<1>5. CASE RejectReadOnly \/ Issue \/ StatementFinished \/ StatementFailed \/ TimeOut
  BY <1>5 DEF RejectReadOnly, StatementFinished, StatementFailed, StatementFails, Succeeded
<1>6. CASE FileCommitted \/ FileRolledBack
  BY <1>6 DEF FileCommitted, FileRolledBack, FileFails, Answered, Control
<1>7. CASE StopFile \/ RolledBack \/ EndFile
  BY <1>7 DEF StopFile, RolledBack, EndFile, Answered, Control
<1>8. CASE EndOfFiles \/ RunCommitted \/ RunRolledBack
  BY <1>8 DEF EndOfFiles, RunCommitted, RunRolledBack, Control
<1>9. CASE Cancel \/ (Server /\ UNCHANGED control) \/ Quiet \/ UNCHANGED vars
  BY <1>9 DEF Quiet
<1> QED BY <1>1, <1>2, <1>3, <1>4, <1>5, <1>6, <1>7, <1>8, <1>9 DEF Next, Client

(* What holds for the writes allowed now holds for those allowed next.     *)
LEMMA HoldsLater ==
    ASSUME NEW A, A \subseteq Allowed', HoldsOnly(A)'
    PROVE  HoldsOnly(Allowed)'
BY DEF HoldsOnly

(* open_spec connects Postgres at once.                                    *)
LEMMA OpenedType == Opened \in 0 .. MaxSessions /\ (OneSession => Opened # 0)
BY SessionAssumption DEF Opened

(* The fields of a statement.                                              *)
LEMMA StatementType ==
    ASSUME NEW op \in Ops, NEW id \in Stmts \cup {NoStatement}, NEW tok \in Tokens
    PROVE  /\ Statement(op, id, tok) \in Statements
           /\ Statement(op, id, tok).op = op /\ Statement(op, id, tok).id = id
           /\ Statement(op, id, tok).tok = tok
BY DEF Statement, Statements

(* What the run's BEGIN, COMMIT or ROLLBACK does to the connection.        *)
LEMMA ControlSent ==
    ASSUME SessionTypeOK, NEW op \in Ops, NEW c \in 0 .. MaxSessions, Controls(op, c)
    PROVE  LET st == Statement(op, NoStatement, RunToken)
           IN  /\ st \in Statements /\ st.op = op /\ st.id = NoStatement
               /\ \/ \E s \in Sessions : /\ SentOn(s, st) /\ (c # 0 => s = c)
                                         /\ c = 0 => sess[s].state = "unopened"
                  \/ Refused(c) /\ (c = 0 \/ sess[c].state = "closed" \/ Cancelled)
<1>1. NoStatement \in Stmts \cup {NoStatement} /\ RunToken \in Tokens
  BY DEF Tokens
<1>2. /\ Statement(op, NoStatement, RunToken) \in Statements
      /\ Statement(op, NoStatement, RunToken).op = op
      /\ Statement(op, NoStatement, RunToken).id = NoStatement
      /\ Statement(op, NoStatement, RunToken).tok = RunToken
  BY <1>1, StatementType
<1> QED BY <1>2, ExecuteDoes DEF Controls, Cancelled

(* What the sessions hold after a statement was sent, or refused.          *)
LEMMA ControlKeeps ==
    ASSUME ControlInv, SessionInv, SendsControl, Allowed \subseteq Allowed'
    PROVE  SessionInv'
<1>1. PICK op \in {"BEGIN", "COMMIT", "ROLLBACK"} :
         \/ at = "start" /\ Controls(op, Opened)
         \/ at \notin {"start", "done"} /\ Controls(op, conn)
  BY DEF SendsControl
<1>2. PICK c \in 0 .. MaxSessions : Controls(op, c) /\ (OneSession => c # 0)
  BY <1>1, OpenedType DEF SessionInv, SessionTypeOK, WaitsOK
<1>3. op \in Ops /\ op # "WRITE"
  BY DEF Ops
<1> DEFINE st == Statement(op, NoStatement, RunToken)
<1>4. /\ st \in Statements /\ st.op = op
      /\ (\E s \in Sessions : SentOn(s, st)) \/ Refused(c)
  BY <1>2, <1>3, ControlSent DEF SessionInv
<1> HIDE DEF st
<1>5. UNCHANGED <<engine, creqs, durable, view, lost>> /\ fired' \in SUBSET Tokens
  BY <1>2 DEF Controls, SessionInv, SessionTypeOK
<1>6. SessionTypeOK' /\ AllSound' /\ HoldsOnly(Allowed)'
  <2>1. PICK A : A = Allowed
    OBVIOUS
  <2>2. SessionTypeOK' /\ AllSound' /\ HoldsOnly(A)'
    BY <1>3, <1>4, <1>5, <2>1, SendsKeep DEF SessionInv
  <2> QED BY <2>1, <2>2, HoldsLater
<1>7. WaitsOK'
  <2>1. /\ awaiting' # Aside
        /\ OneSession => conn' # 0
    BY <1>2, <1>4, ZeroIsNoSession DEF SentOn, Refused
  <2>2. engine' = engine
    BY <1>5
  <2>3. at' \in Waiting \ {"await"}
    BY DEF SendsControl
  <2> QED BY <2>1, <2>2, <2>3 DEF WaitsOK, Waiting, OneSession
<1> QED BY <1>6, <1>7 DEF SessionInv

(* The statement the run is at may take effect.                            *)
LEMMA IssueAllowed ==
    ASSUME ControlInv, at \in {"issue", "await"}
    PROVE  /\ stmt \in Stmts /\ file \in Files
           /\ stmt \notin Reads => stmt \in WritesOf(file)
           /\ stmt \notin Reads /\ ~opts.readOnly => stmt \in Allowed
<1>1. file \in Files
  BY DEF ControlInv, PlacesOK, InFile
<1>2. stmt \in FirstOf(file) .. LastOf(file)
  <2>1. stmt \in Int /\ FirstOf(file) \in Nat /\ LastOf(file) \in Nat
    BY <1>1, FileNumbers DEF ControlInv, ControlType
  <2>2. FirstOf(file) <= stmt /\ stmt <= LastOf(file)
    BY DEF ControlInv, StatementOK
  <2> HIDE DEF FirstOf, LastOf
  <2> QED BY <2>1, <2>2
<1>3. stmt \in Stmts
  BY <1>1, <1>2, FileNumbers
<1>4. stmt \notin Reads => stmt \in WritesOf(file)
  BY <1>2 DEF WritesOf
<1>5. file \in Begun
  BY <1>1 DEF ControlInv, ChipsOK, ChipOf, Begun, InFile, Files
<1> QED BY <1>1, <1>3, <1>4, <1>5 DEF Allowed

(* The statement the run is at.                                            *)
Kind == IF stmt \in Reads THEN "READ" ELSE "WRITE"

(* What the run's own statement does to the connection.                    *)
LEMMA IssueSent ==
    ASSUME ControlInv, SessionInv, Issue
    PROVE  LET st == Statement(Kind, stmt, stmt)
           IN  /\ st \in Statements /\ st.op = Kind /\ st.id = stmt
               /\ st.op = "WRITE" => stmt \in Allowed
               /\ \/ \E s \in Sessions : /\ SentOn(s, st) /\ (conn # 0 => s = conn)
                                         /\ conn = 0 => sess[s].state = "unopened"
                  \/ QueriesAside /\ stmt \in Reads
                  \/ Refused(conn)
<1> DEFINE st == Statement(Kind, stmt, stmt)
<1>1. stmt \in Stmts /\ (stmt \notin Reads /\ ~opts.readOnly => stmt \in Allowed)
  BY IssueAllowed DEF Issue
<1>2. st \in Statements /\ st.op = Kind /\ st.id = stmt
  <2>1. Kind \in Ops /\ stmt \in Tokens
    BY <1>1 DEF Kind, Ops, Tokens
  <2> QED BY <1>1, <2>1, StatementType
<1>3. st.op = "WRITE" => stmt \notin Reads
  BY <1>2 DEF Kind
<1>4. CASE stmt \in Reads
  <2>1. Query(st) /\ (OneSession => conn # 0)
    BY <1>4 DEF Issue, Kind, SessionInv, WaitsOK
  <2>2. SentOn(conn, st) \/ QueriesAside \/ Refused(conn)
    BY <1>2, <2>1, QueryDoes DEF SessionInv
  <2>3. SentOn(conn, st) => conn \in Sessions /\ conn # 0
    BY ZeroIsNoSession DEF SentOn
  <2> HIDE DEF st
  <2>4. SentOn(conn, st) => \E s \in Sessions : /\ SentOn(s, st) /\ (conn # 0 => s = conn)
                                                /\ conn = 0 => sess[s].state = "unopened"
    BY <2>3
  <2>5. st.op = "WRITE" => stmt \in Allowed
    BY <1>3, <1>4
  <2> QED BY <1>2, <1>4, <2>2, <2>4, <2>5 DEF st
<1>5. CASE stmt \notin Reads
  <2>1. ~opts.readOnly /\ Execute(conn, fired, st)
    BY <1>5 DEF Issue, Kind
  <2>2. conn \in 0 .. MaxSessions
    BY DEF SessionInv, SessionTypeOK
  <2> HIDE DEF st
  <2>3. \/ \E s \in Sessions : /\ SentOn(s, st) /\ (conn # 0 => s = conn)
                               /\ conn = 0 => sess[s].state = "unopened"
        \/ Refused(conn)
    BY <1>2, <2>1, <2>2, ExecuteDoes DEF SessionInv
  <2> QED BY <1>1, <1>2, <1>5, <2>1, <2>3 DEF st
<1> QED BY <1>4, <1>5

(* SessionInv holds after a statement was issued.                          *)
LEMMA IssueKeeps ==
    ASSUME ControlInv, SessionInv, Issue, Allowed \subseteq Allowed'
    PROVE  SessionInv'
<1> DEFINE st == Statement(Kind, stmt, stmt)
<1>1. /\ at = "issue" /\ at' = "await" /\ stmt' = stmt
      /\ UNCHANGED <<engine, fired, creqs, durable, view, lost>>
  BY DEF Issue, Goto
<1>2. /\ st \in Statements /\ st.op = Kind /\ st.id = stmt
      /\ st.op = "WRITE" => stmt \in Allowed
      /\ \/ \E s \in Sessions : SentOn(s, st)
         \/ QueriesAside /\ stmt \in Reads
         \/ Refused(conn)
  BY IssueSent
<1> HIDE DEF st
<1>3. stmt \in Stmts
  BY <1>1, IssueAllowed
<1>4. fired' \in SUBSET Tokens /\ conn \in 0 .. MaxSessions
  BY <1>1 DEF SessionInv, SessionTypeOK
<1>5. SessionTypeOK' /\ AllSound' /\ HoldsOnly(Allowed)'
  <2>1. PICK A : A = Allowed
    OBVIOUS
  <2>2. CASE (\E s : SentOn(s, st)) \/ Refused(conn)
    <3>1. SessionTypeOK' /\ AllSound' /\ HoldsOnly(A)'
      BY <1>1, <1>2, <1>3, <1>4, <2>1, <2>2, SendsKeep DEF SessionInv
    <3> QED BY <2>1, <3>1, HoldsLater
  <2>3. CASE QueriesAside
    <3>1. UNCHANGED <<sess, conn, durable>> /\ awaiting' = Aside /\ answer' = "none"
      BY <1>1, <2>3 DEF QueriesAside
    <3>2. AllSound' /\ HoldsOnly(A)'
      BY <2>1, <3>1 DEF SessionInv, AllSound, HoldsOnly
    <3>3. awaiting' \in 0 .. Aside /\ answer' \in Answers
      BY <3>1, SessionAssumption DEF Aside, Answers
    <3>4. sess' \in [Sessions -> SessionStates] /\ conn' \in 0 .. MaxSessions
      BY <3>1 DEF SessionInv, SessionTypeOK
    <3>5. SessionTypeOK'
      BY <1>1, <1>4, <3>3, <3>4, ExecuteTypes DEF SessionInv
    <3> QED BY <2>1, <3>2, <3>5, HoldsLater
  <2> QED BY <1>2, <2>2, <2>3
<1>6. WaitsOK'
  <2>1. awaiting' = Aside => stmt \in Reads
    BY <1>2, ZeroIsNoSession DEF SentOn, Refused
  <2>2. conn # 0 => conn' # 0
    BY <1>2, ZeroIsNoSession DEF SentOn, Refused, QueriesAside
  <2>3. OneSession => conn # 0
    BY <1>1 DEF SessionInv, WaitsOK
  <2> QED BY <1>1, <2>1, <2>2, <2>3 DEF WaitsOK, Waiting, OneSession
<1> QED BY <1>5, <1>6 DEF SessionInv

(* SessionInv holds after a statement timed out.                           *)
LEMMA TimeOutKeeps ==
    ASSUME ControlInv, SessionInv, TimeOut, Allowed \subseteq Allowed'
    PROVE  SessionInv'
<1>1. /\ at = "await" /\ at' \in {"check", "stop"}
      /\ conn' \in {conn, AfterDrop} /\ awaiting' = 0 /\ answer' = "error"
      /\ fired' = fired \cup {stmt}
      /\ UNCHANGED <<engine, sess, creqs, durable, view, lost>>
  BY DEF TimeOut, StatementFails
<1>2. /\ conn' \in 0 .. MaxSessions /\ awaiting' \in 0 .. Aside /\ answer' \in Answers
      /\ fired' \in SUBSET Tokens /\ sess' \in [Sessions -> SessionStates]
      /\ (OneSession /\ conn # 0 => conn' # 0)
  <2>1. 0 \in 0 .. MaxSessions /\ 0 \in 0 .. Aside
    BY SessionAssumption DEF Aside
  <2>2. stmt \in Stmts
    BY <1>1, IssueAllowed
  <2> QED BY <1>1, <2>1, <2>2 DEF SessionInv, SessionTypeOK, AfterDrop, Tokens, Answers
<1>3. SessionTypeOK'
  BY <1>1, <1>2, ExecuteTypes DEF SessionInv
<1>4. AllSound' /\ HoldsOnly(Allowed)'
  BY <1>1 DEF SessionInv, AllSound, HoldsOnly
<1>5. WaitsOK'
  BY <1>1, <1>2, ZeroIsNoSession DEF SessionInv, WaitsOK, OneSession
<1> QED BY <1>3, <1>4, <1>5 DEF SessionInv

(* SessionInv holds after the connection was dropped.                      *)
LEMMA DropKeeps ==
    ASSUME SessionInv, DropConnection, at' = "done", Allowed \subseteq Allowed'
    PROVE  SessionInv'
<1>1. /\ conn' = 0 /\ awaiting' = 0 /\ answer' = "none"
      /\ UNCHANGED <<engine, sess, fired, creqs, durable, view, lost>>
  BY DEF DropConnection
<1>2. SessionTypeOK'
  <2>1. conn' \in 0 .. MaxSessions /\ awaiting' \in 0 .. Aside /\ answer' \in Answers
    BY <1>1, SessionAssumption DEF Aside, Answers
  <2> QED BY <1>1, <2>1, ExecuteTypes DEF SessionInv, SessionTypeOK
<1>3. AllSound' /\ HoldsOnly(Allowed)'
  BY <1>1 DEF SessionInv, AllSound, HoldsOnly
<1>4. WaitsOK'
  BY <1>1, ZeroIsNoSession DEF WaitsOK
<1> QED BY <1>2, <1>3, <1>4 DEF SessionInv

(* SessionInv holds after a step of the server.                            *)
LEMMA ServerKeeps ==
    ASSUME SessionInv, Server, UNCHANGED control
    PROVE  SessionInv'
<1>1. SessionTypeOK /\ AllSound
  BY DEF SessionInv
<1>2. /\ SessionTypeOK' /\ AllSound' /\ UNCHANGED <<engine, conn, fired>>
      /\ awaiting' = awaiting \/ awaiting' = 0
      /\ conn = 0 /\ awaiting = 0 /\ (\A s \in Sessions : sess[s] = Fresh("unopened")) =>
             \A s \in Sessions : sess'[s] = Fresh("unopened")
  BY <1>1, ServerSound
<1>3. UNCHANGED <<opts, at, stmt, chip>>
  BY DEF control
<1>4. HoldsOnly(Allowed)'
  <2>1. PICK A : A = Allowed
    OBVIOUS
  <2>2. HoldsOnly(A)'
    BY <1>1, <2>1, ServerHolds DEF SessionInv
  <2>3. Allowed' = Allowed
    BY <1>3 DEF Allowed, Begun, WritesOf, FirstOf, LastOf
  <2> QED BY <2>1, <2>2, <2>3, HoldsLater
<1>5. WaitsOK'
  <2>1. at = "start" => conn = 0 /\ awaiting = 0
    BY DEF SessionInv, WaitsOK, Waiting
  <2> QED BY <1>2, <1>3, <2>1, ZeroIsNoSession DEF SessionInv, WaitsOK, OneSession
<1> QED BY <1>2, <1>4, <1>5 DEF SessionInv

(* Steps that leave the sessions as they are, but perhaps open them.       *)
LEMMA QuietKeeps ==
    ASSUME SessionInv, Allowed \subseteq Allowed', fired' \in SUBSET Tokens,
           UNCHANGED <<engine, sess, awaiting, answer, creqs, durable, view, lost>>,
           conn' \in 0 .. MaxSessions, WaitsOK'
    PROVE  SessionInv'
<1>1. /\ sess' \in [Sessions -> SessionStates] /\ awaiting' \in 0 .. Aside /\ answer' \in Answers
  BY DEF SessionInv, SessionTypeOK
<1>2. SessionTypeOK'
  BY <1>1, ExecuteTypes DEF SessionInv
<1>3. AllSound' /\ HoldsOnly(Allowed)'
  BY DEF SessionInv, AllSound, HoldsOnly
<1> QED BY <1>2, <1>3 DEF SessionInv

(* SessionInv is inductive.                                                *)
LEMMA SessionStep == ControlInv /\ SessionInv /\ [Next]_vars => SessionInv'
<1> SUFFICES ASSUME ControlInv, SessionInv, [Next]_vars PROVE SessionInv'
  OBVIOUS
<1>1. Allowed \subseteq Allowed'
  BY AllowedGrows
<1>2. /\ fired \in SUBSET Tokens /\ conn \in 0 .. MaxSessions
      /\ answer # "none" => awaiting = 0
      /\ WaitsOK
  BY DEF SessionInv, SessionTypeOK, AllSound
<1>3. CASE /\ UNCHANGED sessionVars
           /\ at \notin {"start", "done"} /\ at' \in Places \ ({"start", "done"} \cup Waiting)
           /\ at \in Waiting => answer # "none"
  <2>1. UNCHANGED <<engine, sess, conn, awaiting, answer, fired, creqs, durable, view, lost>>
    BY <1>3 DEF sessionVars
  <2>2. awaiting = 0
    BY <1>2, <1>3 DEF WaitsOK
  <2>3. WaitsOK'
    BY <1>2, <1>3, <2>1, <2>2, ZeroIsNoSession DEF WaitsOK, OneSession
  <2> QED BY <1>1, <1>2, <2>1, <2>3, QuietKeeps
<1>4. CASE SendsControl
  BY <1>1, <1>4, ControlKeeps
<1>5. CASE DropConnection /\ at' = "done"
  BY <1>1, <1>5, DropKeeps
<1>6. CASE /\ at = "start" /\ at' = "file" /\ conn' = Opened
           /\ UNCHANGED <<engine, sess, awaiting, answer, fired, creqs, durable, view, lost>>
  <2>1. WaitsOK'
    <3>1. awaiting = 0
      BY <1>2, <1>6 DEF WaitsOK, Waiting
    <3> QED BY <1>6, <3>1, OpenedType, ZeroIsNoSession DEF WaitsOK, OneSession
  <2> QED BY <1>1, <1>2, <1>6, <2>1, OpenedType, QuietKeeps
<1>7. CASE Issue
  BY <1>1, <1>7, IssueKeeps
<1>8. CASE TimeOut
  BY <1>1, <1>8, TimeOutKeeps
<1>9. CASE Cancel
  <2>1. /\ fired' = fired \cup {RunToken} \cup Stmts
        /\ UNCHANGED <<engine, sess, conn, awaiting, answer, creqs, durable, view, lost>>
        /\ UNCHANGED <<at, stmt>>
    BY <1>9 DEF Cancel, control
  <2>2. WaitsOK' /\ fired' \in SUBSET Tokens
    BY <1>2, <2>1 DEF WaitsOK, OneSession, Tokens
  <2> QED BY <1>1, <1>2, <2>1, <2>2, QuietKeeps
<1>10. CASE Server /\ UNCHANGED control
  BY <1>10, ServerKeeps
<1>11. CASE UNCHANGED vars
  <2>1. /\ UNCHANGED <<engine, sess, conn, awaiting, answer, fired, creqs, durable, view, lost>>
        /\ UNCHANGED <<at, stmt>>
    BY <1>11 DEF vars, sessionVars, control
  <2>2. WaitsOK'
    BY <1>2, <2>1 DEF WaitsOK, OneSession
  <2> QED BY <1>1, <1>2, <2>1, <2>2, QuietKeeps
<1> QED BY <1>3, <1>4, <1>5, <1>6, <1>7, <1>8, <1>9, <1>10, <1>11, SessionSteps

(* SessionInv holds at first.                                              *)
LEMMA SessionStart == Init => SessionInv
<1> SUFFICES ASSUME Init PROVE SessionInv
  OBVIOUS
<1>1. /\ SessionTypeOK /\ \A s \in Sessions : sess[s] = Fresh("unopened")
      /\ conn = 0 /\ awaiting = 0 /\ answer = "none" /\ durable = {} /\ at = "start"
  BY SessionInitTypes DEF Init, SessionInit
<1>2. /\ Fresh("unopened").staged = {} /\ 1 .. Len(Fresh("unopened").queue) = {}
      /\ Sound(Fresh("unopened"))
  BY SoundFresh DEF Fresh
<1>3. AllSound /\ HoldsOnly(Allowed)
  BY <1>1, <1>2 DEF AllSound, HoldsOnly
<1>4. WaitsOK
  BY <1>1, ZeroIsNoSession DEF WaitsOK
<1> QED BY <1>1, <1>3, <1>4 DEF SessionInv

-----------------------------------------------------------------------------
(* Transactions on the server *)

(* A pipeline under PerFile or WholeRun: one statement and perhaps a       *)
(* ROLLBACK behind it; a write is always inside a transaction.             *)
TxPipe(t) ==
    /\ Len(t.queue) <= 2
    /\ Len(t.queue) = 2 => t.queue[2].op = "ROLLBACK"
    /\ t.queue # <<>> /\ t.queue[1].op = "WRITE" => t.tx = "open"
    /\ t.queue # <<>> /\ t.queue[1].op = "BEGIN" /\ OneSession => t.tx # "open"

TxPipes == \A s \in Sessions : TxPipe(sess[s])

(* The COMMIT at the head of session s takes effect.                       *)
CommitsOn(s) ==
    /\ CommitNext(sess[s])
    /\ durable' = durable \cup sess[s].staged
    /\ awaiting = s /\ Len(sess[s].queue) = 1 =>
         awaiting' = 0 /\ (answer' = "ok" \/ lost' = TRUE)

(* In a transaction, only a COMMIT makes anything durable.                 *)
LEMMA MadeByCommit ==
    ASSUME NEW st, NEW t, NEW a, NEW u, NEW made, EffectOf(st, t, a, u, made),
           st.op = "WRITE" => t.tx = "open"
    PROVE  made = {} \/ (st.op = "COMMIT" /\ made = t.staged /\ a = "ok")
BY DEF EffectOf

(* Only a COMMIT makes anything durable, and none follows another          *)
(* statement in a pipeline.                                                *)
LEMMA TxServer ==
    ASSUME SessionTypeOK, AllSound, TxPipes, Server
    PROVE  /\ TxPipes'
           /\ \A s \in Sessions : CommitNext(sess'[s]) =>
                    CommitNext(sess[s]) /\ (awaiting = s => awaiting' = s)
           /\ durable' = durable \/ \E s \in Sessions : CommitsOn(s)
<1>0. UNCHANGED engine
  BY ServerSound
<1>1. CASE Marked
  <2>1. ASSUME NEW s \in Sessions
        PROVE  TxPipe(sess[s])' /\ (CommitNext(sess'[s]) => CommitNext(sess[s]))
    <3>1. Alike(sess[s], sess'[s]) /\ TxPipe(sess[s]) /\ Len(sess[s].queue) \in Nat
      BY <1>1, QueueType DEF Marked, TxPipes
    <3>2. sess[s].queue # <<>> => 1 \in 1 .. Len(sess[s].queue)
      BY QueueType, EmptySeq
    <3>3. Len(sess[s].queue) = 2 => 2 \in 1 .. Len(sess[s].queue)
      OBVIOUS
    <3> QED BY <1>0, <3>1, <3>2, <3>3 DEF Alike, TxPipe, CommitNext, OneSession
  <2> QED BY <1>1, <2>1 DEF Marked, TxPipes
<1>2. CASE \E s \in Sessions : \E a, v, made : Serves(s, a, v, made)
  <2>0. PICK s \in Sessions : \E a, v, made : Serves(s, a, v, made)
    BY <1>2
  <2>1. PICK a, v, made : Serves(s, a, v, made)
    BY <2>0
  <2> DEFINE q == sess[s].queue
  <2>2. /\ q \in Seq(Statements) /\ Len(q) \in Nat \ {0} /\ q # <<>>
        /\ Len(v.queue) = Len(q) - 1
        /\ \A j \in 1 .. Len(v.queue) : v.queue[j] = q[j + 1]
        /\ v.queue = <<>> <=> Len(q) = 1
    <3>1. q # <<>>
      BY <2>1 DEF Serves
    <3> QED BY <2>1, <3>1, QueueAfter
  <2>3. TxPipe(sess[s])
    BY DEF TxPipes
  <2>4. v.queue # <<>> => Len(q) = 2 /\ Len(v.queue) = 1 /\ v.queue[1].op = "ROLLBACK"
    <3> SUFFICES ASSUME v.queue # <<>> PROVE Len(q) = 2 /\ Len(v.queue) = 1 /\ v.queue[1].op = "ROLLBACK"
      OBVIOUS
    <3>0. Len(q) <= 2 /\ Len(q) # 1
      BY <2>2, <2>3 DEF TxPipe
    <3>1. ASSUME NEW n \in Nat \ {0}, n <= 2, n # 1 PROVE n = 2 /\ n - 1 = 1
      BY <3>1
    <3>2. Len(q) = 2 /\ Len(v.queue) = 1
      <4>1. Len(q) \in Nat \ {0} /\ Len(v.queue) = Len(q) - 1
        BY <2>2
      <4> HIDE DEF q
      <4> QED BY <3>0, <3>1, <4>1
    <3>3. v.queue[1] = q[2]
      <4>1. \A j \in 1 .. Len(v.queue) : v.queue[j] = q[j + 1]
        BY <2>2
      <4> HIDE DEF q
      <4> QED BY <3>2, <4>1
    <3> QED BY <2>3, <3>2, <3>3 DEF TxPipe
  <2>5. v.queue = <<>> => Len(v.queue) = 0
    OBVIOUS
  <2>6. TxPipe(v) /\ ~CommitNext(v)
    <3>1. CASE v.queue = <<>>
      BY <2>5, <3>1 DEF TxPipe, CommitNext
    <3>2. CASE v.queue # <<>>
      <4> HIDE DEF q
      <4>1. Len(v.queue) = 1 /\ v.queue[1].op = "ROLLBACK"
        BY <2>4, <3>2
      <4> QED BY <4>1 DEF TxPipe, CommitNext
    <3> QED BY <3>1, <3>2
  <2>7. \A r \in Sessions : sess'[r] = IF r = s THEN v ELSE sess[r]
    BY <2>1 DEF Serves
  <2>8. TxPipes'
    <3> SUFFICES ASSUME NEW r \in Sessions PROVE TxPipe(sess[r])'
      BY DEF TxPipes
    <3>1. TxPipe(sess'[r])
      BY <2>6, <2>7 DEF TxPipes
    <3> QED BY <1>0, <3>1 DEF TxPipe, OneSession
  <2>9. /\ durable' = durable \cup made
        /\ IF awaiting = s /\ Len(q) = 1 THEN awaiting' = 0 /\ answer' = a
                                         ELSE UNCHANGED <<awaiting, answer>>
    BY <2>1 DEF Serves
  <2>10. durable' = durable \/ CommitsOn(s)
    <3>1. PICK u : EffectOf(q[1], sess[s], a, u, made)
      BY <2>1 DEF Serves
    <3>2. q[1].op = "WRITE" => sess[s].tx = "open"
      BY <2>2, <2>3 DEF TxPipe
    <3>3. made = {} \/ (q[1].op = "COMMIT" /\ made = sess[s].staged /\ a = "ok")
      BY <3>1, <3>2, MadeByCommit
    <3> QED BY <2>2, <2>9, <3>3 DEF CommitsOn, CommitNext
  <2>11. \A r \in Sessions : CommitNext(sess'[r]) =>
               CommitNext(sess[r]) /\ (awaiting = r => awaiting' = r)
    BY <2>6, <2>7, <2>9
  <2> QED BY <2>8, <2>10, <2>11
<1>3. CASE \E s \in Sessions : Falls(s)
  <2>1. PICK s \in Sessions : Falls(s)
    BY <1>3
  <2>2. \A r \in Sessions : sess'[r] = IF r = s THEN Fresh("closed") ELSE sess[r]
    BY <2>1 DEF Falls
  <2>3. TxPipe(Fresh("closed")) /\ ~CommitNext(Fresh("closed"))
    BY DEF Fresh, TxPipe, CommitNext
  <2>4. TxPipes'
    <3> SUFFICES ASSUME NEW r \in Sessions PROVE TxPipe(sess[r])'
      BY DEF TxPipes
    <3>1. TxPipe(sess'[r])
      BY <2>2, <2>3 DEF TxPipes
    <3> QED BY <1>0, <3>1 DEF TxPipe, OneSession
  <2>5. \A r \in Sessions : CommitNext(sess'[r]) =>
               CommitNext(sess[r]) /\ (awaiting = r => awaiting' = r)
    BY <2>1, <2>2, <2>3 DEF Falls
  <2>6. durable' = durable \/ CommitsOn(s)
    <3> SUFFICES ASSUME durable' # durable PROVE CommitsOn(s)
      OBVIOUS
    <3> DEFINE q == sess[s].queue
    <3>1. PICK a, u, made : q # <<>> /\ EffectOf(q[1], sess[s], a, u, made) /\ durable' = durable \cup made
      BY <2>1 DEF Falls
    <3>2. q[1].op = "WRITE" => sess[s].tx = "open"
      BY <3>1 DEF TxPipes, TxPipe
    <3>3. made = {} \/ (q[1].op = "COMMIT" /\ made = sess[s].staged)
      BY <3>1, <3>2, MadeByCommit
    <3>4. lost' = TRUE /\ (awaiting = s => awaiting' = 0)
      BY <2>1 DEF Falls
    <3> QED BY <3>1, <3>3, <3>4 DEF CommitsOn, CommitNext
  <2> QED BY <2>4, <2>5, <2>6
<1>4. CASE AsideServed
  <2>1. UNCHANGED <<engine, sess, durable>> /\ (awaiting \in Sessions => awaiting' = awaiting)
    BY <1>4, ZeroIsNoSession DEF AsideServed
  <2> QED BY <2>1 DEF TxPipes, TxPipe, CommitNext, OneSession
<1> QED BY <1>1, <1>2, <1>3, <1>4, ServerDoes

-----------------------------------------------------------------------------
(* The client and its session under PerFile or WholeRun *)

(* The client has nothing left in its session.                             *)
AtRest == awaiting = 0 /\ (conn # 0 => sess[conn].queue = <<>>)

(* Its session is idle in a transaction that holds D, unless it is gone.   *)
Live(D) ==
    /\ conn # 0 /\ sess[conn].queue = <<>>
    /\ \/ sess[conn].state = "closed"
       \/ sess[conn].state = "open" /\ sess[conn].tx = "open" /\ sess[conn].staged = D

(* Its session is idle and, on Postgres, in no transaction.                *)
NoTx == AtRest /\ (conn # 0 /\ OneSession => sess[conn].tx # "open")

(* Its session is in a transaction that holds D.                           *)
Staged(D) == sess[conn].tx = "open" /\ sess[conn].staged = D

(* The last statement of its pipeline is a ROLLBACK, and awaited.          *)
Rolling ==
    /\ conn \in Sessions /\ awaiting = conn /\ answer = "none"
    /\ sess[conn].state = "open"
    /\ Len(sess[conn].queue) \in 1 .. 2
    /\ sess[conn].queue[Len(sess[conn].queue)].op = "ROLLBACK"

(* The awaited statement has ended as the engine may end it.               *)
EndedIn(st, t) ==
    /\ sess'[conn].state = "open"
    /\ \E u, made : /\ EffectOf(st, t, answer', u, made)
                    /\ sess'[conn].tx = u.tx /\ sess'[conn].staged = u.staged
                    /\ durable' = durable \cup made

(* What the server makes of an awaited statement.                          *)
LEMMA Awaited ==
    ASSUME SessionTypeOK, AllSound, Server, NEW op, NEW id, Awaits(op, id)
    PROVE  /\ conn' = conn
           /\ \/ /\ Awaits(op, id)'
                 /\ sess'[conn].tx = sess[conn].tx /\ sess'[conn].staged = sess[conn].staged
              \/ /\ HasAnswer'
                 /\ \/ sess'[conn] = Fresh("closed") /\ answer' = "error"
                    \/ EndedIn(sess[conn].queue[1], sess[conn])
<1>0. /\ conn \in Sessions /\ conn # 0 /\ awaiting = conn /\ answer = "none" /\ awaiting # Aside
      /\ sess[conn].state = "open" /\ Len(sess[conn].queue) = 1
      /\ sess[conn].queue[1].op = op /\ sess[conn].queue[1].id = id
      /\ 1 \in 1 .. Len(sess[conn].queue)
  BY ZeroIsNoSession DEF Awaits
<1>1. CASE Marked
  <2>1. Alike(sess[conn], sess'[conn]) /\ UNCHANGED <<conn, awaiting, answer>>
    BY <1>0, <1>1 DEF Marked
  <2> QED BY <1>0, <2>1 DEF Alike, Awaits
<1>2. CASE \E s \in Sessions : \E a, v, made : Serves(s, a, v, made)
  <2>0. PICK s \in Sessions : \E a, v, made : Serves(s, a, v, made)
    BY <1>2
  <2>1. PICK a, v, made : Serves(s, a, v, made)
    BY <2>0
  <2>2. /\ \A r \in Sessions : sess'[r] = IF r = s THEN v ELSE sess[r]
        /\ conn' = conn
        /\ durable' = durable \cup made
        /\ IF awaiting = s /\ Len(sess[s].queue) = 1 THEN awaiting' = 0 /\ answer' = a
                                                     ELSE UNCHANGED <<awaiting, answer>>
        /\ v.state = "open"
    BY <2>1 DEF Serves
  <2>3. CASE s # conn
    BY <1>0, <2>2, <2>3 DEF Awaits
  <2>4. CASE s = conn
    <3>1. v.queue = <<>>
      BY <1>0, <2>1, <2>4, QueueAfter
    <3>2. PICK u : EffectOf(sess[conn].queue[1], sess[conn], a, u, made) /\ v.tx = u.tx /\ v.staged = u.staged
      BY <2>1, <2>4 DEF Serves
    <3>3. a # "none"
      BY <3>2 DEF EffectOf
    <3>4. sess'[conn] = v /\ awaiting' = 0 /\ answer' = a
      BY <1>0, <2>2, <2>4
    <3>5. HasAnswer'
      BY <2>2, <3>1, <3>3, <3>4 DEF HasAnswer
    <3>6. EndedIn(sess[conn].queue[1], sess[conn])
      BY <2>2, <3>2, <3>4 DEF EndedIn
    <3> QED BY <2>2, <3>5, <3>6
  <2> QED BY <2>3, <2>4
<1>3. CASE \E s \in Sessions : Falls(s)
  <2>1. PICK s \in Sessions : Falls(s)
    BY <1>3
  <2>2. /\ \A r \in Sessions : sess'[r] = IF r = s THEN Fresh("closed") ELSE sess[r]
        /\ conn' = conn
        /\ IF awaiting = s THEN awaiting' = 0 /\ answer' = "error" ELSE UNCHANGED <<awaiting, answer>>
    BY <2>1 DEF Falls
  <2>3. CASE s # conn
    BY <1>0, <2>2, <2>3 DEF Awaits
  <2>4. CASE s = conn
    BY <1>0, <2>2, <2>4 DEF HasAnswer, Fresh
  <2> QED BY <2>3, <2>4
<1>4. CASE AsideServed
  BY <1>0, <1>4 DEF AsideServed
<1> QED BY <1>1, <1>2, <1>3, <1>4, ServerDoes

(* Each kind of statement.                                                 *)
LEMMA BeginAwaited ==
    ASSUME SessionTypeOK, AllSound, TxPipes, Server, NEW id, Awaits("BEGIN", id)
    PROVE  \/ Awaits("BEGIN", id)'
           \/ HasAnswer' /\ (answer' \in Effective => Live({})')
<1>1. conn \in Sessions /\ conn # 0 /\ sess[conn].queue[1].op = "BEGIN"
  BY ZeroIsNoSession DEF Awaits
<1>2. OneSession => sess[conn].tx # "open"
  <2>1. sess[conn].queue # <<>>
    <3>1. Len(sess[conn].queue) = 1
      BY DEF Awaits
    <3> QED BY <3>1, EmptySeq
  <2> QED BY <1>1, <2>1 DEF TxPipes, TxPipe
<1>3. conn' = conn
  BY Awaited
<1>4. CASE HasAnswer' /\ sess'[conn] = Fresh("closed")
  BY <1>1, <1>3, <1>4 DEF HasAnswer, Live, Fresh
<1>5. CASE HasAnswer' /\ EndedIn(sess[conn].queue[1], sess[conn])
  <2>1. answer' \in Effective => sess'[conn].tx = "open" /\ sess'[conn].staged = {}
    BY <1>1, <1>2, <1>5 DEF EndedIn, EffectOf
  <2> QED BY <1>1, <1>3, <1>5, <2>1 DEF HasAnswer, Live, EndedIn
<1> QED BY <1>4, <1>5, Awaited

(* A statement that succeeds is staged, if it is a write.                  *)
LEMMA StatementAwaited ==
    ASSUME SessionTypeOK, AllSound, Server, NEW op \in {"READ", "WRITE"}, NEW id, Awaits(op, id),
           NEW D, Staged(D)
    PROVE  \/ Awaits(op, id)' /\ Staged(D)'
           \/ HasAnswer' /\ (answer' \in Effective =>
                               Live(IF op = "WRITE" THEN D \cup {id} ELSE D)')
<1>1. conn \in Sessions /\ conn # 0 /\ sess[conn].queue[1].op = op /\ sess[conn].queue[1].id = id
  BY ZeroIsNoSession DEF Awaits
<1>2. conn' = conn
  BY Awaited
<1>3. CASE /\ Awaits(op, id)'
           /\ sess'[conn].tx = sess[conn].tx /\ sess'[conn].staged = sess[conn].staged
  BY <1>2, <1>3 DEF Staged
<1>4. CASE HasAnswer' /\ sess'[conn] = Fresh("closed")
  BY <1>1, <1>2, <1>4 DEF HasAnswer, Live, Fresh
<1>5. CASE HasAnswer' /\ EndedIn(sess[conn].queue[1], sess[conn])
  <2>1. answer' \in Effective =>
          sess'[conn].tx = "open" /\ sess'[conn].staged = IF op = "WRITE" THEN D \cup {id} ELSE D
    BY <1>1, <1>5 DEF EndedIn, EffectOf, Staged
  <2> QED BY <1>1, <1>2, <1>5, <2>1 DEF HasAnswer, Live, EndedIn
<1> QED BY <1>3, <1>4, <1>5, Awaited

(* A COMMIT that succeeds makes durable what was staged.                   *)
LEMMA CommitAwaited ==
    ASSUME SessionTypeOK, AllSound, Server, NEW id, Awaits("COMMIT", id), NEW D, Staged(D)
    PROVE  \/ Awaits("COMMIT", id)' /\ Staged(D)'
           \/ /\ HasAnswer' /\ answer' # "mismatch"
              /\ answer' = "ok" => NoTx' /\ durable' = durable \cup D
<1>1. conn \in Sessions /\ conn # 0 /\ sess[conn].queue[1].op = "COMMIT"
  BY ZeroIsNoSession DEF Awaits
<1>2. conn' = conn
  BY Awaited
<1>3. CASE /\ Awaits("COMMIT", id)'
           /\ sess'[conn].tx = sess[conn].tx /\ sess'[conn].staged = sess[conn].staged
  BY <1>2, <1>3 DEF Staged
<1>4. CASE HasAnswer' /\ sess'[conn] = Fresh("closed") /\ answer' = "error"
  BY <1>4
<1>5. CASE HasAnswer' /\ EndedIn(sess[conn].queue[1], sess[conn])
  <2>1. /\ answer' # "mismatch"
        /\ answer' = "ok" => sess'[conn].tx = "none" /\ durable' = durable \cup D
    BY <1>1, <1>5 DEF EndedIn, EffectOf, Staged
  <2> QED BY <1>1, <1>2, <1>5, <2>1 DEF HasAnswer, NoTx, AtRest
<1> QED BY <1>3, <1>4, <1>5, Awaited

(* A ROLLBACK is answered, one way or the other.                           *)
LEMMA RollbackAwaited ==
    ASSUME SessionTypeOK, AllSound, Server, NEW id, Awaits("ROLLBACK", id)
    PROVE  Awaits("ROLLBACK", id)' \/ HasAnswer'
BY Awaited

(* A client that awaits nothing, or a read on a session of its own.        *)
LEMMA IdleServed ==
    ASSUME SessionTypeOK, AllSound, Server, awaiting \in {0, Aside}
    PROVE  /\ conn' = conn
           /\ NoTx => NoTx'
           /\ AtRest => AtRest'
           /\ \A D : Live(D) => Live(D)'
           /\ conn # 0 => Len(sess'[conn].queue) <= Len(sess[conn].queue)
           /\ IF awaiting = 0 THEN UNCHANGED <<awaiting, answer>>
              ELSE UNCHANGED <<awaiting, answer>> \/ (awaiting' = 0 /\ answer' \in {"ok", "error"})
<1>0. conn = 0 \/ (conn \in Sessions /\ Len(sess[conn].queue) \in Nat)
  BY ConnType, QueueType
<1>e. UNCHANGED engine /\ conn' = conn
  BY ServerSound
<1>1. /\ IF awaiting = 0 THEN UNCHANGED <<awaiting, answer>>
         ELSE UNCHANGED <<awaiting, answer>> \/ (awaiting' = 0 /\ answer' \in {"ok", "error"})
  <2>1. CASE awaiting = 0
    BY <2>1, ServerSound
  <2>2. CASE awaiting = Aside
    BY <2>2, ServerDoes, ZeroIsNoSession DEF Marked, Serves, Falls, AsideServed
  <2> QED BY <2>1, <2>2, ZeroIsNoSession
<1>2. ASSUME conn # 0
      PROVE  /\ sess[conn].queue = <<>> => sess'[conn].queue = <<>>
             /\ Len(sess'[conn].queue) <= Len(sess[conn].queue)
             /\ sess[conn].queue = <<>> =>
                  \/ sess'[conn] = Fresh("closed")
                  \/ /\ sess'[conn].state = sess[conn].state /\ sess'[conn].tx = sess[conn].tx
                     /\ sess'[conn].staged = sess[conn].staged
  <2>0. conn \in Sessions /\ Len(sess[conn].queue) \in Nat
    BY <1>0, <1>2
  <2>1. CASE Marked
    <3>1. Alike(sess[conn], sess'[conn])
      BY <2>0, <2>1 DEF Marked
    <3> QED BY <2>0, <3>1 DEF Alike
  <2>2. CASE \E s \in Sessions : \E a, v, made : Serves(s, a, v, made)
    <3>0. PICK s \in Sessions : \E a, v, made : Serves(s, a, v, made)
      BY <2>2
    <3>1. PICK a, v, made : Serves(s, a, v, made)
      BY <3>0
    <3>2. sess'[conn] = (IF conn = s THEN v ELSE sess[conn]) /\ sess[s].queue # <<>>
      BY <2>0, <3>1 DEF Serves
    <3>3. Len(v.queue) = Len(sess[s].queue) - 1
      BY <3>1, QueueAfter
    <3>4. CASE conn = s
      <4>1. sess'[conn] = v /\ sess[conn].queue # <<>> /\ Len(v.queue) = Len(sess[conn].queue) - 1
        BY <3>2, <3>3, <3>4
      <4> QED BY <2>0, <4>1
    <3>5. CASE conn # s
      BY <2>0, <3>2, <3>5
    <3> QED BY <3>4, <3>5
  <2>3. CASE \E s \in Sessions : Falls(s)
    <3>1. PICK s \in Sessions : Falls(s)
      BY <2>3
    <3>2. sess'[conn] = IF conn = s THEN Fresh("closed") ELSE sess[conn]
      BY <2>0, <3>1 DEF Falls
    <3>3. Fresh("closed").queue = <<>> /\ Len(<<>>) = 0
      BY DEF Fresh
    <3> QED BY <2>0, <3>2, <3>3
  <2>4. CASE AsideServed
    BY <2>0, <2>4 DEF AsideServed
  <2> QED BY <2>1, <2>2, <2>3, <2>4, ServerDoes
<1>3. AtRest => AtRest'
  BY <1>1, <1>2, <1>e, ZeroIsNoSession DEF AtRest
<1>4. NoTx => NoTx'
  BY <1>2, <1>3, <1>e DEF NoTx, AtRest, OneSession, Fresh
<1>5. ASSUME NEW D, Live(D) PROVE Live(D)'
  BY <1>2, <1>5, <1>e DEF Live, Fresh
<1> QED BY <1>1, <1>2, <1>3, <1>4, <1>5, <1>e

(* A ROLLBACK that waits, perhaps behind the statement that timed out.     *)
LEMMA RollingServed ==
    ASSUME SessionTypeOK, AllSound, Server, Rolling
    PROVE  Rolling' \/ (HasAnswer' /\ NoTx')
<1> DEFINE q == sess[conn].queue
<1>0. /\ conn \in Sessions /\ conn # 0 /\ awaiting = conn /\ answer = "none" /\ awaiting # Aside
      /\ sess[conn].state = "open" /\ Len(q) \in 1 .. 2 /\ q[Len(q)].op = "ROLLBACK"
  BY ZeroIsNoSession DEF Rolling
<1>e. UNCHANGED engine /\ conn' = conn
  BY ServerSound
<1>1. CASE Marked
  <2>1. Alike(sess[conn], sess'[conn]) /\ UNCHANGED <<conn, awaiting, answer>>
    BY <1>0, <1>1 DEF Marked
  <2>2. Len(q) \in 1 .. Len(q)
    <3>1. \A n \in 1 .. 2 : n \in 1 .. n
      OBVIOUS
    <3> HIDE DEF q
    <3> QED BY <1>0, <3>1
  <2>3. sess'[conn].queue[Len(q)].op = "ROLLBACK" /\ Len(sess'[conn].queue) = Len(q)
    BY <1>0, <2>1, <2>2 DEF Alike
  <2> QED BY <1>0, <2>1, <2>3 DEF Rolling, Alike
<1>2. CASE \E s \in Sessions : \E a, v, made : Serves(s, a, v, made)
  <2>0. PICK s \in Sessions : \E a, v, made : Serves(s, a, v, made)
    BY <1>2
  <2>1. PICK a, v, made : Serves(s, a, v, made)
    BY <2>0
  <2>2. /\ \A r \in Sessions : sess'[r] = IF r = s THEN v ELSE sess[r]
        /\ IF awaiting = s /\ Len(sess[s].queue) = 1 THEN awaiting' = 0 /\ answer' = a
                                                     ELSE UNCHANGED <<awaiting, answer>>
        /\ v.state = "open"
    BY <2>1 DEF Serves
  <2>3. CASE s # conn
    BY <1>0, <1>e, <2>2, <2>3 DEF Rolling
  <2>4. CASE s = conn /\ Len(q) = 1
    <3>1. v.queue = <<>>
      BY <2>1, <2>4, QueueAfter
    <3>2. PICK u : EffectOf(q[1], sess[conn], a, u, made) /\ v.tx = u.tx
      BY <2>1, <2>4 DEF Serves
    <3>3. a # "none" /\ (OneSession => v.tx # "open")
      BY <1>0, <2>4, <3>2 DEF EffectOf
    <3>4. sess'[conn] = v /\ awaiting' = 0 /\ answer' = a
      BY <1>0, <2>2, <2>4
    <3> QED BY <1>e, <3>1, <3>3, <3>4 DEF HasAnswer, NoTx, AtRest, OneSession
  <2>5. CASE s = conn /\ Len(q) # 1
    <3>1. Len(q) = 2
      <4>1. \A n \in 1 .. 2 : n # 1 => n = 2
        OBVIOUS
      <4> HIDE DEF q
      <4> QED BY <1>0, <2>5, <4>1
    <3>2. Len(v.queue) = 1 /\ v.queue[1] = q[2]
      <4>1. Len(v.queue) = Len(q) - 1 /\ \A j \in 1 .. Len(v.queue) : v.queue[j] = q[j + 1]
        BY <2>1, <2>5, QueueAfter
      <4> HIDE DEF q
      <4> QED BY <3>1, <4>1
    <3>3. sess'[conn] = v /\ UNCHANGED <<awaiting, answer>>
      BY <1>0, <2>2, <2>5
    <3>4. q[2].op = "ROLLBACK"
      BY <1>0, <3>1
    <3> QED BY <1>0, <1>e, <2>2, <3>2, <3>3, <3>4 DEF Rolling
  <2> QED BY <2>3, <2>4, <2>5
<1>3. CASE \E s \in Sessions : Falls(s)
  <2>1. PICK s \in Sessions : Falls(s)
    BY <1>3
  <2>2. /\ \A r \in Sessions : sess'[r] = IF r = s THEN Fresh("closed") ELSE sess[r]
        /\ IF awaiting = s THEN awaiting' = 0 /\ answer' = "error" ELSE UNCHANGED <<awaiting, answer>>
    BY <1>0, <2>1 DEF Falls
  <2>3. CASE s # conn
    BY <1>0, <1>e, <2>2, <2>3 DEF Rolling
  <2>4. CASE s = conn
    BY <1>0, <1>e, <2>2, <2>4 DEF HasAnswer, NoTx, AtRest, OneSession, Fresh
  <2> QED BY <2>3, <2>4
<1>4. CASE AsideServed
  BY <1>0, <1>4 DEF AsideServed
<1> QED BY <1>1, <1>2, <1>3, <1>4, ServerDoes

-----------------------------------------------------------------------------
(* Sends under PerFile or WholeRun *)

(* What a statement sent into a transaction leaves of the pipelines.       *)
LEMMA SentTx ==
    ASSUME SessionTypeOK, AllSound, TxPipes, NEW s \in Sessions, NEW st \in Statements, SentOn(s, st),
           UNCHANGED engine,
           Len(sess[s].queue) <= 1,
           sess[s].queue # <<>> => st.op = "ROLLBACK",
           st.op = "WRITE" => sess[s].tx = "open",
           st.op = "BEGIN" /\ OneSession => sess[s].tx # "open"
    PROVE  /\ TxPipes'
           /\ \A r \in Sessions : CommitNext(sess'[r]) =>
                    CommitNext(sess[r]) \/ (r = s /\ st.op = "COMMIT")
           /\ sess[s].queue = <<>> => Awaits(st.op, st.id)'
           /\ st.op = "ROLLBACK" => Rolling'
           /\ \A D : Staged(D) /\ s = conn => Staged(D)'
<1> DEFINE p == sess[s].queue
           q == sess'[s].queue
<1>1. /\ sess'[s].state = "open" /\ sess'[s].tx = sess[s].tx /\ sess'[s].staged = sess[s].staged
      /\ conn' = s /\ awaiting' = s /\ answer' = "none"
      /\ \A r \in Sessions : r # s => sess'[r] = sess[r]
  BY DEF SentOn
<1>2. /\ p = <<>> => Len(q) = 1 /\ q[1] = st
      /\ Len(p) = 1 => Len(q) = 2 /\ q[1] = p[1] /\ q[2] = st
  BY SentQueue
<1>3. p = <<>> \/ (Len(p) = 1 /\ p # <<>>)
  <2>1. p \in Seq(Statements) /\ Len(p) \in Nat /\ Len(p) <= 1
    BY QueueType
  <2> HIDE DEF p
  <2>2. Len(p) = 0 => p = <<>>
    BY <2>1, EmptySeq
  <2>3. \A n \in Nat : n <= 1 => n = 0 \/ n = 1
    OBVIOUS
  <2> QED BY <2>1, <2>2, <2>3
<1> HIDE DEF q
<1>4. \/ p = <<>> /\ Len(q) = 1 /\ q[1] = st
      \/ p # <<>> /\ Len(q) = 2 /\ q[1] = p[1] /\ q[2] = st /\ st.op = "ROLLBACK"
  BY <1>2, <1>3
<1>5. TxPipe(sess[s])
  BY DEF TxPipes
<1>6. TxPipe(sess[s])'
  <2>0. sess'[s].queue = q
    BY DEF q
  <2>1. CASE p = <<>>
    <3>1. Len(q) = 1 /\ q[1].op = st.op
      BY <1>4, <2>1
    <3> QED BY <1>1, <2>0, <3>1 DEF TxPipe, OneSession
  <2>2. CASE p # <<>>
    <3>1. Len(q) = 2 /\ q[1] = p[1] /\ q[2].op = "ROLLBACK"
      BY <1>4, <2>2
    <3> QED BY <1>1, <1>5, <2>0, <2>2, <3>1 DEF TxPipe, OneSession
  <2> QED BY <2>1, <2>2
<1>7. TxPipes'
  <2> SUFFICES ASSUME NEW r \in Sessions, r # s PROVE TxPipe(sess[r])'
    BY <1>6 DEF TxPipes
  <2> QED BY <1>1 DEF TxPipes, TxPipe, OneSession
<1>8. \A r \in Sessions : CommitNext(sess'[r]) =>
            CommitNext(sess[r]) \/ (r = s /\ st.op = "COMMIT")
  <2>1. CommitNext(sess'[s]) => CommitNext(sess[s]) \/ st.op = "COMMIT"
    BY <1>4 DEF CommitNext, q
  <2> QED BY <1>1, <2>1
<1>9. p = <<>> => Awaits(st.op, st.id)'
  BY <1>1, <1>4 DEF Awaits, q
<1>10. st.op = "ROLLBACK" => Rolling'
  <2>1. Len(q) \in 1 .. 2 /\ (st.op = "ROLLBACK" => q[Len(q)].op = "ROLLBACK")
    BY <1>4
  <2> QED BY <1>1, <2>1 DEF Rolling, q
<1>11. \A D : Staged(D) /\ s = conn => Staged(D)'
  BY <1>1 DEF Staged
<1> QED BY <1>7, <1>8, <1>9, <1>10, <1>11

-----------------------------------------------------------------------------
(* What is due in the transaction of a file or of the run *)

(* The writes of the current file before statement n, of the files up to n *)
(* that did not fail, and all that the open transaction is to hold now, or *)
(* when it is committed.                                                   *)
Through(n) == {w \in WritesOf(file) : w < n}
Upto(n)    == UNION {WritesOf(f) : f \in (1 .. n) \ failed}
Before     == IF opts.scope = "PerFile" THEN {} ELSE Upto(file - 1)
Due        == Before \cup Through(stmt)
Unit       == IF opts.scope = "PerFile" THEN WritesOf(file) ELSE Upto(NFiles)

(* What is due depends on the place of the run only.                       *)
LEMMA DueSame ==
    ASSUME UNCHANGED <<opts, file, stmt, failed>>
    PROVE  Due' = Due /\ Unit' = Unit /\ Upto(file)' = Upto(file)
BY DEF Due, Unit, Before, Through, Upto, WritesOf, FirstOf, LastOf

(* The writes before the run's statement, and one statement further.       *)
LEMMA ThroughIs ==
    ASSUME ControlInv, file \in Files
    PROVE  /\ stmt = FirstOf(file) => Through(stmt) = {}
           /\ FirstOf(file) <= stmt /\ stmt <= LastOf(file) =>
                Through(stmt + 1) = Through(stmt) \cup ({stmt} \ Reads)
           /\ stmt > LastOf(file) => Through(stmt) = WritesOf(file)
<1>1. /\ FirstOf(file) \in Nat /\ LastOf(file) \in Nat /\ stmt \in Nat
      /\ Through(stmt) = {w \in WritesOf(file) : w < stmt}
      /\ Through(stmt + 1) = {w \in WritesOf(file) : w < stmt + 1}
      /\ WritesOf(file) = (FirstOf(file) .. LastOf(file)) \ Reads
  BY FileNumbers DEF ControlInv, ControlType, Through, WritesOf
<1> HIDE DEF FirstOf, LastOf
<1> QED BY <1>1

(* One file more adds its writes, unless it failed.                        *)
LEMMA UptoIs ==
    ASSUME ControlInv, file \in Files
    PROVE  /\ file \in failed => Upto(file) = Upto(file - 1)
           /\ file \notin failed => Upto(file) = Upto(file - 1) \cup WritesOf(file)
<1>1. (1 .. file) = (1 .. file - 1) \cup {file} /\ file \notin 1 .. file - 1
  BY DEF Files
<1>2. file \in failed => (1 .. file) \ failed = (1 .. file - 1) \ failed
  BY <1>1
<1>3. file \notin failed => (1 .. file) \ failed = ((1 .. file - 1) \ failed) \cup {file}
  BY <1>1
<1>4. file \in failed => Upto(file) = Upto(file - 1)
  BY <1>2 DEF Upto
<1>5. ASSUME file \notin failed PROVE Upto(file) = Upto(file - 1) \cup WritesOf(file)
  BY <1>3, <1>5 DEF Upto
<1> QED BY <1>4, <1>5

(* Before the first file nothing is due.                                   *)
LEMMA UptoStart == Upto(0) = {}
<1>1. 1 .. 0 = {}
  OBVIOUS
<1> QED BY <1>1 DEF Upto

(* A failure of the current file takes nothing from those before it.       *)
LEMMA UptoFailed ==
    ASSUME ControlInv, file \in Files, failed' = failed \cup {file}, UNCHANGED <<file>>
    PROVE  Upto(file)' = Upto(file - 1)
<1>1. (1 .. file) \ (failed \cup {file}) = (1 .. file - 1) \ failed
  BY DEF Files
<1> QED BY <1>1 DEF Upto, WritesOf, FirstOf, LastOf

-----------------------------------------------------------------------------
(* Where the transaction stands *)

(* Its session is idle in a transaction that holds D, and nothing awaited. *)
InTx(D) == awaiting = 0 /\ Live(D)

TxBegins ==
    at \in {"begin", "fbegin"} =>
        \/ Awaits("BEGIN", NoStatement)
        \/ HasAnswer /\ (answer \in Effective => Live({}))

TxRuns ==
    /\ at \in {"split", "check", "issue"} => InTx(Due)
    /\ at = "await" =>
         \/ Awaits(Kind, stmt) /\ Staged(Due)
         \/ awaiting = Aside /\ answer = "none" /\ Live(Due)
         \/ HasAnswer /\ (answer \in Effective => Live(Due \cup ({stmt} \ Reads)))

TxEnds ==
    /\ at \in {"fcommit", "wcommit"} =>
         \/ Awaits("COMMIT", NoStatement) /\ Staged(Unit)
         \/ HasAnswer /\ answer # "mismatch" /\ (answer = "ok" => NoTx)
    /\ at \in {"frollback", "wrollback"} => Awaits("ROLLBACK", NoStatement) \/ HasAnswer

TxStops ==
    /\ at = "stop" =>
         /\ conn # 0 => Len(sess[conn].queue) <= 1
         /\ stop = "NextFile" /\ opts.scope = "WholeRun" => InTx(Upto(file))
    /\ at = "rollback" => Rolling \/ (awaiting = 0 /\ answer # "none" /\ (Cancelled \/ NoTx))

(* Between two files: no transaction, or the run's.                        *)
TxBetween ==
    /\ at \in {"file", "fend"} /\ opts.scope = "PerFile" => Cancelled \/ NoTx
    /\ at = "file" /\ opts.scope = "WholeRun" => InTx(Upto(file - 1))
    /\ at = "fend" /\ opts.scope = "WholeRun" /\ stop # "AbortRun" => InTx(Upto(file))

(* No COMMIT is under way but the one the run waits for.                   *)
CommitOK == \A s \in Sessions : CommitNext(sess[s]) => awaiting = s /\ at \in {"fcommit", "wcommit"}

TxInv == TxPipes /\ CommitOK /\ TxBegins /\ TxRuns /\ TxEnds /\ TxStops /\ TxBetween

(* A run that awaits no COMMIT has none under way.                         *)
LEMMA NoCommitLeft ==
    ASSUME CommitOK, awaiting = 0 \/ at \notin {"fcommit", "wcommit"}
    PROVE  \A s \in Sessions : ~CommitNext(sess[s])
BY ZeroIsNoSession DEF CommitOK

(* A live transaction has a session with an empty pipeline.                *)
LEMMA LiveThere ==
    ASSUME SessionInv, NEW D, Live(D)
    PROVE  /\ conn \in Sessions /\ conn # 0 /\ sess[conn].queue = <<>>
           /\ sess[conn].state # "closed" => sess[conn].tx = "open" /\ Staged(D)
BY ConnType DEF SessionInv, Live, Staged

(* A session that is not open is in no transaction.                        *)
LEMMA UnopenedIs ==
    ASSUME SessionInv, NEW s \in Sessions, sess[s].state # "open"
    PROVE  sess[s].queue = <<>> /\ sess[s].tx = "none" /\ Len(sess[s].queue) = 0
<1>1. sess[s] = Fresh(sess[s].state)
  BY DEF SessionInv, AllSound, Sound
<1>2. Len(<<>>) = 0
  OBVIOUS
<1> QED BY <1>1, <1>2 DEF Fresh

(* The run's BEGIN, COMMIT or ROLLBACK on connection c.                    *)
LEMMA ControlTx ==
    ASSUME SessionInv, TxPipes, NEW op \in {"BEGIN", "COMMIT", "ROLLBACK"},
           NEW c \in 0 .. MaxSessions, Controls(op, c),
           c # 0 => Len(sess[c].queue) <= 1,
           c # 0 /\ op # "ROLLBACK" => sess[c].queue = <<>>,
           c # 0 /\ op = "BEGIN" /\ OneSession => sess[c].tx # "open"
    PROVE  /\ TxPipes'
           /\ \A r \in Sessions : CommitNext(sess'[r]) =>
                    CommitNext(sess[r]) \/ (awaiting' = r /\ op = "COMMIT")
           /\ c = 0 \/ sess[c].queue = <<>> =>
                    Awaits(op, NoStatement)' \/ (HasAnswer' /\ answer' \in {"error", "cancelled"})
           /\ op = "ROLLBACK" =>
                    Rolling' \/ (awaiting' = 0 /\ answer' # "none" /\ (Cancelled' \/ NoTx'))
           /\ \A D : c = conn /\ Live(D) =>
                    \/ Awaits(op, NoStatement)' /\ Staged(D)'
                    \/ HasAnswer' /\ answer' \in {"error", "cancelled"}
<1> DEFINE st == Statement(op, NoStatement, RunToken)
<1>0. SessionTypeOK /\ AllSound /\ op \in Ops
  BY DEF SessionInv, Ops
<1>1. /\ st \in Statements /\ st.op = op /\ st.id = NoStatement
      /\ \/ \E s \in Sessions : /\ SentOn(s, st) /\ (c # 0 => s = c)
                                /\ c = 0 => sess[s].state = "unopened"
         \/ Refused(c) /\ (c = 0 \/ sess[c].state = "closed" \/ Cancelled)
  BY <1>0, ControlSent
<1>2. UNCHANGED <<engine, fired>>
  BY DEF Controls
<1> HIDE DEF st
<1>3. CASE \E s \in Sessions : SentOn(s, st) /\ (c # 0 => s = c) /\ (c = 0 => sess[s].state = "unopened")
  <2>1. PICK s \in Sessions : SentOn(s, st) /\ (c # 0 => s = c) /\ (c = 0 => sess[s].state = "unopened")
    BY <1>3
  <2>2. /\ Len(sess[s].queue) <= 1
        /\ sess[s].queue # <<>> => st.op = "ROLLBACK"
        /\ st.op = "BEGIN" /\ OneSession => sess[s].tx # "open"
        /\ c = 0 => sess[s].queue = <<>>
    <3>1. CASE c = 0
      <4>1. sess[s].queue = <<>> /\ sess[s].tx = "none" /\ Len(sess[s].queue) = 0
        BY <2>1, <3>1, UnopenedIs
      <4> QED BY <4>1
    <3>2. CASE c # 0
      BY <1>1, <2>1, <3>2
    <3> QED BY <3>1, <3>2
  <2>3. /\ TxPipes'
        /\ \A r \in Sessions : CommitNext(sess'[r]) =>
                 CommitNext(sess[r]) \/ (r = s /\ st.op = "COMMIT")
        /\ sess[s].queue = <<>> => Awaits(st.op, st.id)'
        /\ st.op = "ROLLBACK" => Rolling'
        /\ \A D : Staged(D) /\ s = conn => Staged(D)'
    BY <1>0, <1>1, <1>2, <2>1, <2>2, SentTx
  <2>4. awaiting' = s
    BY <2>1 DEF SentOn
  <2>5. c = 0 \/ sess[c].queue = <<>> => Awaits(op, NoStatement)'
    BY <1>1, <2>1, <2>2, <2>3 DEF Awaits
  <2>6. ASSUME NEW D, c = conn, Live(D) PROVE Awaits(op, NoStatement)' /\ Staged(D)'
    <3>1. c # 0 /\ sess[c].queue = <<>> /\ s = conn
      BY <2>1, <2>6, LiveThere
    <3>2. Staged(D)
      BY <2>1, <2>6, <3>1, LiveThere DEF SentOn
    <3> QED BY <2>3, <2>5, <3>1, <3>2
  <2> QED BY <1>1, <2>3, <2>4, <2>5, <2>6
<1>4. CASE Refused(c) /\ (c = 0 \/ sess[c].state = "closed" \/ Cancelled)
  <2>1. sess' = sess /\ conn' = c /\ awaiting' = 0 /\ answer' \in {"error", "cancelled"}
    BY <1>4 DEF Refused
  <2>2. TxPipes'
    BY <1>2, <2>1 DEF TxPipes, TxPipe, OneSession
  <2>3. c = 0 \/ sess[c].queue = <<>> => HasAnswer'
    BY <2>1 DEF HasAnswer
  <2>4. Cancelled' \/ NoTx'
    <3>1. CASE Cancelled
      BY <1>2, <3>1 DEF Cancelled
    <3>2. CASE c = 0
      BY <2>1, <3>2 DEF NoTx, AtRest
    <3>3. CASE c # 0 /\ sess[c].state = "closed"
      <4>1. c \in Sessions
        BY <3>3, SessionAssumption DEF Sessions
      <4>2. sess[c].queue = <<>> /\ sess[c].tx = "none"
        BY <3>3, <4>1, UnopenedIs
      <4> QED BY <2>1, <4>2 DEF NoTx, AtRest
    <3> QED BY <1>4, <3>1, <3>2, <3>3
  <2>5. \A D : c = conn /\ Live(D) => HasAnswer'
    BY <2>3, LiveThere
  <2> QED BY <2>1, <2>2, <2>3, <2>4, <2>5
<1> QED BY <1>1, <1>3, <1>4

(* The steps that send nothing and leave the session as it is.             *)
LEMMA SessionsStay ==
    ASSUME UNCHANGED sessionVars
    PROVE  /\ TxPipes => TxPipes'
           /\ AtRest => AtRest'
           /\ NoTx => NoTx'
           /\ Cancelled => Cancelled'
           /\ \A D : InTx(D) => InTx(D)'
           /\ conn # 0 => Len(sess'[conn].queue) = Len(sess[conn].queue)
<1>1. UNCHANGED <<engine, sess, conn, awaiting, answer, fired>>
  BY DEF sessionVars
<1> QED BY <1>1 DEF TxPipes, TxPipe, OneSession, AtRest, NoTx, Cancelled, InTx, Live

(* TxInv holds after a step that leaves the sessions alone.                *)
LEMMA StaysTx ==
    ASSUME SessionInv, TxInv, UNCHANGED sessionVars, at' \notin Waiting,
           at \in Waiting => answer # "none",
           TxRuns', TxStops', TxBetween'
    PROVE  TxInv'
<1>1. awaiting = 0
  BY DEF SessionInv, AllSound, WaitsOK
<1>2. \A s \in Sessions : ~CommitNext(sess[s])
  BY <1>1, NoCommitLeft DEF TxInv
<1>3. UNCHANGED sess
  BY DEF sessionVars
<1>4. CommitOK'
  BY <1>2, <1>3 DEF CommitOK
<1>5. TxPipes'
  BY SessionsStay DEF TxInv
<1>6. TxBegins' /\ TxEnds'
  BY DEF TxBegins, TxEnds, Waiting
<1> QED BY <1>4, <1>5, <1>6 DEF TxInv

(* TxInv holds after the run's BEGIN.                                      *)
LEMMA RunBegunTx ==
    ASSUME ControlInv, SessionInv, TxInv, RunBegun, at' # "done"
    PROVE  TxInv'
<1>1. /\ at = "begin" /\ at' = "file" /\ answer \in Effective /\ answer # "none"
      /\ UNCHANGED sessionVars /\ UNCHANGED <<opts, file, failed>>
  BY DEF RunBegun, Goto, Succeeded, Effective, Finish
<1>2. opts.scope = "WholeRun" /\ file = 1
  BY <1>1 DEF ControlInv, PlacesOK
<1>3. InTx({})
  <2>1. HasAnswer /\ Live({})
    BY <1>1 DEF TxInv, TxBegins, Awaits
  <2> QED BY <2>1 DEF HasAnswer, InTx
<1>4. InTx({})' /\ Upto(file - 1)' = {}
  <2>1. InTx({})'
    BY <1>1, <1>3, SessionsStay
  <2>2. file' - 1 = 0 /\ 1 .. 0 = {}
    BY <1>1, <1>2
  <2> QED BY <2>1, <2>2 DEF Upto
<1>5. TxBetween'
  BY <1>1, <1>2, <1>4 DEF TxBetween, InTx, Live
<1>6. TxRuns' /\ TxStops'
  BY <1>1 DEF TxRuns, TxStops
<1> QED BY <1>1, <1>5, <1>6, StaysTx DEF Waiting

(* TxInv holds after the start of a file in the run's transaction.         *)
LEMMA StartFileTx ==
    ASSUME ControlInv, SessionInv, TxInv, StartFile, opts.scope = "WholeRun"
    PROVE  TxInv'
<1>1. /\ at = "file" /\ at' = "split" /\ stmt' = FirstOf(file) /\ file \in Files
      /\ UNCHANGED sessionVars /\ UNCHANGED <<opts, file, failed>>
  BY FilesAre DEF StartFile, ControlInv, ControlType
<1>2. PICK D : D = Upto(file - 1)
  OBVIOUS
<1>3. InTx(D)'
  <2>1. InTx(D)
    BY <1>1, <1>2 DEF TxInv, TxBetween
  <2> QED BY <1>1, <2>1, SessionsStay
<1>4. Due' = D
  <2>1. Through(stmt)' = {}
    <3>1. FirstOf(file) \in Nat /\ LastOf(file) \in Nat
      BY <1>1, FileNumbers
    <3>2. WritesOf(file)' = WritesOf(file) /\ WritesOf(file) = (FirstOf(file) .. LastOf(file)) \ Reads
      BY <1>1 DEF WritesOf, FirstOf, LastOf
    <3> HIDE DEF FirstOf, LastOf, WritesOf
    <3>3. {w \in WritesOf(file) : w < FirstOf(file)} = {}
      BY <3>1, <3>2
    <3> QED BY <1>1, <3>2, <3>3 DEF Through
  <2>2. Before' = D
    BY <1>1, <1>2 DEF Before, Upto, WritesOf, FirstOf, LastOf
  <2> QED BY <2>1, <2>2 DEF Due
<1>5. TxRuns'
  BY <1>1, <1>3, <1>4 DEF TxRuns, InTx, Live
<1>6. TxStops' /\ TxBetween'
  BY <1>1 DEF TxStops, TxBetween
<1> QED BY <1>1, <1>5, <1>6, StaysTx DEF Waiting

(* Out of a file that failed before its first statement.                   *)
LEMMA FileFailsTx ==
    ASSUME ControlInv, SessionInv, TxInv, FileFails, UNCHANGED sessionVars,
           (at \in {"fbegin", "frollback"} /\ answer # "none") \/ at = "split",
           opts.scope # "None"
    PROVE  TxInv'
<1>1. /\ at' = "stop" /\ failed' = failed \cup {file} /\ file \in Files
      /\ UNCHANGED <<opts, file, stmt>>
      /\ UNCHANGED <<conn, answer>>
  BY DEF FileFails, ControlInv, PlacesOK, InFile, sessionVars
<1>2. at = "split" => InTx(Due)
  BY DEF TxInv, TxRuns
<1>3. conn # 0 => sess[conn].queue = <<>>
  <2>1. at \in {"fbegin", "frollback"} => HasAnswer
    BY DEF TxInv, TxBegins, TxEnds, Awaits
  <2> QED BY <1>2, <2>1 DEF HasAnswer, InTx, Live
<1>4. conn' # 0 => Len(sess'[conn'].queue) <= 1
  BY <1>1, <1>3, SessionsStay
<1>5. opts.scope = "WholeRun" => InTx(Upto(file))'
  <2> SUFFICES ASSUME opts.scope = "WholeRun" PROVE InTx(Upto(file))'
    OBVIOUS
  <2>1. at = "split"
    BY DEF ControlInv, PlacesOK
  <2>2. stmt = FirstOf(file)
    BY <2>1 DEF ControlInv, StatementOK
  <2>3. Due = Upto(file - 1)
    BY <1>1, <2>2, ThroughIs DEF Due, Before
  <2>4. PICK D : D = Due
    OBVIOUS
  <2>5. InTx(D)'
    BY <1>2, <2>1, <2>4, SessionsStay
  <2>6. Upto(file)' = D
    BY <1>1, <2>3, <2>4, UptoFailed
  <2> QED BY <2>5, <2>6 DEF InTx, Live
<1>6. TxStops'
  BY <1>1, <1>4, <1>5 DEF TxStops
<1>7. TxRuns' /\ TxBetween'
  BY <1>1 DEF TxRuns, TxBetween
<1> QED BY <1>1, <1>6, <1>7, StaysTx DEF Waiting

(* Steps from one statement to the next.                                   *)
LEMMA GoesOnTx ==
    ASSUME ControlInv, SessionInv, TxInv, UNCHANGED sessionVars, UNCHANGED <<opts, file, stmt, failed>>,
           \/ at = "fbegin" /\ at' = "split" /\ answer \in Effective
           \/ at = "split" /\ at' = "check"
           \/ at = "check" /\ at' = "issue",
           opts.scope # "None"
    PROVE  TxInv'
<1>1. PICK D : D = Due
  OBVIOUS
<1>2. InTx(D)
  <2>1. CASE at = "fbegin"
    <3>1. answer # "none" /\ HasAnswer /\ Live({})
      BY <2>1 DEF TxInv, TxBegins, Awaits, Effective
    <3>2. opts.scope = "PerFile" /\ file \in Files /\ stmt = FirstOf(file)
      BY <2>1 DEF ControlInv, PlacesOK, StatementOK, InFile
    <3>3. D = {}
      BY <1>1, <3>2, ThroughIs DEF Due, Before
    <3> QED BY <3>1, <3>3 DEF HasAnswer, InTx
  <2>2. CASE at # "fbegin"
    BY <1>1, <2>2 DEF TxInv, TxRuns
  <2> QED BY <2>1, <2>2
<1>3. InTx(D)' /\ Due' = D
  BY <1>1, <1>2, SessionsStay, DueSame
<1>4. TxRuns'
  BY <1>3 DEF TxRuns, InTx, Live
<1>5. TxStops' /\ TxBetween'
  BY DEF TxStops, TxBetween
<1> QED BY <1>4, <1>5, StaysTx DEF Waiting, Effective

(* TxInv holds after a statement has finished.                             *)
LEMMA StatementFinishedTx ==
    ASSUME ControlInv, SessionInv, TxInv, StatementFinished, opts.scope # "None"
    PROVE  TxInv'
<1>1. /\ at = "await" /\ at' = "check" /\ stmt' = stmt + 1 /\ answer \in Effective /\ answer # "none"
      /\ UNCHANGED sessionVars /\ UNCHANGED <<opts, file, failed>>
      /\ file \in Files
  BY DEF StatementFinished, Succeeded, Effective, ControlInv, PlacesOK, InFile
<1>2. PICK D : D = Due \cup ({stmt} \ Reads)
  OBVIOUS
<1>3. InTx(D)
  <2>1. HasAnswer /\ Live(D)
    BY <1>1, <1>2 DEF TxInv, TxRuns, Awaits
  <2> QED BY <2>1 DEF HasAnswer, InTx
<1>4. InTx(D)'
  BY <1>1, <1>3, SessionsStay
<1>5. Due' = D
  <2>1. FirstOf(file) <= stmt /\ stmt <= LastOf(file)
    BY <1>1 DEF ControlInv, StatementOK
  <2>2. Through(stmt + 1) = Through(stmt) \cup ({stmt} \ Reads)
    BY <1>1, <2>1, ThroughIs
  <2>3. Through(stmt)' = Through(stmt + 1)
    BY <1>1 DEF Through, WritesOf, FirstOf, LastOf
  <2>4. Before' = Before
    BY <1>1 DEF Before, Upto, WritesOf, FirstOf, LastOf
  <2> QED BY <1>2, <2>2, <2>3, <2>4 DEF Due
<1>6. TxRuns'
  BY <1>1, <1>4, <1>5 DEF TxRuns, InTx, Live
<1>7. TxStops' /\ TxBetween'
  BY <1>1 DEF TxStops, TxBetween
<1> QED BY <1>1, <1>6, <1>7, StaysTx DEF Waiting

(* A statement fails, or the cancel is seen between two: the run is at the *)
(* end of the file, and owes nothing more than it holds.                   *)
LEMMA LeavesTx ==
    ASSUME ControlInv, SessionInv, TxInv, UNCHANGED sessionVars, at' = "stop",
           opts.scope # "None", UNCHANGED opts,
           opts.scope = "WholeRun" => stop' = "AbortRun",
           at \in {"check", "issue"} \/ (at = "await" /\ answer # "none")
    PROVE  TxInv'
<1>1. UNCHANGED <<conn, answer>>
  BY DEF sessionVars
<1>2. conn # 0 => sess[conn].queue = <<>>
  <2>1. CASE at \in {"check", "issue"}
    BY <2>1 DEF TxInv, TxRuns, InTx, Live
  <2>2. CASE at = "await" /\ answer # "none"
    BY <2>2 DEF TxInv, TxRuns, Awaits, HasAnswer
  <2> QED BY <2>1, <2>2
<1>3. conn' # 0 => Len(sess'[conn'].queue) <= 1
  BY <1>1, <1>2, SessionsStay
<1>4. TxStops'
  BY <1>3 DEF TxStops
<1>5. TxRuns' /\ TxBetween'
  BY DEF TxRuns, TxBetween
<1> QED BY <1>4, <1>5, StaysTx DEF Waiting

(* TxInv holds after the failure of a statement.                           *)
LEMMA StatementFailsTx ==
    ASSUME ControlInv, SessionInv, TxInv, RejectReadOnly \/ StatementFailed, opts.scope # "None"
    PROVE  TxInv'
<1>1. /\ UNCHANGED sessionVars /\ UNCHANGED opts
      /\ at = "issue" \/ (at = "await" /\ answer # "none")
      /\ StatementFails
  BY DEF RejectReadOnly, StatementFailed, StatementFails
<1>2. FailureAction # "NextStatement" /\ (opts.scope = "WholeRun" => FailureAction = "AbortRun")
  BY DEF FailureAction, ControlInv, ControlType
<1>3. at' = "stop" /\ (opts.scope = "WholeRun" => stop' = "AbortRun")
  BY <1>1, <1>2 DEF StatementFails
<1> QED BY <1>1, <1>3, LeavesTx

(* TxInv holds after the look at the run's token.                          *)
LEMMA CheckCancelTx ==
    ASSUME ControlInv, SessionInv, TxInv, CheckCancel, opts.scope # "None"
    PROVE  TxInv'
<1>1. CASE Goto("issue")
  BY <1>1, GoesOnTx DEF CheckCancel, Goto
<1>2. CASE ~Goto("issue")
  BY <1>2, LeavesTx DEF CheckCancel
<1> QED BY <1>1, <1>2

(* The clean end of a file of a whole run.                                 *)
LEMMA EndOfStatementsTx ==
    ASSUME ControlInv, SessionInv, TxInv, EndOfStatements, opts.scope = "WholeRun"
    PROVE  TxInv'
<1>1. /\ at = "check" /\ at' = "fend" /\ stmt > LastOf(file) /\ file \in Files
      /\ UNCHANGED sessionVars /\ UNCHANGED <<opts, file, stmt, failed>>
  BY DEF EndOfStatements, Goto, ControlInv, PlacesOK, InFile
<1>2. PICK D : D = Due
  OBVIOUS
<1>3. InTx(D)'
  BY <1>1, <1>2, SessionsStay DEF TxInv, TxRuns
<1>4. Upto(file)' = D
  <2>1. file \notin failed
    BY <1>1 DEF ControlInv, StopsOK, Leaving
  <2>2. Upto(file) = Upto(file - 1) \cup WritesOf(file)
    BY <1>1, <2>1, UptoIs
  <2>3. Through(stmt) = WritesOf(file)
    BY <1>1, ThroughIs
  <2>4. Upto(file)' = Upto(file)
    BY <1>1, DueSame
  <2> QED BY <1>2, <2>2, <2>3, <2>4 DEF Due, Before
<1>5. TxBetween'
  BY <1>1, <1>3, <1>4 DEF TxBetween, InTx, Live
<1>6. TxRuns' /\ TxStops'
  BY <1>1 DEF TxRuns, TxStops
<1> QED BY <1>1, <1>5, <1>6, StaysTx DEF Waiting

(* Out of a file, with its transaction committed, rolled back or left to   *)
(* the run.                                                                *)
LEMMA FileEndsTx ==
    ASSUME ControlInv, SessionInv, TxInv, UNCHANGED sessionVars, at' = "fend",
           UNCHANGED <<opts, file, stmt, stop, failed>>, opts.scope # "None",
           \/ at = "fcommit" /\ answer \in Effective
           \/ at = "stop" /\ stop = "NextFile" /\ opts.scope = "WholeRun"
           \/ at = "rollback" /\ answer # "none"
    PROVE  TxInv'
<1>0. UNCHANGED <<conn, answer, awaiting, fired>>
  BY DEF sessionVars
<1>1. opts.scope = "PerFile" => (Cancelled \/ NoTx)'
  <2> SUFFICES ASSUME opts.scope = "PerFile" PROVE Cancelled' \/ NoTx'
    OBVIOUS
  <2>1. CASE at = "fcommit"
    BY <2>1, SessionsStay DEF TxInv, TxEnds, Awaits, Effective
  <2>2. CASE at = "rollback"
    BY <2>2, SessionsStay DEF TxInv, TxStops, Rolling
  <2> QED BY <2>1, <2>2
<1>2. opts.scope = "WholeRun" /\ stop # "AbortRun" => InTx(Upto(file))'
  <2> SUFFICES ASSUME opts.scope = "WholeRun", stop # "AbortRun" PROVE InTx(Upto(file))'
    OBVIOUS
  <2>1. at = "stop"
    BY DEF ControlInv, PlacesOK, StopsOK
  <2>2. PICK D : D = Upto(file)
    OBVIOUS
  <2>3. InTx(D)'
    BY <2>1, <2>2, SessionsStay DEF TxInv, TxStops
  <2>4. Upto(file)' = D
    BY <2>2, DueSame
  <2> QED BY <2>3, <2>4 DEF InTx, Live
<1>3. TxBetween'
  BY <1>1, <1>2 DEF TxBetween
<1>4. TxRuns' /\ TxStops'
  BY DEF TxRuns, TxStops
<1> QED BY <1>3, <1>4, StaysTx DEF Waiting, Effective

(* TxInv holds after the end of a file.                                    *)
LEMMA EndFileTx ==
    ASSUME ControlInv, SessionInv, TxInv, EndFile, at' # "done", opts.scope # "None"
    PROVE  TxInv'
<1>1. /\ at = "fend" /\ at' = "file" /\ file' = file + 1 /\ stop # "AbortRun" /\ file \in Files
      /\ UNCHANGED sessionVars /\ UNCHANGED <<opts, failed>>
  BY DEF EndFile, Finish, ControlInv, PlacesOK, InFile
<1>2. opts.scope = "PerFile" => (Cancelled \/ NoTx)'
  BY <1>1, SessionsStay DEF TxInv, TxBetween
<1>3. opts.scope = "WholeRun" => InTx(Upto(file - 1))'
  <2> SUFFICES ASSUME opts.scope = "WholeRun" PROVE InTx(Upto(file - 1))'
    OBVIOUS
  <2>1. PICK D : D = Upto(file)
    OBVIOUS
  <2>2. InTx(D)'
    BY <1>1, <2>1, SessionsStay DEF TxInv, TxBetween
  <2>3. Upto(file - 1)' = D
    <3>1. file' - 1 = file
      BY <1>1 DEF Files
    <3> QED BY <1>1, <2>1, <3>1 DEF Upto, WritesOf, FirstOf, LastOf
  <2> QED BY <2>2, <2>3 DEF InTx, Live
<1>4. TxBetween'
  BY <1>1, <1>2, <1>3 DEF TxBetween
<1>5. TxRuns' /\ TxStops'
  BY <1>1 DEF TxRuns, TxStops
<1> QED BY <1>1, <1>4, <1>5, StaysTx DEF Waiting

-----------------------------------------------------------------------------
(* The steps that open, close or end a transaction.                        *)
LEMMA SendsTx ==
    ASSUME SessionInv, TxInv, TxPipes', NEW op,
           \A r \in Sessions : CommitNext(sess'[r]) =>
                 CommitNext(sess[r]) \/ (awaiting' = r /\ op = "COMMIT"),
           awaiting = 0 \/ at \notin {"fcommit", "wcommit"},
           op = "COMMIT" => at' \in {"fcommit", "wcommit"},
           TxBegins', TxRuns', TxEnds', TxStops', TxBetween'
    PROVE  TxInv'
<1>1. \A s \in Sessions : ~CommitNext(sess[s])
  BY NoCommitLeft DEF TxInv
<1>2. CommitOK'
  BY <1>1 DEF CommitOK
<1> QED BY <1>2 DEF TxInv

(* TxInv holds after a BEGIN was sent.                                     *)
LEMMA BeginTx ==
    ASSUME ControlInv, SessionInv, TxInv,
           \/ at = "start" /\ Controls("BEGIN", Opened) /\ at' = "begin"
           \/ at = "file" /\ opts.scope = "PerFile" /\ ~Cancelled /\ Controls("BEGIN", conn) /\ at' = "fbegin"
    PROVE  TxInv'
<1>1. PICK c \in 0 .. MaxSessions :
         /\ Controls("BEGIN", c)
         /\ c # 0 => sess[c].queue = <<>> /\ Len(sess[c].queue) <= 1 /\ (OneSession => sess[c].tx # "open")
  <2>0. Len(<<>>) <= 1
    OBVIOUS
  <2>1. CASE at = "start" /\ Controls("BEGIN", Opened)
    <3>1. Opened \in 0 .. MaxSessions /\ (Opened # 0 => Opened \in Sessions)
      BY OpenedType, SessionAssumption DEF Sessions
    <3>2. Opened # 0 => sess[Opened].state # "open"
      BY <2>1, <3>1 DEF SessionInv, WaitsOK, Fresh
    <3>3. Opened # 0 => sess[Opened].queue = <<>> /\ sess[Opened].tx = "none"
      BY <3>1, <3>2, UnopenedIs
    <3> QED BY <2>0, <2>1, <3>1, <3>3
  <2>2. CASE at = "file" /\ opts.scope = "PerFile" /\ ~Cancelled /\ Controls("BEGIN", conn)
    <3>1. NoTx /\ conn \in 0 .. MaxSessions
      BY <2>2 DEF TxInv, TxBetween, SessionInv, SessionTypeOK
    <3> QED BY <2>0, <2>2, <3>1 DEF NoTx, AtRest
  <2> QED BY <2>1, <2>2
<1>2. /\ TxPipes'
      /\ \A r \in Sessions : CommitNext(sess'[r]) =>
               CommitNext(sess[r]) \/ (awaiting' = r /\ "BEGIN" = "COMMIT")
      /\ Awaits("BEGIN", NoStatement)' \/ (HasAnswer' /\ answer' \in {"error", "cancelled"})
  BY <1>1, ControlTx DEF TxInv
<1>3. TxBegins'
  BY <1>2 DEF TxBegins, Effective
<1>4. TxRuns' /\ TxEnds' /\ TxStops' /\ TxBetween'
  BY DEF TxRuns, TxEnds, TxStops, TxBetween
<1> QED BY <1>2, <1>3, <1>4, SendsTx

(* TxInv holds after a COMMIT was sent.                                    *)
LEMMA CommitTx ==
    ASSUME ControlInv, SessionInv, TxInv, Controls("COMMIT", conn), UNCHANGED <<opts, file, stmt, failed>>,
           \/ at = "check" /\ at' = "fcommit" /\ stmt > LastOf(file) /\ opts.scope = "PerFile"
           \/ at = "file" /\ at' = "wcommit" /\ file = NFiles + 1 /\ opts.scope = "WholeRun"
    PROVE  TxInv'
<1>1. PICK D : D = Unit
  OBVIOUS
<1>2. Live(D)
  <2>1. CASE at = "check"
    <3>1. file \in Files
      BY <2>1 DEF ControlInv, PlacesOK, InFile
    <3>2. Due = Unit
      BY <2>1, <3>1, ThroughIs DEF Due, Before, Unit
    <3> QED BY <1>1, <2>1, <3>2 DEF TxInv, TxRuns, InTx
  <2>2. CASE at = "file"
    <3>1. file - 1 = NFiles
      BY <2>2, ScriptAssumption
    <3>2. Upto(file - 1) = Unit
      BY <2>2, <3>1 DEF Unit
    <3> QED BY <1>1, <2>2, <3>2 DEF TxInv, TxBetween, InTx
  <2> QED BY <2>1, <2>2
<1>3. conn \in 0 .. MaxSessions /\ conn # 0 /\ sess[conn].queue = <<>> /\ Len(sess[conn].queue) <= 1
  <2>1. Len(<<>>) <= 1
    OBVIOUS
  <2> QED BY <1>2, <2>1, LiveThere DEF SessionInv, SessionTypeOK
<1>4. /\ TxPipes'
      /\ \A r \in Sessions : CommitNext(sess'[r]) =>
               CommitNext(sess[r]) \/ (awaiting' = r /\ "COMMIT" = "COMMIT")
      /\ \/ Awaits("COMMIT", NoStatement)' /\ Staged(D)'
         \/ HasAnswer' /\ answer' \in {"error", "cancelled"}
  BY <1>2, <1>3, ControlTx DEF TxInv
<1>5. TxEnds'
  <2>1. Unit' = D
    BY <1>1, DueSame
  <2> QED BY <1>4, <2>1 DEF TxEnds, Staged
<1>6. TxBegins' /\ TxRuns' /\ TxStops' /\ TxBetween'
  BY DEF TxBegins, TxRuns, TxStops, TxBetween
<1> QED BY <1>4, <1>5, <1>6, SendsTx

(* TxInv holds after a ROLLBACK was sent.                                  *)
LEMMA RollbackTx ==
    ASSUME ControlInv, SessionInv, TxInv, Controls("ROLLBACK", conn), opts.scope # "None",
           \/ at = "fcommit" /\ at' = "frollback" /\ answer # "none"
           \/ at = "wcommit" /\ at' = "wrollback" /\ answer # "none"
           \/ at = "stop" /\ at' = "rollback"
    PROVE  TxInv'
<1>0. conn \in 0 .. MaxSessions /\ Len(<<>>) <= 1 /\ awaiting = 0
  BY DEF SessionInv, SessionTypeOK, AllSound, WaitsOK, Waiting
<1>1. /\ conn # 0 => Len(sess[conn].queue) <= 1
      /\ at \in {"fcommit", "wcommit"} /\ conn # 0 => sess[conn].queue = <<>>
  BY <1>0 DEF TxInv, TxEnds, TxStops, Awaits, HasAnswer
<1>2. /\ TxPipes'
      /\ \A r \in Sessions : CommitNext(sess'[r]) =>
               CommitNext(sess[r]) \/ (awaiting' = r /\ "ROLLBACK" = "COMMIT")
      /\ conn = 0 \/ sess[conn].queue = <<>> =>
               Awaits("ROLLBACK", NoStatement)' \/ (HasAnswer' /\ answer' \in {"error", "cancelled"})
      /\ Rolling' \/ (awaiting' = 0 /\ answer' # "none" /\ (Cancelled' \/ NoTx'))
  BY <1>0, <1>1, ControlTx DEF TxInv
<1>3. TxEnds'
  BY <1>1, <1>2 DEF TxEnds
<1>4. TxStops'
  BY <1>2 DEF TxStops
<1>5. TxBegins' /\ TxRuns' /\ TxBetween'
  BY DEF TxBegins, TxRuns, TxBetween
<1> QED BY <1>0, <1>2, <1>3, <1>4, <1>5, SendsTx

(* TxInv holds after a statement was issued.                               *)
LEMMA IssueTx ==
    ASSUME ControlInv, SessionInv, TxInv, Issue, opts.scope # "None"
    PROVE  TxInv'
<1>1. /\ at = "issue" /\ at' = "await" /\ UNCHANGED <<opts, file, stmt, failed, engine>>
  BY DEF Issue, Goto
<1>2. PICK D, k, n, st : D = Due /\ k = Kind /\ n = stmt /\ st = Statement(k, n, n)
  OBVIOUS
<1>3. Live(D) /\ awaiting = 0
  BY <1>1, <1>2 DEF TxInv, TxRuns, InTx
<1>4. /\ conn \in Sessions /\ conn # 0 /\ sess[conn].queue = <<>>
      /\ sess[conn].state # "closed" => sess[conn].tx = "open" /\ Staged(D)
  BY <1>3, LiveThere
<1>5. Due' = D /\ Kind' = k /\ stmt' = n
  BY <1>1, <1>2, DueSame DEF Kind
<1>6. /\ st \in Statements /\ st.op = k /\ st.id = n
      /\ \/ \E s \in Sessions : /\ SentOn(s, st) /\ (conn # 0 => s = conn)
                                /\ conn = 0 => sess[s].state = "unopened"
         \/ QueriesAside /\ stmt \in Reads
         \/ Refused(conn)
  BY <1>2, IssueSent
<1>7. SessionTypeOK /\ AllSound /\ TxPipes
  BY DEF SessionInv, TxInv
<1>8. CASE SentOn(conn, st)
  <2>1. sess[conn].state # "closed" /\ Len(<<>>) <= 1
    BY <1>8 DEF SentOn
  <2>2. st.op # "BEGIN" /\ st.op # "COMMIT"
    BY <1>2, <1>6 DEF Kind
  <2>3. /\ TxPipes'
        /\ \A r \in Sessions : CommitNext(sess'[r]) =>
                 CommitNext(sess[r]) \/ (r = conn /\ st.op = "COMMIT")
        /\ Awaits(st.op, st.id)'
        /\ Staged(D)'
    BY <1>1, <1>4, <1>6, <1>7, <1>8, <2>1, <2>2, SentTx
  <2>4. TxRuns'
    BY <1>1, <1>5, <1>6, <2>3 DEF TxRuns, Awaits, Staged
  <2>5. TxBegins' /\ TxEnds' /\ TxStops' /\ TxBetween'
    BY <1>1 DEF TxBegins, TxEnds, TxStops, TxBetween
  <2> QED BY <1>1, <2>2, <2>3, <2>4, <2>5, SendsTx
<1>9. CASE QueriesAside \/ Refused(conn)
  <2>1. /\ UNCHANGED <<sess, conn>>
        /\ \/ awaiting' = Aside /\ answer' = "none"
           \/ awaiting' = 0 /\ answer' \in {"error", "cancelled"}
    BY <1>9 DEF QueriesAside, Refused
  <2>2. Live(D)'
    BY <1>3, <2>1 DEF Live
  <2>3. HasAnswer' \/ (awaiting' = Aside /\ answer' = "none")
    BY <1>4, <2>1 DEF HasAnswer
  <2>4. TxRuns'
    BY <1>1, <1>5, <2>1, <2>2, <2>3 DEF TxRuns, Live, Effective
  <2>5. TxPipes'
    BY <1>1, <1>7, <2>1 DEF TxPipes, TxPipe, OneSession
  <2>6. TxBegins' /\ TxEnds' /\ TxStops' /\ TxBetween'
    BY <1>1 DEF TxBegins, TxEnds, TxStops, TxBetween
  <2> QED BY <1>1, <2>1, <2>4, <2>5, <2>6, SendsTx
<1> QED BY <1>4, <1>6, <1>8, <1>9

(* TxInv holds after a statement timed out.                                *)
LEMMA TimeOutTx ==
    ASSUME ControlInv, SessionInv, TxInv, TimeOut, opts.scope # "None"
    PROVE  TxInv'
<1>1. /\ at = "await" /\ answer = "none" /\ UNCHANGED <<sess, engine, opts>>
      /\ conn' \in {conn, 0} /\ awaiting' = 0 /\ StatementFails
  BY DEF TimeOut, AfterDrop, StatementFails
<1>2. at' = "stop" /\ (opts.scope = "WholeRun" => stop' = "AbortRun")
  BY <1>1 DEF StatementFails, FailureAction, ControlInv, ControlType
<1>3. conn # 0 => Len(sess[conn].queue) <= 1
  <2>1. Len(<<>>) <= 1
    OBVIOUS
  <2>2. Awaits(Kind, stmt) \/ Live(Due)
    BY <1>1 DEF TxInv, TxRuns, HasAnswer
  <2>3. Awaits(Kind, stmt) => Len(sess[conn].queue) = 1
    BY DEF Awaits
  <2>4. Live(Due) => sess[conn].queue = <<>>
    BY DEF Live
  <2>5. 1 <= 1
    OBVIOUS
  <2> QED BY <2>1, <2>2, <2>3, <2>4, <2>5
<1>4. TxStops'
  BY <1>1, <1>2, <1>3 DEF TxStops
<1>5. TxBegins' /\ TxRuns' /\ TxEnds' /\ TxBetween'
  BY <1>2 DEF TxBegins, TxRuns, TxEnds, TxBetween
<1>6. TxPipes'
  BY <1>1 DEF TxInv, TxPipes, TxPipe, OneSession
<1> QED BY <1>1, <1>4, <1>5, <1>6, SendsTx

(* TxInv holds after the connection was dropped.                           *)
LEMMA DropTx ==
    ASSUME SessionInv, TxInv, DropConnection, at' = "done",
           at \in Waiting => answer # "none"
    PROVE  TxInv'
<1>1. UNCHANGED <<engine, sess>> /\ awaiting' = 0
  BY DEF DropConnection
<1>2. awaiting = 0
  BY DEF SessionInv, AllSound, WaitsOK
<1>3. TxPipes'
  BY <1>1 DEF TxInv, TxPipes, TxPipe, OneSession
<1>4. TxBegins' /\ TxRuns' /\ TxEnds' /\ TxStops' /\ TxBetween'
  BY DEF TxBegins, TxRuns, TxEnds, TxStops, TxBetween
<1> QED BY <1>1, <1>2, <1>3, <1>4, SendsTx

(* TxInv holds after the connection was opened.                            *)
LEMMA OpensTx ==
    ASSUME SessionInv, TxInv, at = "start", at' = "file", conn' = Opened, opts.scope = "PerFile",
           UNCHANGED <<opts, engine, sess, awaiting, answer, fired, creqs, durable, view, lost>>
    PROVE  TxInv'
<1>1. awaiting = 0
  BY DEF SessionInv, WaitsOK, Waiting
<1>2. Opened # 0 => sess[Opened].queue = <<>> /\ sess[Opened].tx = "none"
  <2>1. Opened # 0 => Opened \in Sessions
    BY OpenedType, SessionAssumption DEF Sessions
  <2> QED BY <2>1 DEF SessionInv, WaitsOK, Fresh
<1>3. NoTx'
  BY <1>1, <1>2 DEF NoTx, AtRest
<1>4. TxBetween'
  BY <1>3 DEF TxBetween
<1>5. TxPipes'
  BY DEF TxInv, TxPipes, TxPipe, OneSession
<1>6. TxBegins' /\ TxRuns' /\ TxEnds' /\ TxStops'
  BY DEF TxBegins, TxRuns, TxEnds, TxStops
<1> QED BY <1>1, <1>4, <1>5, <1>6, SendsTx

(* Nothing changes but, perhaps, that the run is cancelled.                *)
LEMMA SameTx ==
    ASSUME TxInv, UNCHANGED <<engine, sess, conn, awaiting, answer>>,
           Cancelled => Cancelled',
           UNCHANGED <<opts, at, file, stmt, stop, failed>>
    PROVE  TxInv'
<1>1. TxPipes' /\ CommitOK'
  BY DEF TxInv, TxPipes, TxPipe, OneSession, CommitOK
<1>2. TxBegins' /\ TxEnds'
  <2>1. Unit' = Unit
    BY DueSame
  <2> QED BY <2>1 DEF TxInv, TxBegins, TxEnds, Awaits, HasAnswer, Live, Staged, NoTx, AtRest, OneSession
<1>3. TxRuns'
  <2>1. Due' = Due /\ Kind' = Kind
    BY DueSame DEF Kind
  <2> QED BY <2>1 DEF TxInv, TxRuns, Awaits, HasAnswer, InTx, Live, Staged
<1>4. TxStops' /\ TxBetween'
  <2>1. Upto(file)' = Upto(file) /\ Upto(file - 1)' = Upto(file - 1)
    BY DueSame DEF Upto, WritesOf, FirstOf, LastOf
  <2> QED BY <2>1 DEF TxInv, TxStops, TxBetween, Rolling, InTx, Live, NoTx, AtRest, OneSession
<1> QED BY <1>1, <1>2, <1>3, <1>4 DEF TxInv

(* The server's steps, wherever the run is.                                *)
LEMMA ServerTx ==
    ASSUME ControlInv, SessionInv, TxInv, Server, UNCHANGED control
    PROVE  TxInv'
<1>0. SessionTypeOK /\ AllSound /\ TxPipes /\ CommitOK
  BY DEF SessionInv, TxInv
<1>1. UNCHANGED <<opts, at, file, stmt, stop, failed>> /\ UNCHANGED <<conn, fired>>
  BY <1>0, ServerSound DEF control
<1>2. Due' = Due /\ Unit' = Unit /\ Upto(file)' = Upto(file) /\ Kind' = Kind
      /\ Upto(file - 1)' = Upto(file - 1) /\ Cancelled' = Cancelled
  BY <1>1, DueSame DEF Kind, Upto, WritesOf, FirstOf, LastOf, Cancelled
<1>3. TxPipes' /\ CommitOK'
  <2>1. /\ TxPipes'
        /\ \A s \in Sessions : CommitNext(sess'[s]) =>
                 CommitNext(sess[s]) /\ (awaiting = s => awaiting' = s)
    BY <1>0, TxServer
  <2> QED BY <1>0, <1>1, <2>1 DEF CommitOK
<1>i. awaiting \in {0, Aside} =>
        /\ NoTx => NoTx'
        /\ AtRest => AtRest'
        /\ \A D : Live(D) => Live(D)'
        /\ conn # 0 => Len(sess'[conn].queue) <= Len(sess[conn].queue)
        /\ IF awaiting = 0 THEN UNCHANGED <<awaiting, answer>>
           ELSE UNCHANGED <<awaiting, answer>> \/ (awaiting' = 0 /\ answer' \in {"ok", "error"})
  BY <1>0, IdleServed
<1>a. HasAnswer => HasAnswer' /\ UNCHANGED <<awaiting, answer>>
  BY <1>i DEF HasAnswer, AtRest
<1>t. ASSUME NEW D, InTx(D) PROVE InTx(D)'
  BY <1>i, <1>t DEF InTx
<1>4. TxBegins'
  <2> SUFFICES ASSUME at \in {"begin", "fbegin"}
               PROVE  \/ Awaits("BEGIN", NoStatement)'
                      \/ HasAnswer' /\ (answer' \in Effective => Live({})')
    BY <1>1 DEF TxBegins
  <2>1. CASE Awaits("BEGIN", NoStatement)
    BY <1>0, <2>1, BeginAwaited
  <2>2. CASE HasAnswer /\ (answer \in Effective => Live({}))
    BY <1>a, <1>i, <2>2 DEF HasAnswer
  <2> QED BY <2>1, <2>2 DEF TxInv, TxBegins
<1>5. TxRuns'
  <2>1. CASE at \in {"split", "check", "issue"}
    <3>1. PICK D : D = Due
      OBVIOUS
    <3>2. InTx(D)'
      BY <1>t, <2>1, <3>1 DEF TxInv, TxRuns
    <3> QED BY <1>1, <1>2, <2>1, <3>1, <3>2 DEF TxRuns, InTx, Live
  <2>2. CASE at = "await"
    <3>1. PICK D, k, n : D = Due /\ k = Kind /\ n = stmt
      OBVIOUS
    <3>2. \/ Awaits(k, n) /\ Staged(D)
          \/ awaiting = Aside /\ answer = "none" /\ Live(D)
          \/ HasAnswer /\ (answer \in Effective => Live(D \cup ({n} \ Reads)))
      BY <2>2, <3>1 DEF TxInv, TxRuns
    <3>3. \/ Awaits(k, n)' /\ Staged(D)'
          \/ awaiting' = Aside /\ answer' = "none" /\ Live(D)'
          \/ HasAnswer' /\ (answer' \in Effective => Live(D \cup ({n} \ Reads))')
      <4>1. CASE Awaits(k, n) /\ Staged(D)
        <5>1. k \in {"READ", "WRITE"} /\ (IF k = "WRITE" THEN D \cup {n} ELSE D) = D \cup ({n} \ Reads)
          BY <3>1 DEF Kind
        <5> QED BY <1>0, <4>1, <5>1, StatementAwaited
      <4>2. CASE awaiting = Aside /\ answer = "none" /\ Live(D)
        <5>1. Live(D)'
          BY <1>i, <4>2
        <5>2. \/ UNCHANGED <<awaiting, answer>>
              \/ awaiting' = 0 /\ answer' \in {"ok", "error"}
          BY <1>i, <4>2, ZeroIsNoSession
        <5>3. stmt \in Reads
          BY <4>2 DEF SessionInv, WaitsOK
        <5>4. D \cup ({n} \ Reads) = D
          BY <3>1, <5>3
        <5>5. CASE awaiting' = 0 /\ answer' \in {"ok", "error"}
          BY <5>1, <5>4, <5>5 DEF HasAnswer, Live
        <5> QED BY <4>2, <5>1, <5>2, <5>5
      <4>3. CASE HasAnswer /\ (answer \in Effective => Live(D \cup ({n} \ Reads)))
        BY <1>a, <1>i, <4>3 DEF HasAnswer
      <4> QED BY <3>2, <4>1, <4>2, <4>3
    <3> QED BY <1>1, <1>2, <2>2, <3>1, <3>3 DEF TxRuns, Awaits, Staged, Live
  <2> QED BY <1>1, <2>1, <2>2 DEF TxRuns
<1>6. TxEnds'
  <2>1. CASE at \in {"fcommit", "wcommit"}
    <3>1. PICK D : D = Unit
      OBVIOUS
    <3>2. \/ Awaits("COMMIT", NoStatement) /\ Staged(D)
          \/ HasAnswer /\ answer # "mismatch" /\ (answer = "ok" => NoTx)
      BY <2>1, <3>1 DEF TxInv, TxEnds
    <3>3. \/ Awaits("COMMIT", NoStatement)' /\ Staged(D)'
          \/ HasAnswer' /\ answer' # "mismatch" /\ (answer' = "ok" => NoTx')
      <4>1. CASE Awaits("COMMIT", NoStatement) /\ Staged(D)
        BY <1>0, <4>1, CommitAwaited
      <4>2. CASE HasAnswer /\ answer # "mismatch" /\ (answer = "ok" => NoTx)
        BY <1>a, <1>i, <4>2 DEF HasAnswer
      <4> QED BY <3>2, <4>1, <4>2
    <3> QED BY <1>1, <1>2, <2>1, <3>1, <3>3 DEF TxEnds, Staged
  <2>2. CASE at \in {"frollback", "wrollback"}
    <3>1. CASE Awaits("ROLLBACK", NoStatement)
      BY <1>0, <1>1, <2>2, <3>1, RollbackAwaited DEF TxEnds
    <3>2. CASE HasAnswer
      BY <1>1, <1>a, <2>2, <3>2 DEF TxEnds
    <3> QED BY <2>2, <3>1, <3>2 DEF TxInv, TxEnds
  <2> QED BY <1>1, <2>1, <2>2 DEF TxEnds
<1>7. TxStops'
  <2>1. CASE at = "stop"
    <3>1. awaiting = 0
      BY <2>1 DEF SessionInv, WaitsOK, Waiting
    <3>2. PICK D : D = Upto(file)
      OBVIOUS
    <3>3. stop = "NextFile" /\ opts.scope = "WholeRun" => InTx(D)'
      BY <1>t, <2>1, <3>2 DEF TxInv, TxStops
    <3>4. conn # 0 => Len(sess'[conn].queue) <= 1
      <4> SUFFICES ASSUME conn # 0 PROVE Len(sess'[conn].queue) <= 1
        OBVIOUS
      <4>1. conn \in Sessions
        BY <1>0, ConnType
      <4>2. /\ Len(sess[conn].queue) <= 1 /\ Len(sess'[conn].queue) <= Len(sess[conn].queue)
            /\ Len(sess[conn].queue) \in Nat
        BY <1>0, <1>i, <2>1, <3>1, <4>1, QueueType DEF TxInv, TxStops
      <4>3. Len(sess'[conn].queue) \in Nat
        <5>1. SessionTypeOK'
          BY <1>0, ServerSound
        <5>2. sess'[conn].queue \in Seq(Statements)
          BY <4>1, <5>1 DEF SessionTypeOK, SessionStates
        <5> QED BY <5>2
      <4> QED BY <4>2, <4>3
    <3> QED BY <1>1, <1>2, <2>1, <3>2, <3>3, <3>4 DEF TxStops, InTx, Live
  <2>2. CASE at = "rollback"
    <3>1. CASE Rolling
      BY <1>0, <1>1, <2>2, <3>1, RollingServed DEF TxStops, HasAnswer
    <3>2. CASE awaiting = 0 /\ answer # "none" /\ (Cancelled \/ NoTx)
      BY <1>1, <1>2, <1>i, <2>2, <3>2 DEF TxStops
    <3> QED BY <2>2, <3>1, <3>2 DEF TxInv, TxStops
  <2> QED BY <1>1, <2>1, <2>2 DEF TxStops
<1>8. TxBetween'
  <2> SUFFICES ASSUME at \in {"file", "fend"} PROVE TxBetween'
    BY <1>1 DEF TxBetween
  <2>0. awaiting = 0
    BY DEF SessionInv, WaitsOK, Waiting
  <2>1. opts.scope = "PerFile" => Cancelled' \/ NoTx'
    BY <1>2, <1>i, <2>0 DEF TxInv, TxBetween
  <2>2. PICK D, E : D = Upto(file - 1) /\ E = Upto(file)
    OBVIOUS
  <2>3. /\ at = "file" /\ opts.scope = "WholeRun" => InTx(D)'
        /\ at = "fend" /\ opts.scope = "WholeRun" /\ stop # "AbortRun" => InTx(E)'
    BY <1>t, <2>2 DEF TxInv, TxBetween
  <2> QED BY <1>1, <1>2, <2>1, <2>2, <2>3 DEF TxBetween, InTx, Live
<1> QED BY <1>3, <1>4, <1>5, <1>6, <1>7, <1>8 DEF TxInv

(* Every step, under PerFile and WholeRun.                                 *)
LEMMA TxStep ==
    ASSUME ControlInv, SessionInv, TxInv, [Next]_vars, opts.scope \in {"PerFile", "WholeRun"}
    PROVE  TxInv'
<1> USE DEF Goto, Controls
<1>0. file \in 1 .. NFiles + 1 /\ (file > NFiles => file = NFiles + 1)
  BY FilesAre DEF ControlInv, ControlType
<1>1. CASE NotOpened \/ RunBegun \/ CancelledAtFile \/ RunRolledBack
  BY <1>1, DropTx, RunBegunTx DEF NotOpened, RunBegun, CancelledAtFile, RunRolledBack,
     Finish, Answered, Succeeded, Waiting
<1>2. CASE Start
  <2>1. CASE opts.scope = "WholeRun"
    BY <1>2, <2>1, BeginTx DEF Start
  <2>2. CASE opts.scope = "PerFile"
    BY <1>2, <2>2, OpensTx DEF Start
  <2> QED BY <2>1, <2>2
<1>3. CASE StartFile
  <2>1. CASE opts.scope = "WholeRun"
    BY <1>3, <2>1, StartFileTx
  <2>2. CASE opts.scope = "PerFile"
    BY <1>3, <2>2, BeginTx DEF StartFile, Control
  <2> QED BY <2>1, <2>2
<1>4. CASE FileBegun \/ Split
  BY <1>4, GoesOnTx, FileFailsTx DEF FileBegun, Split, Answered, Succeeded, Effective
<1>5. CASE CheckCancel
  BY <1>5, CheckCancelTx
<1>6. CASE EndOfStatements
  <2>1. CASE opts.scope = "WholeRun"
    BY <1>6, <2>1, EndOfStatementsTx
  <2>2. CASE opts.scope = "PerFile"
    BY <1>6, <2>2, CommitTx DEF EndOfStatements, Control
  <2> QED BY <2>1, <2>2
<1>7. CASE RejectReadOnly \/ StatementFailed
  BY <1>7, StatementFailsTx
<1>8. CASE Issue \/ StatementFinished \/ TimeOut
  BY <1>8, IssueTx, StatementFinishedTx, TimeOutTx
<1>9. CASE FileCommitted
  <2>1. CASE Succeeded
    BY <1>9, <2>1, FileEndsTx DEF FileCommitted, Succeeded, Effective
  <2>2. CASE ~Succeeded
    BY <1>9, <2>2, RollbackTx DEF FileCommitted, Control, Answered
  <2> QED BY <2>1, <2>2
<1>10. CASE FileRolledBack
  BY <1>10, FileFailsTx DEF FileRolledBack, Answered
<1>11. CASE StopFile
  BY <1>11, RollbackTx, FileEndsTx DEF StopFile, Control
<1>12. CASE RolledBack
  BY <1>12, FileEndsTx DEF RolledBack, Answered
<1>13. CASE EndFile
  BY <1>13, EndFileTx, DropTx DEF EndFile, Finish, Waiting
<1>14. CASE EndOfFiles
  BY <1>0, <1>14, CommitTx, DropTx DEF EndOfFiles, Control, Finish, Waiting
<1>15. CASE RunCommitted
  BY <1>15, RollbackTx, DropTx DEF RunCommitted, Control, Finish, Answered
<1>16. CASE Cancel
  BY <1>16, SameTx DEF Cancel, control, Cancelled
<1>17. CASE Server /\ UNCHANGED control
  BY <1>17, ServerTx
<1>18. CASE Quiet \/ UNCHANGED vars
  BY <1>18, SameTx DEF Quiet, vars, sessionVars, control, Cancelled
<1> QED BY <1>1, <1>2, <1>3, <1>4, <1>5, <1>6, <1>7, <1>8, <1>9, <1>10, <1>11, <1>12, <1>13,
           <1>14, <1>15, <1>16, <1>17, <1>18 DEF Next, Client

(* TxInv holds at first.                                                   *)
LEMMA TxStart == Init => TxInv
<1> SUFFICES ASSUME Init PROVE TxInv
  OBVIOUS
<1>1. at = "start" /\ \A s \in Sessions : sess[s] = Fresh("unopened")
  BY DEF Init, SessionInit
<1>2. TxPipe(Fresh("unopened")) /\ ~CommitNext(Fresh("unopened"))
  BY DEF TxPipe, Fresh, CommitNext
<1>3. TxPipes /\ CommitOK
  BY <1>1, <1>2 DEF TxPipes, CommitOK
<1> QED BY <1>1, <1>3 DEF TxInv, TxBegins, TxRuns, TxEnds, TxStops, TxBetween

-----------------------------------------------------------------------------
(* What is durable under PerFile and WholeRun *)

(* A file is durable as a whole or not at all; it is not before its        *)
(* COMMIT, and not at all, but for a lost link, if it failed.              *)
PerFileOK ==
    /\ \A f \in Files : durable \cap WritesOf(f) \in {{}, WritesOf(f)}
    /\ \A f \in failed : lost \/ durable \cap WritesOf(f) = {}
    /\ \/ at \in {"fbegin", "split", "check", "issue", "await", "frollback"}
       \/ at = "fcommit" /\ answer # "ok"
       => lost \/ durable \cap WritesOf(file) = {}
    /\ at = "fcommit" /\ answer = "ok" => WritesOf(file) \subseteq durable

(* The run is durable as a whole or not at all, and not before its COMMIT. *)
WholeRunOK ==
    /\ at \notin {"wcommit", "wrollback", "done"} => durable = {}
    /\ durable \in {{}, Upto(NFiles)}
    /\ at = "wcommit" => IF answer = "ok" THEN durable = Upto(NFiles) ELSE lost \/ durable = {}
    /\ at = "wrollback" \/ report = "aborted" => lost \/ durable = {}
    /\ report = "completed" => durable = Upto(NFiles)

(* A file that was left without a failure is durable.                      *)
FilesDone ==
    /\ \A f \in Files : f < file /\ f \notin failed => WritesOf(f) \subseteq durable
    /\ at = "fend" /\ stop = "none" /\ file \notin failed => WritesOf(file) \subseteq durable

(* The server makes durable what the awaited COMMIT is to commit, and says *)
(* so unless the link is lost.                                             *)
LEMMA ServerDurable ==
    ASSUME ControlInv, SessionInv, TxInv, Server, UNCHANGED control
    PROVE  /\ durable \subseteq durable' /\ (lost => lost')
           /\ \/ durable' = durable
              \/ /\ durable' = durable \cup Unit /\ at \in {"fcommit", "wcommit"}
                 /\ answer' = "ok" \/ lost' = TRUE
           /\ at \in {"fcommit", "wcommit"} =>
                \/ UNCHANGED answer /\ (answer # "none" => durable' = durable)
                \/ answer = "none" /\ (answer' = "ok" => durable' = durable \cup Unit)
<1>0. SessionTypeOK /\ AllSound /\ TxPipes /\ CommitOK
  BY DEF SessionInv, TxInv
<1>1. /\ durable \subseteq durable' /\ (lost => lost')
      /\ awaiting = 0 => UNCHANGED answer
  BY <1>0, ServerSound
<1>2. durable' = durable \/ \E s \in Sessions : CommitsOn(s)
  BY <1>0, TxServer
<1>3. CASE awaiting = 0 \/ at \notin {"fcommit", "wcommit"}
  <2>1. durable' = durable
    BY <1>0, <1>2, <1>3, NoCommitLeft DEF CommitsOn
  <2> QED BY <1>1, <1>3, <2>1
<1>4. CASE awaiting # 0 /\ at \in {"fcommit", "wcommit"}
  <2>1. PICK D : D = Unit
    OBVIOUS
  <2>2. Awaits("COMMIT", NoStatement) /\ Staged(D)
    BY <1>4, <2>1 DEF TxInv, TxEnds, HasAnswer
  <2>3. answer = "none" /\ (answer' = "ok" => durable' = durable \cup D)
    BY <1>0, <2>2, CommitAwaited DEF Awaits
  <2>4. \A s \in Sessions : CommitsOn(s) =>
              durable' = durable \cup D /\ (answer' = "ok" \/ lost' = TRUE)
    BY <1>0, <2>2 DEF CommitsOn, CommitOK, Awaits, Staged
  <2> QED BY <1>1, <1>2, <1>4, <2>1, <2>3, <2>4
<1> QED BY <1>3, <1>4

(* The COMMIT of one file changes nothing of another.                      *)
LEMMA UnionWith ==
    ASSUME ControlInv, file \in Files, durable' = durable \cup WritesOf(file)
    PROVE  \A f \in Files : f # file => durable' \cap WritesOf(f) = durable \cap WritesOf(f)
<1> SUFFICES ASSUME NEW f \in Files, f # file
             PROVE  durable' \cap WritesOf(f) = durable \cap WritesOf(f)
  OBVIOUS
<1>1. WritesOf(f) \cap WritesOf(file) = {}
  BY FilesApart
<1> QED BY <1>1

(* The files' writes never change.                                         *)
LEMMA FilesSame == \A f : WritesOf(f)' = WritesOf(f)
BY DEF WritesOf, FirstOf, LastOf

(* PerFileOK and FilesDone hold after a step of the server.                *)
LEMMA ServerPerFile ==
    ASSUME ControlInv, SessionInv, TxInv, Server, UNCHANGED control, opts.scope = "PerFile",
           PerFileOK, FilesDone
    PROVE  PerFileOK' /\ FilesDone'
<1>1. UNCHANGED <<opts, at, file, stop, failed>>
  BY DEF control
<1>w. /\ \A f : WritesOf(f)' = WritesOf(f)
      /\ WritesOf(file)' = WritesOf(file)
  BY <1>1, FilesSame DEF WritesOf, FirstOf, LastOf
<1>2. /\ durable \subseteq durable' /\ (lost => lost')
      /\ \/ durable' = durable
         \/ /\ durable' = durable \cup WritesOf(file) /\ at = "fcommit"
            /\ answer' = "ok" \/ lost' = TRUE
      /\ at = "fcommit" =>
           \/ UNCHANGED answer /\ (answer # "none" => durable' = durable)
           \/ answer = "none" /\ (answer' = "ok" => durable' = durable \cup WritesOf(file))
  <2>1. Unit = WritesOf(file) /\ at # "wcommit"
    BY DEF Unit, ControlInv, PlacesOK
  <2> QED BY <2>1, ServerDurable
<1>3. FilesDone'
  BY <1>1, <1>2, <1>w DEF FilesDone
<1>4. at = "fcommit" => file \in Files /\ file \notin failed
  BY DEF ControlInv, PlacesOK, StopsOK, InFile, Leaving
<1>5. (\A f \in Files : durable \cap WritesOf(f) \in {{}, WritesOf(f)})'
  <2> SUFFICES ASSUME NEW f \in Files PROVE durable' \cap WritesOf(f) \in {{}, WritesOf(f)}
    BY <1>w
  <2>1. durable \cap WritesOf(f) \in {{}, WritesOf(f)}
    BY DEF PerFileOK
  <2> QED BY <1>2, <1>4, <2>1, UnionWith
<1>6. (\A f \in failed : lost \/ durable \cap WritesOf(f) = {})'
  <2> SUFFICES ASSUME NEW f \in failed PROVE lost' \/ durable' \cap WritesOf(f) = {}
    BY <1>1, <1>w
  <2>1. f \in Files /\ (lost \/ durable \cap WritesOf(f) = {})
    BY DEF PerFileOK, ControlInv, ControlType
  <2> QED BY <1>2, <1>4, <2>1, UnionWith
<1>7. ASSUME \/ at \in {"fbegin", "split", "check", "issue", "await", "frollback"}
             \/ at = "fcommit" /\ answer' # "ok"
      PROVE  lost' \/ durable' \cap WritesOf(file) = {}
  <2>1. CASE durable' # durable
    BY <1>2, <1>7, <2>1
  <2>2. CASE durable' = durable
    <3>1. at = "fcommit" => answer # "ok"
      BY <1>2, <1>7, <2>2
    <3> QED BY <1>2, <1>7, <2>2, <3>1 DEF PerFileOK
  <2> QED BY <2>1, <2>2
<1>8. ASSUME at = "fcommit", answer' = "ok" PROVE WritesOf(file) \subseteq durable'
  BY <1>2, <1>8 DEF PerFileOK
<1> QED BY <1>1, <1>w, <1>3, <1>5, <1>6, <1>7, <1>8 DEF PerFileOK

(* WholeRunOK holds after a step of the server.                            *)
LEMMA ServerWholeRun ==
    ASSUME ControlInv, SessionInv, TxInv, Server, UNCHANGED control, opts.scope = "WholeRun",
           WholeRunOK
    PROVE  WholeRunOK'
<1>1. UNCHANGED <<opts, at, file, failed, report>>
  BY DEF control
<1>2. PICK D : D = Upto(NFiles) /\ D = Upto(NFiles)'
  BY <1>1 DEF Upto, WritesOf, FirstOf, LastOf
<1>3. at # "fcommit" /\ (report # "none" => at = "done")
  BY DEF ControlInv, PlacesOK
<1>4. /\ lost => lost'
      /\ \/ durable' = durable
         \/ /\ durable' = durable \cup D /\ at = "wcommit"
            /\ answer' = "ok" \/ lost' = TRUE
      /\ at = "wcommit" =>
           \/ UNCHANGED answer /\ (answer # "none" => durable' = durable)
           \/ answer = "none" /\ (answer' = "ok" => durable' = durable \cup D)
  <2>1. Unit = D
    BY <1>2 DEF Unit
  <2> QED BY <1>3, <2>1, ServerDurable
<1>5. /\ at \notin {"wcommit", "wrollback", "done"} => durable = {}
      /\ durable \in {{}, D}
      /\ at = "wcommit" => IF answer = "ok" THEN durable = D ELSE lost \/ durable = {}
      /\ at = "wrollback" \/ report = "aborted" => lost \/ durable = {}
      /\ report = "completed" => durable = D
  BY <1>2 DEF WholeRunOK
<1>6. /\ at \notin {"wcommit", "wrollback", "done"} => durable' = {}
      /\ durable' \in {{}, D}
      /\ at = "wrollback" \/ report = "aborted" => lost' \/ durable' = {}
      /\ report = "completed" => durable' = D
  BY <1>3, <1>4, <1>5
<1>7. at = "wcommit" => IF answer' = "ok" THEN durable' = D ELSE lost' \/ durable' = {}
  BY <1>4, <1>5
<1> QED BY <1>1, <1>2, <1>6, <1>7 DEF WholeRunOK

-----------------------------------------------------------------------------
(* The run's own steps under PerFile and WholeRun *)

(* execute() never succeeds before the server has answered.                *)
LEMMA ExecuteAnswers ==
    ASSUME NEW c, NEW st, Execute(c, fired, st) PROVE answer' \in {"none", "error", "cancelled"}
BY DEF Execute, SendOn, Refuse

(* The run's options never change.                                         *)
LEMMA OptsSame == ASSUME ControlInv, [Next]_vars PROVE opts' = opts
BY ControlSteps DEF control, Goto, FileFails, StatementFails, Finish, StartFile,
     StatementFinished, CheckCancel, EndFile

(* What the run does at the answer to a COMMIT; nothing it does itself is  *)
(* durable.                                                                *)
LEMMA RunSteps ==
    ASSUME ControlInv, [Next]_vars, ~(Server /\ UNCHANGED control)
    PROVE  /\ UNCHANGED <<durable, lost>>
           /\ at \in {"fcommit", "wcommit"} /\ at' = at => answer' = answer
           /\ at' \in {"fcommit", "wcommit"} /\ at' # at => answer' # "ok"
           /\ at \in {"fcommit", "wcommit"} /\ at' # at =>
                (at' = "fend" \/ report' = "completed") <=> answer \in Effective
           /\ at = "check" /\ at' = "fend" => opts.scope # "PerFile" /\ stmt > LastOf(file)
           /\ at = "file" /\ report' = "completed" => opts.scope # "WholeRun"
<1>1. UNCHANGED <<durable, lost>>
  BY SessionSteps DEF sessionVars, SendsControl, Controls, DropConnection, Issue, TimeOut, Cancel, vars
<1>r. at # "done" => report = "none"
  BY DEF ControlInv, PlacesOK
<1> USE DEF Goto, Finish
<1>2. CASE NotOpened \/ Start \/ RunBegun
  BY <1>1, <1>2 DEF NotOpened, Start, RunBegun
<1>3. CASE CancelledAtFile \/ StartFile
  BY <1>1, <1>3, <1>r DEF CancelledAtFile, StartFile
<1>4. CASE FileBegun \/ Split \/ CheckCancel
  BY <1>1, <1>4 DEF FileBegun, Split, CheckCancel, FileFails
<1>5. CASE EndOfStatements
  BY <1>1, <1>5, ExecuteAnswers DEF EndOfStatements, Control
<1>6. CASE RejectReadOnly \/ Issue \/ StatementFinished \/ StatementFailed \/ TimeOut
  BY <1>1, <1>6 DEF RejectReadOnly, Issue, StatementFinished, StatementFailed, TimeOut, StatementFails
<1>7. CASE FileCommitted \/ FileRolledBack
  BY <1>1, <1>7, <1>r DEF FileCommitted, FileRolledBack, FileFails, Succeeded, Effective
<1>8. CASE StopFile \/ RolledBack \/ EndFile
  BY <1>1, <1>8 DEF StopFile, RolledBack, EndFile
<1>9. CASE EndOfFiles
  BY <1>1, <1>9, <1>r, ExecuteAnswers DEF EndOfFiles, Control
<1>10. CASE RunCommitted \/ RunRolledBack
  BY <1>1, <1>10, <1>r DEF RunCommitted, RunRolledBack, Succeeded, Effective
<1>11. CASE Cancel \/ Quiet \/ UNCHANGED vars
  <2>1. UNCHANGED <<at, answer, report>>
    BY <1>11 DEF Cancel, control, Quiet, vars, sessionVars
  <2> QED BY <1>1, <1>r, <2>1
<1> QED BY <1>2, <1>3, <1>4, <1>5, <1>6, <1>7, <1>8, <1>9, <1>10, <1>11 DEF Next, Client

(* Files stay done, and the one that is left without a failure is.         *)
LEMMA DoneStep ==
    ASSUME ControlInv, [Next]_vars, FilesDone, durable \subseteq durable',
           at' = "fend" /\ at # "fend" /\ stop' = "none" /\ file \notin failed =>
               WritesOf(file) \subseteq durable'
    PROVE  FilesDone'
<1>w. \A f : WritesOf(f)' = WritesOf(f)
  BY FilesSame
<1>f. file \in 1 .. NFiles + 1
  BY DEF ControlInv, ControlType
<1>1. CASE UNCHANGED <<file, stop>> /\ failed \subseteq failed'
  <2>1. WritesOf(file)' = WritesOf(file)
    BY <1>1, <1>w DEF WritesOf, FirstOf, LastOf
  <2>2. at' = "fend" /\ stop' = "none" /\ file' \notin failed' => WritesOf(file) \subseteq durable'
    BY <1>1 DEF FilesDone
  <2> QED BY <1>1, <1>w, <2>1, <2>2 DEF FilesDone
<1>2. CASE at' # "fend" /\ file' = file /\ failed \subseteq failed'
  BY <1>2, <1>w DEF FilesDone
<1>3. CASE EndFile /\ at' # "done"
  <2>1. /\ at = "fend" /\ at' = "file" /\ file' = file + 1 /\ failed' = failed /\ stop # "AbortRun"
    BY <1>3 DEF EndFile, Finish
  <2>2. stop = "none" \/ file \in failed
    BY <2>1 DEF ControlInv, ControlType, StopsOK, Leaving
  <2> SUFFICES ASSUME NEW f \in Files, f < file + 1, f \notin failed PROVE WritesOf(f) \subseteq durable'
    BY <1>w, <2>1 DEF FilesDone
  <2>3. f < file \/ f = file
    BY <1>f DEF Files
  <2> QED BY <2>1, <2>2, <2>3 DEF FilesDone
<1> USE DEF Finish
<1>4. UNCHANGED control \/ (\E place : Goto(place)) \/ FileFails \/ StatementFails \/ StatementFinished
         \/ CheckCancel =>
      file' = file /\ failed \subseteq failed' /\ (at' # "fend" \/ stop' = stop)
  BY DEF control, Goto, FileFails, StatementFails, StatementFinished, CheckCancel
<1>5. StartFile \/ EndFile \/ (\E r, c : Finish(r, c)) =>
      (file' = file /\ failed \subseteq failed' /\ at' # "fend") \/ (EndFile /\ at' # "done")
  BY DEF StartFile, EndFile
<1> QED BY <1>1, <1>2, <1>3, <1>4, <1>5, ControlSteps

(* Where a step of the run may come from.                                  *)
LEMMA CameFrom ==
    ASSUME ControlInv, [Next]_vars
    PROVE  /\ at' \in {"fbegin", "split", "check", "issue", "await", "frollback", "fcommit"} =>
                \/ StartFile
                \/ /\ at \in {"fbegin", "split", "check", "issue", "await", "frollback", "fcommit"}
                   /\ UNCHANGED <<file, stop>>
                   /\ at' = "fcommit" => at \in {"fcommit", "check"}
                   /\ at = "fcommit" => at' \in {"fcommit", "frollback"}
           /\ at' = "fend" =>
                \/ at \in {"fend", "check", "fcommit"} /\ UNCHANGED <<file, stop>>
                \/ at \in {"stop", "rollback"} /\ UNCHANGED <<file, stop>>
           /\ \/ failed' = failed
              \/ /\ failed' = failed \cup {file} /\ file' = file
                 /\ at \in {"fbegin", "split", "frollback", "issue", "await"}
                 /\ at' \in {"stop", "check"}
<1> USE DEF Finish
<1>1. CASE UNCHANGED control
  BY <1>1 DEF control
<1>2. CASE \E place : Moves(place) /\ Goto(place)
  BY <1>2 DEF Moves, Goto
<1>3. CASE at \in {"fbegin", "split", "frollback"} /\ FileFails
  BY <1>3 DEF FileFails
<1>4. CASE at \in {"issue", "await"} /\ StatementFails
  BY <1>4 DEF StatementFails, FailureAction
<1>5. CASE \E r, c : Finish(r, c)
  BY <1>5
<1>6. CASE StartFile
  BY <1>6 DEF StartFile
<1>7. CASE StatementFinished \/ CheckCancel
  BY <1>7 DEF StatementFinished, CheckCancel, Goto
<1>8. CASE EndFile
  BY <1>8 DEF EndFile
<1> QED BY <1>1, <1>2, <1>3, <1>4, <1>5, <1>6, <1>7, <1>8, ControlSteps

(* Of a file that was not begun nothing is durable.                        *)
LEMMA NotBegunYet ==
    ASSUME HoldsOnly(Allowed), NEW f \in Files, f \notin Begun
    PROVE  durable \cap WritesOf(f) = {}
<1>1. durable \subseteq UNION {WritesOf(g) : g \in Begun}
  BY DEF HoldsOnly, Allowed
<1>2. \A g \in Begun : g \in Files /\ g # f
  BY DEF Begun
<1>3. \A g \in Begun : WritesOf(g) \cap WritesOf(f) = {}
  BY <1>2, FilesApart
<1> QED BY <1>1, <1>3

(* PerFileOK and FilesDone hold after a step of the run.                   *)
LEMMA RunPerFile ==
    ASSUME ControlInv, SessionInv, TxInv, [Next]_vars, ~(Server /\ UNCHANGED control),
           opts.scope = "PerFile", PerFileOK, FilesDone
    PROVE  PerFileOK' /\ FilesDone'
<1>1. /\ UNCHANGED <<durable, lost>>
      /\ at = "fcommit" /\ at' = at => answer' = answer
      /\ at' = "fcommit" /\ at # "fcommit" => answer' # "ok"
      /\ at = "fcommit" /\ at' = "fend" => answer \in Effective
      /\ at = "fcommit" /\ at' = "frollback" => answer \notin Effective
      /\ at = "check" => at' # "fend"
  <2>1. at = "fcommit" /\ at' = "frollback" => report' # "completed"
    <3>1. ControlInv'
      BY ControlStep
    <3> QED BY <3>1 DEF ControlInv, PlacesOK
  <2> QED BY <2>1, RunSteps
<1>m. at = "fcommit" /\ answer \in Effective => answer = "ok"
  BY DEF TxInv, TxEnds, Awaits, Effective
<1>w. \A f : WritesOf(f)' = WritesOf(f)
  BY FilesSame
<1>2. /\ \A f \in Files : durable \cap WritesOf(f) \in {{}, WritesOf(f)}
      /\ \A f \in failed : lost \/ durable \cap WritesOf(f) = {}
      /\ \/ at \in {"fbegin", "split", "check", "issue", "await", "frollback"}
         \/ at = "fcommit" /\ answer # "ok"
         => lost \/ durable \cap WritesOf(file) = {}
      /\ at = "fcommit" /\ answer = "ok" => WritesOf(file) \subseteq durable
  BY DEF PerFileOK
<1>s. StartFile => file \in Files /\ durable \cap WritesOf(file) = {} /\ file' = file
  <2> SUFFICES ASSUME StartFile PROVE file \in Files /\ durable \cap WritesOf(file) = {} /\ file' = file
    OBVIOUS
  <2>1. file \in Files /\ at = "file" /\ file' = file
    BY FilesAre DEF StartFile, ControlInv, ControlType
  <2>2. file \notin Begun
    BY <2>1 DEF Begun, ControlInv, ChipsOK, ChipOf, InFile, Files
  <2> QED BY <2>1, <2>2, NotBegunYet DEF SessionInv
<1>3. \/ at' \in {"fbegin", "split", "check", "issue", "await", "frollback"}
      \/ at' = "fcommit" /\ answer' # "ok"
      => file' = file /\ (lost \/ durable \cap WritesOf(file) = {})
  <2> SUFFICES ASSUME \/ at' \in {"fbegin", "split", "check", "issue", "await", "frollback"}
                      \/ at' = "fcommit" /\ answer' # "ok"
               PROVE  file' = file /\ (lost \/ durable \cap WritesOf(file) = {})
    OBVIOUS
  <2>1. \/ StartFile
        \/ /\ at \in {"fbegin", "split", "check", "issue", "await", "frollback", "fcommit"}
           /\ file' = file
           /\ at = "fcommit" => at' \in {"fcommit", "frollback"}
    BY CameFrom
  <2>2. at = "fcommit" => answer # "ok" \/ at' \notin {"fcommit", "frollback"}
    BY <1>1, <1>m DEF Effective
  <2> QED BY <1>2, <1>s, <2>1, <2>2
<1>4. at' = "fcommit" /\ answer' = "ok" => file' = file /\ WritesOf(file) \subseteq durable
  <2>1. at' = "fcommit" /\ answer' = "ok" => at = "fcommit" /\ answer = "ok" /\ file' = file
    BY <1>1, CameFrom DEF StartFile
  <2> QED BY <1>2, <2>1
<1>5. \A f \in failed' : lost \/ durable \cap WritesOf(f) = {}
  BY <1>2, CameFrom
<1>6. PerFileOK'
  <2>1. file' = file => WritesOf(file)' = WritesOf(file)
    BY DEF WritesOf, FirstOf, LastOf
  <2> QED BY <1>1, <1>2, <1>3, <1>4, <1>5, <1>w, <2>1 DEF PerFileOK
<1>7. FilesDone'
  <2>1. at' = "fend" /\ at # "fend" /\ stop' = "none" => at = "fcommit" /\ answer \in Effective
    BY <1>1, CameFrom DEF ControlInv, StopsOK
  <2> QED BY <1>1, <1>2, <1>m, <2>1, DoneStep
<1> QED BY <1>6, <1>7

(* WholeRunOK holds after a step of the run.                               *)
LEMMA RunWholeRun ==
    ASSUME ControlInv, SessionInv, TxInv, [Next]_vars, ~(Server /\ UNCHANGED control),
           opts.scope = "WholeRun", WholeRunOK
    PROVE  WholeRunOK'
<1>p. /\ at \notin {"fbegin", "fcommit", "frollback"}
      /\ (at = "done" <=> report # "none") /\ (at' = "done" <=> report' # "none")
  <2>1. ControlInv'
    BY ControlStep
  <2> QED BY <2>1 DEF ControlInv, PlacesOK
<1>1. /\ UNCHANGED <<durable, lost>>
      /\ at = "wcommit" /\ at' = at => answer' = answer
      /\ at' = "wcommit" /\ at # "wcommit" => answer' # "ok"
      /\ at = "wcommit" /\ at' # "wcommit" => (report' = "completed" <=> answer = "ok")
  <2>1. at = "wcommit" /\ answer \in Effective => answer = "ok"
    BY DEF TxInv, TxEnds, Awaits, Effective
  <2>2. at = "wcommit" => at' # "fend"
    <3>1. CASE UNCHANGED control
      BY <3>1 DEF control
    <3> QED BY <3>1, CameFrom
  <2> QED BY <2>1, <2>2, RunSteps DEF Effective
<1>2. /\ at = "wcommit" => at' \in {"wcommit", "wrollback", "done"}
      /\ at = "wrollback" => at' \in {"wrollback", "done"} /\ report' # "completed"
      /\ at = "done" => at' = "done" /\ report' = report
      /\ at' = "wrollback" => at \in {"wcommit", "wrollback"}
      /\ report' = "completed" /\ report # "completed" => at = "wcommit"
  <2>1. opts' = opts
    BY OptsSame
  <2> USE DEF Finish
  <2>2. CASE UNCHANGED control
    BY <1>p, <2>2 DEF control
  <2>3. CASE \E place : Moves(place) /\ Goto(place)
    BY <1>p, <2>3 DEF Moves, Goto
  <2>4. CASE (at \in {"fbegin", "split", "frollback"} /\ FileFails) \/ (at \in {"issue", "await"} /\ StatementFails)
    BY <1>p, <2>4 DEF FileFails, StatementFails, FailureAction
  <2>7. CASE StartFile \/ StatementFinished \/ CheckCancel
    BY <1>p, <2>7 DEF StartFile, StatementFinished, CheckCancel, Goto
  <2>8. CASE EndFile
    BY <1>p, <2>8 DEF EndFile
  <2>5. CASE at \in {"start", "begin", "file", "wrollback"} /\ Finish("aborted", chip)
    BY <1>p, <2>5
  <2>6. CASE at \in {"file", "wcommit"} /\ Finish("completed", chip)
    BY <1>p, <2>6, RunSteps
  <2> QED BY <2>2, <2>3, <2>4, <2>5, <2>6, <2>7, <2>8, ControlSteps
<1>3. failed' # failed => at \in {"split", "issue", "await"} /\ at' \notin {"wcommit", "wrollback", "done"}
  <2>1. failed' = failed \/ (at \in {"fbegin", "split", "frollback", "issue", "await"} /\ at' \in {"stop", "check"})
    BY CameFrom
  <2> QED BY <1>p, <2>1
<1>4. PICK D : D = Upto(NFiles)
  OBVIOUS
<1>5. failed' = failed => Upto(NFiles)' = D
  BY <1>4 DEF Upto, WritesOf, FirstOf, LastOf
<1>6. /\ at \notin {"wcommit", "wrollback", "done"} => durable = {}
      /\ durable \in {{}, D}
      /\ at = "wcommit" => IF answer = "ok" THEN durable = D ELSE lost \/ durable = {}
      /\ at = "wrollback" \/ report = "aborted" => lost \/ durable = {}
      /\ report = "completed" => durable = D
  BY <1>4 DEF WholeRunOK
<1> QED BY <1>1, <1>2, <1>3, <1>5, <1>6, <1>p DEF WholeRunOK

-----------------------------------------------------------------------------
(* Under None: no transaction anywhere *)

FreePipe(t) ==
    /\ t.tx = "none"
    /\ \A j \in 1 .. Len(t.queue) : t.queue[j].op \in {"READ", "WRITE"}

(* The awaited statement is the last of its pipeline.                      *)
LastIs(q, op, id) == q # <<>> /\ q[Len(q)].op = op /\ q[Len(q)].id = id

FreePipes == \A s \in Sessions : FreePipe(sess[s])
FreeWaits == awaiting \in Sessions => at = "await" /\ LastIs(sess[awaiting].queue, Kind, stmt)

(* Of a file with no failure so far, all is durable that was done.         *)
FreeRuns ==
    /\ at \in {"check", "issue", "await"} /\ file \notin failed => Through(stmt) \subseteq durable
    /\ at = "await" /\ answer \in Effective /\ stmt \notin Reads => stmt \in durable

FreeInv == FreePipes /\ FreeWaits /\ FreeRuns

(* The awaited statement is answered: a write that succeeds is durable.    *)
LEMMA FreeServed ==
    ASSUME SessionTypeOK, AllSound, FreePipes, Server
    PROVE  /\ FreePipes'
           /\ awaiting' \in Sessions => awaiting' = awaiting
           /\ \A op, id : awaiting \in Sessions /\ LastIs(sess[awaiting].queue, op, id) =>
                \/ awaiting' = awaiting /\ answer' = answer /\ LastIs(sess'[awaiting].queue, op, id)
                \/ awaiting' = 0 /\ (op = "WRITE" /\ answer' \in Effective => id \in durable')
<1>1. CASE Marked
  <2>1. ASSUME NEW s \in Sessions
        PROVE  /\ FreePipe(sess'[s])
               /\ \A op, id : LastIs(sess[s].queue, op, id) => LastIs(sess'[s].queue, op, id)
    <3>1. /\ Alike(sess[s], sess'[s]) /\ FreePipe(sess[s])
          /\ sess[s].queue \in Seq(Statements) /\ Len(sess[s].queue) \in Nat
      BY <1>1, QueueType DEF Marked, FreePipes
    <3>2. FreePipe(sess'[s])
      BY <3>1 DEF Alike, FreePipe
    <3>3. sess[s].queue # <<>> => Len(sess[s].queue) \in 1 .. Len(sess[s].queue)
      <4> DEFINE q == sess[s].queue
      <4>1. q \in Seq(Statements)
        BY <3>1
      <4> HIDE DEF q
      <4>2. q # <<>> => Len(q) \in Nat /\ Len(q) # 0
        BY <4>1, EmptySeq
      <4>3. q # <<>> => Len(q) \in 1 .. Len(q)
        BY <4>2
      <4> QED BY <4>3 DEF q
    <3> QED BY <3>1, <3>2, <3>3 DEF Alike, LastIs
  <2> QED BY <1>1, <2>1 DEF Marked, FreePipes
<1>2. CASE \E s \in Sessions : \E a, v, made : Serves(s, a, v, made)
  <2>0. PICK s \in Sessions : \E a, v, made : Serves(s, a, v, made)
    BY <1>2
  <2>1. PICK a, v, made : Serves(s, a, v, made)
    BY <2>0
  <2> DEFINE q == sess[s].queue
             p == v.queue
  <2>2. /\ Len(q) \in Nat \ {0} /\ Len(p) = Len(q) - 1
        /\ \A j \in 1 .. Len(p) : j + 1 \in 1 .. Len(q) /\ p[j] = q[j + 1]
        /\ (p = <<>> <=> Len(q) = 1)
    BY <2>1, QueueAfter
  <2>3. \A r \in Sessions : sess'[r] = IF r = s THEN v ELSE sess[r]
    BY <2>1 DEF Serves
  <2>4. FreePipe(sess[s]) /\ sess[s].tx = "none" /\ \A j \in 1 .. Len(q) : q[j].op \in {"READ", "WRITE"}
    BY DEF FreePipes, FreePipe
  <2>5. PICK u : EffectOf(q[1], sess[s], a, u, made) /\ v.tx = u.tx
    BY <2>1 DEF Serves
  <2>6. FreePipe(v)
    <3>1. q[1].op \in {"READ", "WRITE"}
      <4>1. 1 \in 1 .. Len(q)
        <5> HIDE DEF q, p
        <5> QED BY <2>2
      <4> QED BY <2>4, <4>1
    <3>2. v.tx = "none"
      BY <2>4, <2>5, <3>1 DEF EffectOf
    <3> QED BY <2>2, <2>4, <3>2 DEF FreePipe
  <2>7. FreePipes'
    BY <2>3, <2>6 DEF FreePipes
  <2>8. /\ IF awaiting = s /\ Len(q) = 1 THEN awaiting' = 0 /\ answer' = a
                                         ELSE UNCHANGED <<awaiting, answer>>
        /\ durable' = durable \cup made
    BY <2>1 DEF Serves
  <2>9. ASSUME awaiting = s, NEW op, NEW id, LastIs(q, op, id)
        PROVE  \/ awaiting' = awaiting /\ answer' = answer /\ LastIs(sess'[awaiting].queue, op, id)
               \/ awaiting' = 0 /\ (op = "WRITE" /\ answer' \in Effective => id \in durable')
    <3>1. CASE Len(q) = 1
      <4>1. awaiting' = 0 /\ answer' = a /\ q[1].op = op /\ q[1].id = id
        BY <2>8, <2>9, <3>1 DEF LastIs
      <4>2. op = "WRITE" /\ answer' \in Effective => id \in made
        BY <2>4, <2>5, <4>1 DEF EffectOf
      <4> QED BY <2>8, <4>1, <4>2
    <3>2. CASE Len(q) # 1
      <4>1. awaiting' = awaiting /\ answer' = answer /\ sess'[awaiting].queue = p
        BY <2>3, <2>8, <2>9, <3>2
      <4>2. p # <<>> /\ p[Len(p)] = q[Len(q)]
        <5> HIDE DEF q, p
        <5>1. Len(p) \in 1 .. Len(p) /\ Len(p) + 1 = Len(q)
          BY <2>2, <3>2
        <5> QED BY <2>2, <3>2, <5>1
      <4> QED BY <2>9, <4>1, <4>2 DEF LastIs
    <3> QED BY <3>1, <3>2
  <2>10. CASE awaiting # s
    <3>1. awaiting' = awaiting /\ answer' = answer /\ (awaiting \in Sessions => sess'[awaiting] = sess[awaiting])
      BY <2>3, <2>8, <2>10
    <3> QED BY <2>7, <3>1
  <2>11. CASE awaiting = s
    <3>1. awaiting' \in Sessions => awaiting' = awaiting
      BY <2>8, ZeroIsNoSession
    <3> QED BY <2>7, <2>9, <2>11, <3>1
  <2> QED BY <2>10, <2>11
<1>3. CASE \E s \in Sessions : Falls(s)
  <2>1. PICK s \in Sessions : Falls(s)
    BY <1>3
  <2>2. /\ \A r \in Sessions : sess'[r] = IF r = s THEN Fresh("closed") ELSE sess[r]
        /\ IF awaiting = s THEN awaiting' = 0 /\ answer' = "error" ELSE UNCHANGED <<awaiting, answer>>
    BY <2>1 DEF Falls
  <2>3. FreePipe(Fresh("closed"))
    BY DEF Fresh, FreePipe
  <2> QED BY <2>2, <2>3, ZeroIsNoSession DEF FreePipes, Effective
<1>4. CASE AsideServed
  BY <1>4, ZeroIsNoSession DEF AsideServed, FreePipes
<1> QED BY <1>1, <1>2, <1>3, <1>4, ServerDoes

(* FreeInv holds after a step of the server.                               *)
LEMMA ServerFree ==
    ASSUME ControlInv, SessionInv, FreeInv, Server, UNCHANGED control
    PROVE  FreeInv'
<1>0. SessionTypeOK /\ AllSound /\ FreePipes /\ FreeWaits /\ FreeRuns
  BY DEF SessionInv, FreeInv
<1>1. UNCHANGED <<opts, at, file, stmt, failed>>
  BY DEF control
<1>2. durable \subseteq durable' /\ (awaiting = 0 => UNCHANGED answer)
  BY <1>0, ServerSound
<1>3. Kind' = Kind /\ Through(stmt)' = Through(stmt)
  BY <1>1 DEF Kind, Through, WritesOf, FirstOf, LastOf
<1>4. FreePipes' /\ (awaiting' \in Sessions => awaiting' = awaiting)
  BY <1>0, FreeServed
<1>5. PICK k, n : k = Kind /\ n = stmt
  OBVIOUS
<1>6. awaiting \in Sessions =>
        /\ at = "await"
        /\ \/ awaiting' = awaiting /\ answer' = answer /\ LastIs(sess'[awaiting].queue, k, n)
           \/ awaiting' = 0 /\ (k = "WRITE" /\ answer' \in Effective => n \in durable')
  BY <1>0, <1>5, FreeServed DEF FreeWaits
<1>7. FreeWaits'
  BY <1>1, <1>3, <1>4, <1>5, <1>6, ZeroIsNoSession DEF FreeWaits
<1>8. at = "await" /\ answer' \in Effective /\ stmt \notin Reads => stmt \in durable'
  <2> SUFFICES ASSUME at = "await", answer' \in Effective, stmt \notin Reads PROVE stmt \in durable'
    OBVIOUS
  <2>1. answer \in Effective => stmt \in durable
    BY <1>0 DEF FreeRuns
  <2>2. k = "WRITE"
    BY <1>5 DEF Kind
  <2>3. awaiting # Aside
    BY DEF SessionInv, WaitsOK
  <2>4. awaiting = 0 \/ awaiting \in Sessions
    <3>1. awaiting \in 0 .. MaxSessions + 1 /\ MaxSessions \in Nat
      BY SessionAssumption DEF SessionInv, SessionTypeOK, Aside
    <3> QED BY <2>3, <3>1 DEF Aside, Sessions
  <2> QED BY <1>2, <1>5, <1>6, <2>1, <2>2, <2>4
<1>9. FreeRuns'
  BY <1>0, <1>1, <1>2, <1>3, <1>8 DEF FreeRuns
<1> QED BY <1>4, <1>7, <1>9 DEF FreeInv

(* A statement goes out.                                                   *)
LEMMA SentFree ==
    ASSUME SessionTypeOK, FreePipes, NEW s \in Sessions, NEW st \in Statements, SentOn(s, st),
           st.op \in {"READ", "WRITE"}
    PROVE  FreePipes' /\ awaiting' = s /\ LastIs(sess'[s].queue, st.op, st.id)
<1>1. \A j \in 1 .. Len(sess'[s].queue) : sess'[s].queue[j].op \in {"READ", "WRITE"}
  <2> SUFFICES ASSUME NEW j \in 1 .. Len(sess'[s].queue) PROVE sess'[s].queue[j].op \in {"READ", "WRITE"}
    OBVIOUS
  <2>1. (j \in 1 .. Len(sess[s].queue) /\ sess'[s].queue[j] = sess[s].queue[j]) \/ sess'[s].queue[j] = st
    BY SentQueue
  <2> QED BY <2>1 DEF FreePipes, FreePipe
<1>2. FreePipes'
  BY <1>1 DEF SentOn, FreePipes, FreePipe
<1>3. LastIs(sess'[s].queue, st.op, st.id)
  BY SentQueue DEF LastIs
<1> QED BY <1>2, <1>3 DEF SentOn

(* No transaction is begun under None, and its waits are in order.         *)
LEMMA RunFree ==
    ASSUME ControlInv, SessionInv, FreeInv, [Next]_vars, ~(Server /\ UNCHANGED control),
           opts.scope = "None"
    PROVE  FreePipes' /\ FreeWaits'
<1>0. SessionTypeOK /\ AllSound /\ FreePipes /\ FreeWaits
  BY DEF SessionInv, FreeInv
<1>1. CASE awaiting' = 0 /\ UNCHANGED sess
  BY <1>0, <1>1, ZeroIsNoSession DEF FreePipes, FreeWaits
<1>2. CASE UNCHANGED <<sess, awaiting, at, stmt>>
  BY <1>0, <1>2 DEF FreePipes, FreeWaits, Kind
<1>3. UNCHANGED sessionVars /\ (at \in Waiting => answer # "none") => awaiting' = 0 /\ UNCHANGED sess
  BY <1>0 DEF sessionVars, SessionInv, WaitsOK, AllSound
<1>4. ~SendsControl
  <2>1. opts' = opts /\ ControlInv'
    BY OptsSame, ControlStep
  <2> QED BY <2>1 DEF SendsControl, ControlInv, PlacesOK, Waiting
<1>5. CASE Issue
  <2>1. UNCHANGED stmt /\ at' = "await"
    BY <1>5 DEF Issue, Goto
  <2>2. PICK st : st = Statement(Kind, stmt, stmt)
    OBVIOUS
  <2>3. /\ st \in Statements /\ st.op = Kind /\ st.id = stmt
        /\ \/ \E s \in Sessions : SentOn(s, st)
           \/ QueriesAside
           \/ Refused(conn)
    BY <1>5, <2>2, IssueSent
  <2>4. CASE \E s \in Sessions : SentOn(s, st)
    <3>1. PICK s \in Sessions : SentOn(s, st)
      BY <2>4
    <3>2. PICK k, n : k = Kind /\ n = stmt
      OBVIOUS
    <3>3. FreePipes' /\ awaiting' = s /\ LastIs(sess'[s].queue, k, n)
      BY <1>0, <2>3, <3>1, <3>2, SentFree DEF Kind
    <3>4. Kind' = k /\ stmt' = n
      BY <2>1, <3>2 DEF Kind
    <3> QED BY <2>1, <3>3, <3>4 DEF FreeWaits
  <2>5. CASE QueriesAside
    BY <1>0, <2>5, ZeroIsNoSession DEF QueriesAside, FreePipes, FreeWaits
  <2>6. CASE Refused(conn)
    BY <1>1, <2>6 DEF Refused
  <2> QED BY <2>3, <2>4, <2>5, <2>6
<1>6. DropConnection \/ TimeOut => awaiting' = 0 /\ UNCHANGED sess
  BY DEF DropConnection, TimeOut
<1>7. Cancel \/ UNCHANGED vars => UNCHANGED <<sess, awaiting, at, stmt>>
  BY DEF Cancel, vars, sessionVars, control
<1>8. at = "start" /\ UNCHANGED <<sess, awaiting>> => awaiting' = 0 /\ UNCHANGED sess
  BY DEF SessionInv, WaitsOK, Waiting
<1> QED BY <1>1, <1>2, <1>3, <1>4, <1>5, <1>6, <1>7, <1>8, SessionSteps

(* FreeRuns and FilesDone hold after a step of the run.                    *)
LEMMA RunRuns ==
    ASSUME ControlInv, SessionInv, FreeInv, [Next]_vars, ~(Server /\ UNCHANGED control),
           opts.scope = "None", FilesDone
    PROVE  FreeRuns' /\ FilesDone'
<1>0. /\ at \in {"check", "issue", "await"} /\ file \notin failed => Through(stmt) \subseteq durable
      /\ at = "await" /\ answer \in Effective /\ stmt \notin Reads => stmt \in durable
  BY DEF FreeInv, FreeRuns
<1>1. durable' = durable /\ opts' = opts
  BY RunSteps, OptsSame
<1>t. UNCHANGED <<file, stmt>> => Through(stmt)' = Through(stmt)
  BY DEF Through, WritesOf, FirstOf, LastOf
<1>2. at' \in {"check", "issue", "await"} /\ file' \notin failed' => (Through(stmt) \subseteq durable)'
  <2> SUFFICES ASSUME at' \in {"check", "issue", "await"}, file' \notin failed'
               PROVE  (Through(stmt) \subseteq durable)'
    OBVIOUS
  <2> USE DEF Finish
  <2>1. CASE UNCHANGED control
    BY <1>0, <1>1, <1>t, <2>1 DEF control
  <2>2. CASE \E place : Moves(place) /\ Goto(place)
    <3>1. UNCHANGED <<file, stmt, failed>> /\ at \in {"split", "check", "issue"}
      BY <2>2 DEF Moves, Goto
    <3>2. CASE at = "split"
      <4>1. stmt = FirstOf(file) /\ file \in Files
        BY <3>2 DEF ControlInv, StatementOK, PlacesOK, InFile
      <4> QED BY <1>t, <3>1, <4>1, ThroughIs
    <3> QED BY <1>0, <1>1, <1>t, <3>1, <3>2
  <2>3. CASE StatementFinished
    <3>1. /\ at = "await" /\ answer \in Effective /\ stmt' = stmt + 1 /\ UNCHANGED <<file, failed>>
          /\ file \in Files /\ FirstOf(file) <= stmt /\ stmt <= LastOf(file)
      BY <2>3 DEF StatementFinished, Succeeded, Effective, ControlInv, StatementOK, PlacesOK, InFile
    <3>2. Through(stmt)' = Through(stmt + 1)
      BY <3>1 DEF Through, WritesOf, FirstOf, LastOf
    <3>3. Through(stmt + 1) = Through(stmt) \cup ({stmt} \ Reads)
      BY <3>1, ThroughIs
    <3> QED BY <1>0, <1>1, <3>1, <3>2, <3>3
  <2>4. CASE CheckCancel
    <3>1. at = "check" /\ UNCHANGED <<file, stmt, failed>>
      BY <2>4 DEF CheckCancel, Goto
    <3> QED BY <1>0, <1>1, <1>t, <3>1
  <2>5. ~(FileFails \/ StatementFails \/ StartFile \/ EndFile \/ \E r, c : Finish(r, c))
    BY DEF FileFails, StatementFails, StartFile, EndFile
  <2> QED BY <2>1, <2>2, <2>3, <2>4, <2>5, ControlSteps
<1>3. at' = "await" /\ answer' \in Effective /\ stmt' \notin Reads => stmt' \in durable'
  <2> SUFFICES ASSUME at' = "await", answer' \in Effective, stmt' \notin Reads PROVE stmt' \in durable'
    OBVIOUS
  <2>1. CASE Issue
    <3>1. answer' \in {"none", "error", "cancelled"}
      BY <2>1, ExecuteAnswers DEF Issue, Query, Refuse, SendOn
    <3> QED BY <3>1 DEF Effective
  <2>2. CASE UNCHANGED <<at, answer, stmt>>
    BY <1>0, <1>1, <2>2
  <2>3. Cancel \/ UNCHANGED vars => UNCHANGED <<at, answer, stmt>>
    BY DEF Cancel, control, vars, sessionVars
  <2>4. ~TimeOut
    BY DEF TimeOut, Effective
  <2> QED BY <2>1, <2>2, <2>3, <2>4, SessionSteps DEF SendsControl, Waiting
<1>4. FreeRuns'
  BY <1>2, <1>3 DEF FreeRuns
<1>5. FilesDone'
  <2>1. ASSUME at' = "fend", at # "fend", stop' = "none", file \notin failed
        PROVE  WritesOf(file) \subseteq durable
    <3>1. at = "check"
      BY <2>1, CameFrom DEF ControlInv, StopsOK, PlacesOK
    <3>2. stmt > LastOf(file) /\ file \in Files
      BY <2>1, <3>1, RunSteps DEF ControlInv, PlacesOK, InFile
    <3> QED BY <1>0, <2>1, <3>1, <3>2, ThroughIs
  <2> QED BY <1>1, <2>1, DoneStep
<1> QED BY <1>4, <1>5

(* FreeInv and FilesDone hold after any step.                              *)
LEMMA FreeStep ==
    ASSUME ControlInv, SessionInv, FreeInv, [Next]_vars, opts.scope = "None", FilesDone
    PROVE  FreeInv' /\ FilesDone'
<1>1. CASE Server /\ UNCHANGED control
  <2>1. FreeInv'
    BY <1>1, ServerFree
  <2>2. FilesDone'
    <3>1. durable \subseteq durable'
      BY <1>1, ServerSound DEF SessionInv
    <3>2. at' = at
      BY <1>1 DEF control
    <3> QED BY <3>1, <3>2, DoneStep
  <2> QED BY <2>1, <2>2
<1>2. CASE ~(Server /\ UNCHANGED control)
  BY <1>2, RunFree, RunRuns DEF FreeInv
<1> QED BY <1>1, <1>2

-----------------------------------------------------------------------------
(* The inductive invariant *)

ScriptInv ==
    /\ ControlInv
    /\ SessionInv
    /\ opts.scope \in {"PerFile", "WholeRun"} => TxInv
    /\ opts.scope = "PerFile" => PerFileOK /\ FilesDone
    /\ opts.scope = "WholeRun" => WholeRunOK
    /\ opts.scope = "None" => FreeInv /\ FilesDone

(* ScriptInv is inductive.                                                 *)
LEMMA ScriptStep == ScriptInv /\ [Next]_vars => ScriptInv'
<1> SUFFICES ASSUME ScriptInv, [Next]_vars PROVE ScriptInv'
  OBVIOUS
<1>1. ControlInv /\ SessionInv
  BY DEF ScriptInv
<1>2. ControlInv' /\ SessionInv' /\ opts' = opts
  BY <1>1, ControlStep, SessionStep, OptsSame
<1>3. CASE opts.scope = "PerFile"
  <2>1. TxInv /\ PerFileOK /\ FilesDone
    BY <1>3 DEF ScriptInv
  <2>2. TxInv'
    BY <1>1, <1>3, <2>1, TxStep
  <2>3. PerFileOK' /\ FilesDone'
    BY <1>1, <1>3, <2>1, ServerPerFile, RunPerFile
  <2> QED BY <1>2, <1>3, <2>2, <2>3 DEF ScriptInv
<1>4. CASE opts.scope = "WholeRun"
  <2>1. TxInv /\ WholeRunOK
    BY <1>4 DEF ScriptInv
  <2>2. TxInv'
    BY <1>1, <1>4, <2>1, TxStep
  <2>3. WholeRunOK'
    BY <1>1, <1>4, <2>1, ServerWholeRun, RunWholeRun
  <2> QED BY <1>2, <1>4, <2>2, <2>3 DEF ScriptInv
<1>5. CASE opts.scope = "None"
  <2>1. FreeInv /\ FilesDone
    BY <1>5 DEF ScriptInv
  <2>2. FreeInv' /\ FilesDone'
    BY <1>1, <1>5, <2>1, FreeStep
  <2> QED BY <1>2, <1>5, <2>2 DEF ScriptInv
<1>6. opts.scope \in {"None", "PerFile", "WholeRun"}
  BY <1>1, ScriptAssumption DEF ControlInv, ControlType
<1> QED BY <1>3, <1>4, <1>5, <1>6

(* ScriptInv holds at first.                                               *)
LEMMA ScriptStart == Init => ScriptInv
<1> SUFFICES ASSUME Init PROVE ScriptInv
  OBVIOUS
<1>1. /\ at = "start" /\ file = 1 /\ failed = {} /\ report = "none"
      /\ durable = {} /\ awaiting = 0 /\ sess = [s \in Sessions |-> Fresh("unopened")]
  BY DEF Init, SessionInit
<1>2. ControlInv /\ SessionInv /\ TxInv
  BY ControlInit, SessionStart, TxStart
<1>3. PerFileOK /\ WholeRunOK /\ FilesDone
  <2>1. \A f \in Files : ~(f < file)
    BY <1>1 DEF Files
  <2> QED BY <1>1, <2>1 DEF PerFileOK, WholeRunOK, FilesDone
<1>4. FreeInv
  <2>1. FreePipe(Fresh("unopened"))
    BY DEF FreePipe, Fresh
  <2> QED BY <1>1, <2>1, ZeroIsNoSession DEF FreeInv, FreePipes, FreeWaits, FreeRuns
<1> QED BY <1>2, <1>3, <1>4 DEF ScriptInv

(* All of the run's files but those that failed, as the property has it.   *)
LEMMA UptoAll == Upto(NFiles) = UNION {WritesOf(f) : f \in Files \ failed}
BY DEF Upto, Files

(* ScriptInv implies what every state satisfies.                           *)
LEMMA ScriptSafe == ScriptInv => Inv
<1> SUFFICES ASSUME ScriptInv PROVE Inv
  OBVIOUS
<1>1. TypeOK
  BY DEF ScriptInv, SessionInv, ControlInv, ControlType, TypeOK
<1>2. opts.readOnly => durable = {}
  BY DEF ScriptInv, SessionInv, HoldsOnly, Allowed
<1>3. opts.scope = "PerFile" => \A f \in Files : durable \cap WritesOf(f) \in {{}, WritesOf(f)}
  BY DEF ScriptInv, PerFileOK
<1>4. opts.scope = "WholeRun" => durable \in {{}, UNION {WritesOf(f) : f \in Files \ failed}}
  BY UptoAll DEF ScriptInv, WholeRunOK
<1> QED BY <1>1, <1>2, <1>3, <1>4 DEF Inv, UnitsAreAtomic

(* ScriptInv implies that the report is honest.                            *)
LEMMA ScriptHonest == ScriptInv => ReportIsHonest
<1> SUFFICES ASSUME ScriptInv PROVE ReportIsHonest
  OBVIOUS
<1>0. ControlInv /\ SessionInv /\ opts.scope \in {"None", "PerFile", "WholeRun"}
  BY ScriptAssumption DEF ScriptInv, ControlInv, ControlType
<1>1. report = "completed" => /\ file = NFiles + 1
                              /\ \A f \in Files : chip[f] = Outcome(f) /\ f < file
  BY <1>0, ScriptAssumption DEF ControlInv, PlacesOK, ChipsOK, Files
<1>2. ASSUME report = "completed", NEW f \in Files, chip[f] = "Done" PROVE WritesOf(f) \subseteq durable
  <2>1. f \notin failed /\ f < file
    BY <1>1, <1>2 DEF Outcome
  <2>2. CASE opts.scope = "WholeRun"
    <3>1. durable = UNION {WritesOf(g) : g \in Files \ failed}
      BY <1>2, <2>2, UptoAll DEF ScriptInv, WholeRunOK
    <3> QED BY <2>1, <3>1
  <2>3. CASE opts.scope # "WholeRun"
    BY <1>0, <2>1, <2>3 DEF ScriptInv, FilesDone
  <2> QED BY <2>2, <2>3
<1>3. ASSUME NEW f \in Files, chip[f] = "Skipped" PROVE durable \cap WritesOf(f) = {}
  BY <1>0, <1>3, NotBegunYet DEF SessionInv, Begun
<1>4. ASSUME report = "completed", opts.scope = "PerFile", ~lost, NEW f \in Files, chip[f] = "Failed"
      PROVE  durable \cap WritesOf(f) = {}
  <2>1. f \in failed
    BY <1>1, <1>4 DEF Outcome
  <2> QED BY <1>4, <2>1 DEF ScriptInv, PerFileOK
<1>5. report = "aborted" /\ opts.scope = "WholeRun" /\ ~lost => durable = {}
  BY DEF ScriptInv, WholeRunOK
<1> QED BY <1>2, <1>3, <1>4, <1>5 DEF ReportIsHonest

(* run_script keeps what its TxScope promises, for any number and length   *)
(* of files, whatever fails, times out, is cancelled or loses its link: a  *)
(* file takes effect as a whole or not at all under PerFile, the run less  *)
(* its failed files under WholeRun; a read-only run has no effect.         *)
THEOREM UnitsStayAtomic == Spec => []Inv
<1>1. Init => ScriptInv
  BY ScriptStart
<1>2. ScriptInv /\ [Next]_vars => ScriptInv'
  BY ScriptStep
<1>3. ScriptInv => Inv
  BY ScriptSafe
<1> QED BY <1>1, <1>2, <1>3, PTL DEF Spec

(* What RunFinished and the chips of the progress tab say of the files is  *)
(* what has become of their writes, then and later.                        *)
THEOREM ReportsAreHonest == Spec => []ReportIsHonest
<1>1. Init => ScriptInv
  BY ScriptStart
<1>2. ScriptInv /\ [Next]_vars => ScriptInv'
  BY ScriptStep
<1>3. ScriptInv => ReportIsHonest
  BY ScriptHonest
<1> QED BY <1>1, <1>2, <1>3, PTL DEF Spec

-----------------------------------------------------------------------------
(***************************************************************************)
(* ScriptFiles: the files and bindings in every state (FilesInv), what a   *)
(* landing save leaves (SavedIsOnDisk), and that no unsaved text goes      *)
(* unasked (NothingUnasked).                                               *)
(***************************************************************************)

Running(w) == job[w].stage # "idle"

(* The files the user has deleted in some tab, and nobody has named since. *)
GonePaths == {g[2] : g \in gone}

-----------------------------------------------------------------------------
(* The inductive invariant *)

(* The places of a dialog's operation.                                     *)
StagesOf(kind) ==
    CASE kind = "create" -> {"idle", "probe", "create", "fill", "rename", "ok", "failed"}
      [] kind = "rename" -> {"idle", "probe", "move", "ok", "failed"}
      [] kind = "delete" -> {"idle", "remove", "ok", "failed"}

(* An operation has its path and its text, a save never renames or         *)
(* removes, and the dialogs' operation is that of the dialog on screen.    *)
JobsOK ==
    /\ \A w \in Workers : Running(w) => job[w].path \in Paths /\ job[w].text \in Contents
    /\ \A e \in Editors : job[e].stage \in {"idle", "create", "fill", "rename", "ok", "failed"}
    /\ modal # Nil =>
         /\ (modal.kind = "rename") = (modal.path # modal.to)
         /\ job[Dialog].stage \in StagesOf(modal.kind)
         /\ Running(Dialog) => job[Dialog].path = modal.path
    /\ discard # Nil =>
         /\ discard.kind = "open" => discard.path \in Paths
         /\ discard.kind = "load" => discard.text \in Texts

(* With nothing crossed, a save is the active tab's and runs alone, and    *)
(* the question is about the active tab.                                   *)
Alone ==
    /\ \A e \in Editors : Running(e) => e = active /\ ~Running(Dialog)
    /\ discard # Nil => discard.tab = active

(* Whole text goes in, so a .tmp that is moved over its file is whole.     *)
WholeOK ==
    /\ \A w \in Workers : Running(w) => job[w].text \in Texts
    /\ \A w \in Workers : job[w].stage = "rename" => tmp[job[w].path] = job[w].text
    /\ \A e \in Editors : job[e].stage = "ok" => disk[job[e].path] = job[e].text
    /\ \A e \in Editors : tab[e].buffer \in Texts
    /\ \A p \in Paths : disk[p] # Torn
    /\ picker # Nil => picker.text \in Texts
    /\ read # Nil => read.result # Torn

(* A deleted file stays deleted: nothing that runs, is parked or may still *)
(* pass its check names it.                                                *)
GoneOK ==
    /\ \A g \in gone : tab[g[1]].path # g[2]
    /\ \A p \in GonePaths : disk[p] = Absent
    /\ \A e \in Editors : Running(e) => job[e].path \notin GonePaths
    /\ modal # Nil /\ modal.running =>
         IF modal.kind = "delete"
         THEN job[Dialog].stage = "ok" => disk[modal.path] = Absent
         ELSE modal.to \notin GonePaths
    /\ discard # Nil /\ discard.kind = "open" => discard.path \notin GonePaths
    /\ read # Nil => read.generation <= Here.generation
    /\ read # Nil /\ read.path \in GonePaths => read.generation < Here.generation

(* A read that may still replace dirty text was asked for with the user's  *)
(* agreement to lose it.                                                   *)
AskedOK ==
    read # Nil /\ Here.generation = read.generation /\ Here.path # Nil /\ Here.saved # read.text
      => agreed[active] = read.text

Calm == ~crossed => Alone /\ WholeOK /\ GoneOK /\ AskedOK

IInv == FilesTypeOK /\ JobsOK /\ Calm

-----------------------------------------------------------------------------
(* Types and updates *)

(* What the types say of the parts of the state. *)
LEMMA Facts ==
    ASSUME FilesTypeOK
    PROVE  /\ active \in Editors /\ Here \in Buffers
           /\ Dialog \in Workers /\ Dialog \notin Editors /\ Editors \subseteq Workers
           /\ \A e \in Editors : tab[e] \in Buffers /\ job[e] \in Jobs
           /\ job[Dialog] \in Jobs
           /\ modal # Nil => modal \in Modals
           /\ discard # Nil => discard \in Parked
           /\ picker # Nil => picker \in Pickers
           /\ read # Nil => read \in Readings
           /\ \A e \in Workers \ {Dialog} : e \in Editors
BY ScriptFilesAssumption DEF FilesTypeOK, Here, Workers

(* The constants are told apart. *)
LEMMA Apart ==
    /\ Nil \notin Texts /\ Nil \notin Paths /\ Nil # Absent /\ Nil # Torn
    /\ Absent \notin Texts /\ Torn \notin Texts /\ Absent # Torn
    /\ Nil \notin Contents /\ Texts \subseteq Contents /\ Torn \in Contents /\ Absent \notin Contents
    /\ Empty \in Texts
BY ScriptFilesAssumption DEF Absent, Torn, Contents

LEMMA FreshIs ==
    /\ FreshTab \in Buffers /\ FreshTab.path = Nil /\ FreshTab.saved = Nil /\ FreshTab.saving = FALSE
    /\ FreshTab.buffer = Empty
    /\ Idle \in Jobs /\ Idle.stage = "idle"
BY Apart DEF FreshTab, Buffers, Idle, Jobs, Stages

LEMMA TabIs ==
    ASSUME tab \in [Editors -> Buffers], NEW e \in Editors, NEW x \in Buffers,
           tab' = [tab EXCEPT ![e] = x]
    PROVE  tab' \in [Editors -> Buffers] /\ tab'[e] = x /\ \A d \in Editors \ {e} : tab'[d] = tab[d]
OBVIOUS

LEMMA JobIs ==
    ASSUME job \in [Workers -> Jobs], NEW w \in Workers, NEW x \in Jobs,
           job' = [job EXCEPT ![w] = x]
    PROVE  job' \in [Workers -> Jobs] /\ job'[w] = x /\ \A v \in Workers \ {w} : job'[v] = job[v]
OBVIOUS

LEMMA AdvanceIs ==
    ASSUME job \in [Workers -> Jobs], NEW w \in Workers, NEW stage \in Stages, Advance(w, stage)
    PROVE  /\ job' \in [Workers -> Jobs] /\ job'[w].stage = stage /\ job'[w].path = job[w].path
           /\ job'[w].text = job[w].text /\ \A v \in Workers \ {w} : job'[v] = job[v]
<1>1. [job[w] EXCEPT !.stage = stage] \in Jobs
  BY DEF Jobs
<1> QED
  BY <1>1 DEF Advance, Jobs

(* A binding that moves has a new generation. *)
LEMMA BoundIs ==
    ASSUME NEW t \in Buffers, NEW p \in Paths \cup {Nil}, NEW text \in Contents \cup {Nil}
    PROVE  /\ Bound(t, p, text) \in Buffers
           /\ Bound(t, p, text).path = p /\ Bound(t, p, text).saved = text
           /\ Bound(t, p, text).buffer = t.buffer /\ Bound(t, p, text).saving = t.saving
           /\ Bound(t, p, text).grant = t.grant
           /\ t.generation <= Bound(t, p, text).generation
           /\ t.path # p => t.generation < Bound(t, p, text).generation
<1>1. PICK g : g = IF t.path = p THEN t.generation ELSE t.generation + 1
  OBVIOUS
<1>2. t.generation \in Nat
  BY DEF Buffers
<1>3. g \in Nat /\ t.generation <= g /\ (t.path # p => t.generation < g)
  BY <1>1, <1>2
<1>4. Bound(t, p, text) = [t EXCEPT !.path = p, !.saved = text, !.generation = g]
  BY <1>1 DEF Bound
<1>5. /\ Bound(t, p, text) \in Buffers
      /\ Bound(t, p, text).path = p /\ Bound(t, p, text).saved = text
      /\ Bound(t, p, text).buffer = t.buffer /\ Bound(t, p, text).saving = t.saving
      /\ Bound(t, p, text).grant = t.grant /\ Bound(t, p, text).generation = g
  BY <1>3, <1>4 DEF Buffers
<1> QED
  BY <1>3, <1>5

LEMMA SupersededIs ==
    ASSUME NEW t \in Buffers
    PROVE  /\ Superseded(t) \in Buffers
           /\ Superseded(t).path = t.path /\ Superseded(t).saved = t.saved
           /\ Superseded(t).buffer = t.buffer /\ Superseded(t).saving = t.saving
           /\ t.generation < Superseded(t).generation
<1>1. PICK g : g = t.generation + 1
  OBVIOUS
<1>2. t.generation \in Nat
  BY DEF Buffers
<1>3. g \in Nat /\ t.generation < g
  BY <1>1, <1>2
<1>4. Superseded(t) = [t EXCEPT !.generation = g]
  BY <1>1 DEF Superseded
<1> QED
  BY <1>3, <1>4 DEF Buffers

(* The guarded replacement: nothing, or the new text under its binding. *)
LEMMA ReplacedIs ==
    ASSUME NEW t \in Buffers, NEW text \in Contents, NEW p \in Paths \cup {Nil},
           (t.path = Nil) = (t.saved = Nil)
    PROVE  /\ Replaced(t, text, p) \in Buffers /\ Replaced(t, text, p).saving = t.saving
           /\ t.generation <= Replaced(t, text, p).generation
           /\ (Replaced(t, text, p).path = Nil) = (Replaced(t, text, p).saved = Nil)
           /\ \/ Replaced(t, text, p) = t /\ IsDirty(t) /\ t.grant # t.generation
              \/ /\ Replaced(t, text, p).path = p /\ Replaced(t, text, p).buffer = text
                 /\ p # t.path => t.generation < Replaced(t, text, p).generation
<1>1. PICK u : u = [t EXCEPT !.buffer = text]
  OBVIOUS
<1>2. /\ u \in Buffers /\ u.path = t.path /\ u.buffer = text /\ u.saving = t.saving
      /\ u.generation = t.generation
  BY <1>1 DEF Buffers
<1>3. PICK saved \in Contents \cup {Nil} : saved = IF p = Nil THEN Nil ELSE text
  OBVIOUS
<1>4. PICK new : new = Bound(u, p, saved)
  OBVIOUS
<1>5. /\ new \in Buffers /\ new.path = p /\ new.saved = saved /\ new.buffer = text
      /\ new.saving = t.saving /\ t.generation <= new.generation
      /\ p # t.path => t.generation < new.generation
  BY <1>2, <1>4, BoundIs
<1>6. PICK spent : spent = [new EXCEPT !.grant = Nil]
  OBVIOUS
<1>7. /\ spent \in Buffers /\ spent.path = p /\ spent.saved = saved /\ spent.buffer = text
      /\ spent.saving = t.saving /\ spent.generation = new.generation
  BY <1>5, <1>6 DEF Buffers
<1>8. t.generation <= t.generation
  BY DEF Buffers
<1>9. \/ Replaced(t, text, p) = new
      \/ Replaced(t, text, p) = spent
      \/ Replaced(t, text, p) = t /\ IsDirty(t) /\ t.grant # t.generation
  BY <1>1, <1>3, <1>4, <1>6 DEF Replaced
<1>10. (p = Nil) = (saved = Nil)
  BY <1>3, Apart
<1> QED
  BY <1>5, <1>7, <1>8, <1>9, <1>10

LEMMA InitIInv == FilesInit => IInv
<1> SUFFICES ASSUME FilesInit PROVE IInv
  OBVIOUS
<1> USE Apart, FreshIs, ScriptFilesAssumption
<1>1. FilesTypeOK
  <2>1. FirstText \in Contents /\ FirstText \in Contents \cup {Absent}
    OBVIOUS
  <2>2. /\ disk \in [Paths -> Contents \cup {Absent}] /\ tmp \in [Paths -> Contents \cup {Absent}]
        /\ active \in tabs /\ tabs \subseteq Editors /\ tab \in [Editors -> Buffers]
        /\ crossed \in BOOLEAN /\ gone \subseteq Editors \X Paths
        /\ agreed \in [Editors -> Contents \cup {Nil}] /\ job \in [Workers -> Jobs]
        /\ asks \in 0 .. MaxAsks
    <3>1. disk \in [Paths -> Contents \cup {Absent}]
      BY <2>1 DEF FilesInit
    <3>2. tmp \in [Paths -> Contents \cup {Absent}]
      BY DEF FilesInit
    <3>3. active \in tabs /\ tabs \subseteq Editors
      BY DEF FilesInit
    <3>4. tab \in [Editors -> Buffers] /\ job \in [Workers -> Jobs]
      BY DEF FilesInit
    <3>5. crossed \in BOOLEAN /\ gone \subseteq Editors \X Paths
      BY DEF FilesInit
    <3>6. agreed \in [Editors -> Contents \cup {Nil}]
      BY DEF FilesInit
    <3>7. asks \in 0 .. MaxAsks
      BY DEF FilesInit
    <3> QED
      BY <3>1, <3>2, <3>3, <3>4, <3>5, <3>6, <3>7
  <2>3. \A w \in Workers : job[w].stage = "idle"
    BY DEF FilesInit
  <2>4. \A e \in Editors : tab[e] = FreshTab
    BY DEF FilesInit
  <2>5. Dialog \in Workers /\ Editors \subseteq Workers
    BY DEF Workers
  <2>6. modal = Nil /\ discard = Nil /\ picker = Nil /\ read = Nil
    BY DEF FilesInit
  <2> QED
    BY <2>2, <2>3, <2>4, <2>5, <2>6 DEF FilesTypeOK
<1>2. JobsOK
  BY DEF FilesInit, JobsOK, Running, Workers
<1>3. Alone
  BY DEF FilesInit, Alone, Running, Workers
<1>4. WholeOK
  BY DEF FilesInit, WholeOK, Running, Workers
<1>5. GoneOK
  BY DEF FilesInit, GoneOK, Running, Workers, GonePaths
<1>6. AskedOK
  BY DEF FilesInit, AskedOK
<1> QED
  BY <1>1, <1>2, <1>3, <1>4, <1>5, <1>6 DEF IInv, Calm

-----------------------------------------------------------------------------
(* One lemma per operation.  Each gives the types first, then what the     *)
(* ordered life - nothing crossed - keeps.                                 *)

LEMMA CalmIs ==
    ASSUME IInv
    PROVE  FilesTypeOK /\ JobsOK /\ (~crossed => Alone /\ WholeOK /\ GoneOK /\ AskedOK)
BY DEF IInv, Calm

LEMMA GoneIs ==
    ASSUME FilesTypeOK
    PROVE  /\ \A g \in gone : g[1] \in Editors /\ g[2] \in Paths /\ g[2] \in GonePaths
           /\ GonePaths \subseteq Paths
BY DEF FilesTypeOK, GonePaths

(* The active tab becomes x. *)
LEMMA HereIs ==
    ASSUME FilesTypeOK, NEW x \in Buffers, (x.path = Nil) = (x.saved = Nil),
           tab' = [tab EXCEPT ![active] = x], active' = active
    PROVE  /\ tab' \in [Editors -> Buffers] /\ Here' = x /\ tab'[active] = x
           /\ \A e \in Editors \ {active} : tab'[e] = tab[e]
           /\ \A e \in Editors : (tab'[e].path = Nil) = (tab'[e].saved = Nil)
<1>1. active \in Editors /\ tab \in [Editors -> Buffers]
  BY Facts DEF FilesTypeOK
<1>2. tab' \in [Editors -> Buffers] /\ tab'[active] = x /\ \A e \in Editors \ {active} : tab'[e] = tab[e]
  BY <1>1, TabIs
<1> QED
  BY <1>1, <1>2 DEF FilesTypeOK, Here

LEMMA TypeKeeps ==
    ASSUME IInv, NEW text \in Texts, Type(text)
    PROVE  IInv'
<1>0. FilesTypeOK /\ JobsOK /\ (~crossed => Alone /\ WholeOK /\ GoneOK /\ AskedOK)
  BY CalmIs
<1>1. Here \in Buffers /\ active \in Editors
  BY <1>0, Facts
<1>2. PICK x : x = [Here EXCEPT !.buffer = text]
  OBVIOUS
<1>3. /\ x \in Buffers /\ x.buffer = text /\ x.path = Here.path /\ x.saved = Here.saved
      /\ x.generation = Here.generation /\ x.saving = Here.saving
  BY <1>1, <1>2, Apart DEF Buffers
<1>4. tab' = [tab EXCEPT ![active] = x] /\ active' = active
  BY <1>2 DEF Type, Here
<1>5. (x.path = Nil) = (x.saved = Nil)
  BY <1>0, <1>1, <1>3 DEF FilesTypeOK, Here
<1>6. /\ tab' \in [Editors -> Buffers] /\ Here' = x /\ tab'[active] = x
      /\ \A e \in Editors \ {active} : tab'[e] = tab[e]
      /\ \A e \in Editors : (tab'[e].path = Nil) = (tab'[e].saved = Nil)
  BY <1>0, <1>3, <1>4, <1>5, HereIs
<1>7. /\ \A e \in Editors : /\ tab'[e].path = tab[e].path /\ tab'[e].saved = tab[e].saved
                            /\ tab'[e].generation = tab[e].generation /\ tab'[e].saving = tab[e].saving
      /\ \A e \in Editors : tab'[e].buffer \in {text, tab[e].buffer}
  BY <1>1, <1>3, <1>6 DEF Here
<1>8. UNCHANGED <<disk, tmp, tabs, active, modal, discard, picker, job, read, asks, crossed, gone, agreed>>
  BY DEF Type, files, dialogs, ghosts
<1>9. FilesTypeOK'
  BY <1>0, <1>6, <1>7, <1>8, Facts DEF FilesTypeOK
<1>10. JobsOK'
  BY <1>0, <1>8 DEF JobsOK, Running
<1>11. ~crossed => Alone' /\ WholeOK' /\ GoneOK' /\ AskedOK'
  <2> SUFFICES ASSUME ~crossed PROVE Alone' /\ WholeOK' /\ GoneOK' /\ AskedOK'
    OBVIOUS
  <2>1. Alone'
    BY <1>0, <1>8 DEF Alone, Running
  <2>2. WholeOK'
    BY <1>0, <1>7, <1>8 DEF WholeOK, Running
  <2>3. GoneOK'
    BY <1>0, <1>1, <1>3, <1>6, <1>7, <1>8, GoneIs DEF GoneOK, Running, GonePaths
  <2>4. AskedOK'
    BY <1>0, <1>3, <1>6, <1>8 DEF AskedOK
  <2> QED
    BY <2>1, <2>2, <2>3, <2>4
<1> QED
  BY <1>8, <1>9, <1>10, <1>11 DEF IInv, Calm

LEMMA ReadKeeps ==
    ASSUME IInv, ReadFile
    PROVE  IInv'
<1>0. FilesTypeOK /\ JobsOK /\ (~crossed => Alone /\ WholeOK /\ GoneOK /\ AskedOK)
  BY CalmIs
<1>1. read \in Readings /\ read # Nil /\ Here \in Buffers
  BY <1>0, Facts DEF ReadFile
<1>2. disk[read.path] \in Contents \cup {Absent}
  BY <1>0, <1>1 DEF FilesTypeOK, Readings
<1>3. /\ read' \in Readings /\ read'.path = read.path /\ read'.generation = read.generation
      /\ read'.text = read.text /\ read'.result = disk[read.path]
  BY <1>1, <1>2 DEF ReadFile, Readings
<1>4. UNCHANGED <<disk, tmp, tabs, active, tab, modal, discard, picker, job, asks, crossed, gone, agreed>>
  BY DEF ReadFile, files, tabVars, dialogs, ghosts
<1>5. FilesTypeOK'
  BY <1>0, <1>3, <1>4 DEF FilesTypeOK
<1>6. JobsOK'
  BY <1>0, <1>4 DEF JobsOK, Running
<1>7. ~crossed => Alone' /\ WholeOK' /\ GoneOK' /\ AskedOK'
  <2> SUFFICES ASSUME ~crossed PROVE Alone' /\ WholeOK' /\ GoneOK' /\ AskedOK'
    OBVIOUS
  <2>1. Alone'
    BY <1>0, <1>4 DEF Alone, Running
  <2>2. WholeOK'
    BY <1>0, <1>1, <1>3, <1>4 DEF WholeOK, Running, Readings
  <2>3. GoneOK'
    BY <1>0, <1>1, <1>3, <1>4 DEF GoneOK, Running, GonePaths, Here
  <2>4. AskedOK'
    BY <1>0, <1>1, <1>3, <1>4 DEF AskedOK, Here
  <2> QED
    BY <2>1, <2>2, <2>3, <2>4
<1> QED
  BY <1>4, <1>5, <1>6, <1>7 DEF IInv, Calm

LEMMA SaveAsKeeps ==
    ASSUME IInv, SaveAs
    PROVE  IInv'
<1>0. FilesTypeOK /\ JobsOK /\ (~crossed => Alone /\ WholeOK /\ GoneOK /\ AskedOK)
  BY CalmIs
<1>1. Here \in Buffers /\ active \in Editors
  BY <1>0, Facts
<1>2. picker' \in Pickers /\ picker'.text = Here.buffer
  BY <1>1 DEF SaveAs, Pickers, Buffers
<1>3. UNCHANGED <<disk, tmp, tabs, active, tab, modal, discard, job, read, crossed, gone, agreed>>
  BY DEF SaveAs, files, tabVars, ghosts
<1>4. asks' \in 0 .. MaxAsks
  <2>1. asks \in 0 .. MaxAsks /\ asks < MaxAsks /\ asks' = asks + 1 /\ MaxAsks \in Nat
    BY <1>0, ScriptFilesAssumption DEF FilesTypeOK, SaveAs, Ask
  <2> QED
    BY <2>1
<1>5. FilesTypeOK'
  BY <1>0, <1>2, <1>3, <1>4 DEF FilesTypeOK
<1>6. JobsOK'
  BY <1>0, <1>3 DEF JobsOK, Running
<1>7. ~crossed => Alone' /\ WholeOK' /\ GoneOK' /\ AskedOK'
  <2> SUFFICES ASSUME ~crossed PROVE Alone' /\ WholeOK' /\ GoneOK' /\ AskedOK'
    OBVIOUS
  <2>1. Alone'
    BY <1>0, <1>3 DEF Alone, Running
  <2>2. WholeOK'
    BY <1>0, <1>1, <1>2, <1>3 DEF WholeOK, Running, Here
  <2>3. GoneOK'
    BY <1>0, <1>3 DEF GoneOK, Running, GonePaths, Here
  <2>4. AskedOK'
    BY <1>0, <1>3 DEF AskedOK, Here
  <2> QED
    BY <2>1, <2>2, <2>3, <2>4
<1> QED
  BY <1>3, <1>5, <1>6, <1>7 DEF IInv, Calm

(* One more command. *)
LEMMA AskIs ==
    ASSUME FilesTypeOK, Ask
    PROVE  asks' \in 0 .. MaxAsks
<1>1. asks \in 0 .. MaxAsks /\ asks < MaxAsks /\ asks' = asks + 1 /\ MaxAsks \in Nat
  BY ScriptFilesAssumption DEF FilesTypeOK, Ask
<1> QED
  BY <1>1

LEMMA AnswerNoKeeps ==
    ASSUME IInv, AnswerNo
    PROVE  IInv'
<1>0. FilesTypeOK /\ JobsOK /\ (~crossed => Alone /\ WholeOK /\ GoneOK /\ AskedOK)
  BY CalmIs
<1>1. /\ UNCHANGED <<disk, tmp, tabs, active, tab, modal, picker, job, read, asks, crossed, gone, agreed>>
      /\ discard' = Nil
  BY DEF AnswerNo, files, tabVars, ghosts
<1>2. FilesTypeOK'
  BY <1>0, <1>1 DEF FilesTypeOK
<1>3. JobsOK'
  BY <1>0, <1>1 DEF JobsOK, Running
<1>4. ~crossed => Alone' /\ WholeOK' /\ GoneOK' /\ AskedOK'
  BY <1>0, <1>1 DEF Alone, WholeOK, GoneOK, AskedOK, Running, GonePaths, Here
<1> QED
  BY <1>1, <1>2, <1>3, <1>4 DEF IInv, Calm

LEMMA OpenModalKeeps ==
    ASSUME IInv, OpenModal
    PROVE  IInv'
<1>0. FilesTypeOK /\ JobsOK /\ (~crossed => Alone /\ WholeOK /\ GoneOK /\ AskedOK)
  BY CalmIs
<1>1. PICK kind \in {"create", "rename", "delete"}, p \in Paths, q \in Paths :
        /\ IF kind = "rename" THEN p # q ELSE p = q
        /\ modal' = [kind |-> kind, path |-> p, to |-> q, running |-> FALSE]
  BY DEF OpenModal
<1>2. /\ modal' \in Modals /\ modal'.running = FALSE
      /\ (modal'.kind = "rename") = (modal'.path # modal'.to)
      /\ modal'.kind \in {"create", "rename", "delete"}
  BY <1>1 DEF Modals
<1>3. UNCHANGED <<disk, tmp, tabs, active, tab, discard, picker, job, read, crossed, gone, agreed>>
  BY DEF OpenModal, files, tabVars, ghosts
<1>4. job[Dialog].stage = "idle" /\ discard = Nil
  BY <1>0 DEF FilesTypeOK, OpenModal, Uncovered
<1>5. asks' \in 0 .. MaxAsks
  BY <1>0, AskIs DEF OpenModal
<1>6. FilesTypeOK'
  BY <1>0, <1>2, <1>3, <1>4, <1>5 DEF FilesTypeOK
<1>7. JobsOK'
  BY <1>0, <1>2, <1>3, <1>4 DEF JobsOK, Running, StagesOf
<1>8. ~crossed => Alone' /\ WholeOK' /\ GoneOK' /\ AskedOK'
  BY <1>0, <1>2, <1>3, <1>4 DEF Alone, WholeOK, GoneOK, AskedOK, Running, GonePaths, Here
<1> QED
  BY <1>3, <1>6, <1>7, <1>8 DEF IInv, Calm

LEMMA CancelModalKeeps ==
    ASSUME IInv, CancelModal
    PROVE  IInv'
<1>0. FilesTypeOK /\ JobsOK /\ (~crossed => Alone /\ WholeOK /\ GoneOK /\ AskedOK)
  BY CalmIs
<1>1. /\ UNCHANGED <<disk, tmp, tabs, active, tab, discard, picker, job, read, asks, crossed, gone, agreed>>
      /\ modal' = Nil
  BY DEF CancelModal, files, tabVars, ghosts
<1>2. job[Dialog].stage = "idle" /\ discard = Nil
  BY <1>0 DEF FilesTypeOK, CancelModal
<1>3. FilesTypeOK'
  BY <1>0, <1>1, <1>2 DEF FilesTypeOK
<1>4. JobsOK'
  BY <1>0, <1>1 DEF JobsOK, Running
<1>5. ~crossed => Alone' /\ WholeOK' /\ GoneOK' /\ AskedOK'
  BY <1>0, <1>1, <1>2 DEF Alone, WholeOK, GoneOK, AskedOK, Running, GonePaths, Here
<1> QED
  BY <1>1, <1>3, <1>4, <1>5 DEF IInv, Calm

-----------------------------------------------------------------------------
(* Another tab comes to the front, or the active one is closed: with        *)
(* nothing pending, nothing was said about the tab that was active.        *)
LEMMA ViewKeeps ==
    ASSUME IInv, tabs' \subseteq Editors, active' \in tabs',
           \A e \in tabs' : e \in tabs \/ Unused(e),
           UNCHANGED <<disk, tmp, tab, modal, picker, job, read, gone>>,
           asks' \in 0 .. MaxAsks, agreed' \in [Editors -> Contents \cup {Nil}],
           discard' \in {Nil, discard}, crossed' \in BOOLEAN,
           ~crossed' => ~crossed /\ ~Pending /\ discard' = Nil
    PROVE  IInv'
<1>0. FilesTypeOK /\ JobsOK /\ (~crossed => Alone /\ WholeOK /\ GoneOK /\ AskedOK)
  BY CalmIs
<1>1. \A e \in tabs' : tab'[e].saving = (job'[e].stage # "idle")
  BY <1>0, FreshIs DEF FilesTypeOK, Unused
<1>2. FilesTypeOK'
  BY <1>0, <1>1 DEF FilesTypeOK
<1>3. JobsOK'
  BY <1>0 DEF JobsOK, Running
<1>4. ~crossed' => Alone' /\ WholeOK' /\ GoneOK' /\ AskedOK'
  <2> SUFFICES ASSUME ~crossed' PROVE Alone' /\ WholeOK' /\ GoneOK' /\ AskedOK'
    OBVIOUS
  <2>1. ~crossed /\ discard' = Nil /\ read = Nil /\ \A w \in Workers : ~Running(w)
    BY DEF Pending, Running
  <2>2. Editors \subseteq Workers /\ Dialog \in Workers
    BY <1>0, Facts
  <2>3. Alone'
    BY <2>1, <2>2 DEF Alone, Running
  <2>4. WholeOK'
    BY <1>0, <2>1 DEF WholeOK, Running
  <2>5. modal # Nil => ~modal.running
    BY <1>0, <2>1, <2>2 DEF FilesTypeOK, Running
  <2>6. GoneOK'
    BY <1>0, <2>1, <2>2, <2>5 DEF GoneOK, Running, GonePaths
  <2>7. AskedOK'
    BY <2>1 DEF AskedOK
  <2> QED
    BY <2>3, <2>4, <2>6, <2>7
<1> QED
  BY <1>2, <1>3, <1>4 DEF IInv, Calm

(* What Crosses(pending) leaves. *)
LEMMA CrossIs ==
    ASSUME NEW pending \in BOOLEAN, crossed \in BOOLEAN, Crosses(pending)
    PROVE  crossed' \in BOOLEAN /\ (~crossed' => ~crossed /\ ~pending)
BY DEF Crosses

LEMMA NewTabKeeps ==
    ASSUME IInv, NewTab
    PROVE  IInv'
<1>0. FilesTypeOK
  BY CalmIs
<1>1. PICK e \in Editors : Unused(e) /\ tabs' = tabs \cup {e} /\ active' = e
  BY DEF NewTab
<1>2. tabs' \subseteq Editors /\ active' \in tabs' /\ \A d \in tabs' : d \in tabs \/ Unused(d)
  BY <1>0, <1>1 DEF FilesTypeOK
<1>3. UNCHANGED <<disk, tmp, tab, modal, picker, job, read, gone, asks, agreed, discard>>
  BY DEF NewTab, files, dialogs
<1>4. Busy \in BOOLEAN /\ crossed \in BOOLEAN
  BY <1>0 DEF Busy, FilesTypeOK
<1>5. crossed' \in BOOLEAN /\ (~crossed' => ~crossed /\ ~Busy)
  BY <1>4, CrossIs DEF NewTab
<1>6. ~crossed' => ~crossed /\ ~Pending /\ discard' = Nil
  BY <1>3, <1>5 DEF Busy
<1>7. asks' \in 0 .. MaxAsks /\ agreed' \in [Editors -> Contents \cup {Nil}] /\ discard' \in {Nil, discard}
  BY <1>0, <1>3 DEF FilesTypeOK
<1> QED
  BY <1>2, <1>3, <1>5, <1>6, <1>7, ViewKeeps

LEMMA SwitchTabKeeps ==
    ASSUME IInv, SwitchTab
    PROVE  IInv'
<1>0. FilesTypeOK
  BY CalmIs
<1>1. PICK e \in tabs : active' = e
  BY DEF SwitchTab
<1>2. tabs' \subseteq Editors /\ active' \in tabs' /\ \A d \in tabs' : d \in tabs \/ Unused(d)
  BY <1>0, <1>1 DEF FilesTypeOK, SwitchTab
<1>3. UNCHANGED <<disk, tmp, tab, modal, picker, job, read, gone, asks, agreed, discard>>
  BY DEF SwitchTab, files, dialogs
<1>4. Busy \in BOOLEAN /\ crossed \in BOOLEAN
  BY <1>0 DEF Busy, FilesTypeOK
<1>5. crossed' \in BOOLEAN /\ (~crossed' => ~crossed /\ ~Busy)
  BY <1>4, CrossIs DEF SwitchTab
<1>6. ~crossed' => ~crossed /\ ~Pending /\ discard' = Nil
  BY <1>3, <1>5 DEF Busy
<1>7. asks' \in 0 .. MaxAsks /\ agreed' \in [Editors -> Contents \cup {Nil}] /\ discard' \in {Nil, discard}
  BY <1>0, <1>3 DEF FilesTypeOK
<1> QED
  BY <1>2, <1>3, <1>5, <1>6, <1>7, ViewKeeps

LEMMA CloseIs ==
    ASSUME FilesTypeOK, NEW e \in tabs, NEW pending \in BOOLEAN, CloseClean(e, pending)
    PROVE  /\ tabs' \subseteq Editors /\ active' \in tabs'
           /\ \A d \in tabs' : d \in tabs \/ Unused(d)
           /\ tab' = tab /\ crossed' \in BOOLEAN /\ (~crossed' => ~crossed /\ ~pending)
<1>1. crossed \in BOOLEAN /\ tabs \subseteq Editors /\ active \in tabs
  BY DEF FilesTypeOK
<1>2. crossed' \in BOOLEAN /\ (~crossed' => ~crossed /\ ~pending)
  BY <1>1, CrossIs DEF CloseClean
<1>3. tab' = tab /\ active' \in IF e = active THEN tabs' ELSE {active}
  BY DEF CloseClean
<1>4. CASE tabs # {e} /\ tabs' = tabs \ {e}
  BY <1>1, <1>2, <1>3, <1>4
<1>5. CASE tabs = {e} /\ \E fresh \in Editors : Unused(fresh) /\ tabs' = {fresh}
  BY <1>1, <1>2, <1>3, <1>5
<1> QED
  BY <1>4, <1>5 DEF CloseClean

LEMMA CloseTabKeeps ==
    ASSUME IInv, CloseTab
    PROVE  IInv'
<1>0. FilesTypeOK /\ JobsOK /\ (~crossed => Alone /\ WholeOK /\ GoneOK /\ AskedOK)
  BY CalmIs
<1>1. asks' \in 0 .. MaxAsks /\ modal = Nil
  BY <1>0, AskIs DEF CloseTab
<1>2. UNCHANGED <<disk, tmp, modal, picker, job, read, gone, agreed>>
  BY DEF CloseTab, files
<1>3. CASE Dirty(active)
  <2>1. discard' = Action("close", Nil, Nil) /\ UNCHANGED <<tabs, active, tab, crossed>>
    BY <1>3 DEF CloseTab, tabVars
  <2>2. /\ discard' \in Parked /\ discard'.kind = "close" /\ discard'.tab = active
    BY <1>0, <2>1, Facts DEF Action, Parked
  <2>3. FilesTypeOK'
    BY <1>0, <1>1, <1>2, <2>1, <2>2 DEF FilesTypeOK
  <2>4. JobsOK'
    BY <1>0, <1>2, <2>1, <2>2 DEF JobsOK, Running
  <2>5. ~crossed => Alone' /\ WholeOK' /\ GoneOK' /\ AskedOK'
    BY <1>0, <1>2, <2>1, <2>2 DEF Alone, WholeOK, GoneOK, AskedOK, Running, GonePaths, Here
  <2> QED
    BY <2>1, <2>3, <2>4, <2>5 DEF IInv, Calm
<1>4. CASE ~Dirty(active)
  <2>1. CloseClean(active, Busy) /\ discard' = discard
    BY <1>4 DEF CloseTab
  <2>2. active \in tabs /\ Busy \in BOOLEAN
    BY <1>0 DEF FilesTypeOK, Busy
  <2>3. /\ tabs' \subseteq Editors /\ active' \in tabs'
        /\ \A d \in tabs' : d \in tabs \/ Unused(d)
        /\ tab' = tab /\ crossed' \in BOOLEAN /\ (~crossed' => ~crossed /\ ~Busy)
    BY <1>0, <2>1, <2>2, CloseIs
  <2>4. ~crossed' => ~crossed /\ ~Pending /\ discard' = Nil
    BY <2>1, <2>3 DEF Busy
  <2>5. agreed' \in [Editors -> Contents \cup {Nil}] /\ discard' \in {Nil, discard}
    BY <1>0, <1>2, <2>1 DEF FilesTypeOK
  <2> QED
    BY <1>1, <1>2, <2>3, <2>4, <2>5, ViewKeeps
<1> QED
  BY <1>3, <1>4

-----------------------------------------------------------------------------
(* The action behind the question, performed on the active tab. *)
LEMMA PerformKeeps ==
    ASSUME IInv, NEW a \in Parked, NEW t \in Buffers, Perform(a, t),
           t.path = Here.path, t.saved = Here.saved, t.buffer = Here.buffer,
           t.generation = Here.generation, t.saving = Here.saving,
           a.kind = "open" => a.path \in Paths,
           a.kind = "load" => a.text \in Texts,
           ~crossed /\ a.kind = "open" => a.path \notin GonePaths,
           ~crossed /\ IsDirty(Here) => agreed'[active] = Here.buffer /\ t.grant = t.generation,
           UNCHANGED <<disk, tmp, tabs, active, modal, picker, job, crossed, gone>>,
           discard' = Nil, asks' \in 0 .. MaxAsks, agreed' \in [Editors -> Contents \cup {Nil}]
    PROVE  IInv'
<1>0. FilesTypeOK /\ JobsOK /\ (~crossed => Alone /\ WholeOK /\ GoneOK /\ AskedOK)
  BY CalmIs
<1>1. /\ Here \in Buffers /\ active \in Editors /\ Here = tab[active]
      /\ Here.generation \in Nat /\ Here.generation <= Here.generation
      /\ (t.path = Nil) = (t.saved = Nil)
  <2>1. Here \in Buffers /\ active \in Editors /\ Here = tab[active]
    BY <1>0, Facts DEF Here
  <2>2. Here.generation \in Nat
    BY <2>1 DEF Buffers
  <2>3. (t.path = Nil) = (t.saved = Nil)
    BY <1>0, <2>1 DEF FilesTypeOK
  <2> QED
    BY <2>1, <2>2, <2>3
<1> DEFINE Reading == /\ read' \in Readings /\ read'.path = a.path /\ read'.text = Here.buffer
                      /\ read'.generation = Here.generation /\ read'.result = Nil
           Moving(x) == /\ tab' = [tab EXCEPT ![active] = x]
                        /\ (x.path = Nil) = (x.saved = Nil) /\ x.saving = Here.saving
                        /\ Here.generation <= x.generation
                        /\ x.buffer \in Texts \cup {Here.buffer}
<1>2. \E x \in Buffers :
        /\ Moving(x)
        /\ \/ a.kind = "open" /\ Reading /\ x = t
           \/ read' = read /\ (~crossed => x.path = Nil)
  <2>1. CASE a.kind = "open"
    <3>1. tab' = [tab EXCEPT ![active] = t]
      BY <2>1 DEF Perform
    <3>2. Reading
      BY <1>1, <2>1 DEF Perform, Readings, Buffers
    <3>3. Moving(t)
      BY <1>1, <3>1
    <3> QED
      BY <2>1, <3>2, <3>3
  <2>2. CASE a.kind = "unbind"
    <3>1. PICK x : x = Bound(t, Nil, Nil)
      OBVIOUS
    <3>2. tab' = [tab EXCEPT ![active] = x] /\ read' = read
      BY <2>2, <3>1 DEF Perform
    <3>3. /\ x \in Buffers /\ x.path = Nil /\ x.saved = Nil /\ x.buffer = t.buffer
          /\ x.saving = t.saving /\ t.generation <= x.generation
      <4>1. Nil \in Paths \cup {Nil} /\ Nil \in Contents \cup {Nil}
        OBVIOUS
      <4> QED
        BY <3>1, <4>1, BoundIs
    <3> QED
      BY <3>2, <3>3
  <2>3. CASE a.kind = "load"
    <3>1. PICK x : x = Replaced(t, a.text, Nil)
      OBVIOUS
    <3>2. tab' = [tab EXCEPT ![active] = x] /\ read' = read
      BY <2>3, <3>1 DEF Perform
    <3>3. a.text \in Contents /\ a.text \in Texts
      BY <2>3, Apart
    <3>4. /\ x \in Buffers /\ x.saving = t.saving /\ t.generation <= x.generation
          /\ (x.path = Nil) = (x.saved = Nil)
          /\ \/ x = t /\ IsDirty(t) /\ t.grant # t.generation
             \/ x.path = Nil /\ x.buffer = a.text
      BY <1>1, <3>1, <3>3, ReplacedIs
    <3>5. IsDirty(t) => IsDirty(Here)
      BY DEF IsDirty
    <3>6. ~crossed => x.path = Nil
      BY <3>4, <3>5
    <3>7. Moving(x)
      BY <3>2, <3>3, <3>4
    <3> QED
      BY <3>2, <3>4, <3>6, <3>7
  <2> QED
    BY <2>1, <2>2, <2>3 DEF Perform
<1>3. PICK x \in Buffers :
        /\ Moving(x)
        /\ \/ a.kind = "open" /\ Reading /\ x = t
           \/ read' = read /\ (~crossed => x.path = Nil)
  BY <1>2
<1>4. /\ tab' \in [Editors -> Buffers] /\ Here' = x /\ tab'[active] = x
      /\ \A e \in Editors \ {active} : tab'[e] = tab[e]
      /\ \A e \in Editors : (tab'[e].path = Nil) = (tab'[e].saved = Nil)
  BY <1>0, <1>3, HereIs
<1>5. \A e \in Editors : tab'[e].saving = tab[e].saving
  BY <1>1, <1>3, <1>4
<1>6. read' \in Readings \cup {Nil}
  BY <1>0, <1>3 DEF FilesTypeOK
<1>7. FilesTypeOK'
  BY <1>0, <1>4, <1>5, <1>6, Facts DEF FilesTypeOK
<1>8. JobsOK'
  BY <1>0 DEF JobsOK, Running
<1>9. ~crossed => Alone' /\ WholeOK' /\ GoneOK' /\ AskedOK'
  <2> SUFFICES ASSUME ~crossed PROVE Alone' /\ WholeOK' /\ GoneOK' /\ AskedOK'
    OBVIOUS
  <2>1. Alone'
    BY <1>0 DEF Alone, Running
  <2>2. \A e \in Editors : tab'[e].buffer \in Texts
    BY <1>0, <1>1, <1>3, <1>4 DEF WholeOK
  <2>3. read' # Nil => read'.result # Torn
    BY <1>0, <1>3, Apart DEF WholeOK
  <2>4. WholeOK'
    BY <1>0, <2>2, <2>3 DEF WholeOK, Running
  <2>5. \A e \in Editors : tab'[e].path \in {tab[e].path, Nil}
    BY <1>1, <1>3, <1>4
  <2>6. \A g \in gone : tab'[g[1]].path # g[2]
    BY <1>0, <2>5, GoneIs, Apart DEF GoneOK
  <2>7. read' # Nil => /\ read'.generation <= x.generation
                       /\ read'.path \in GonePaths => read'.generation < x.generation
    <3>1. CASE read' = read
      <4>1. read # Nil => read.generation \in Nat
        BY <1>0, Facts DEF Readings
      <4>2. x.generation \in Nat /\ Here.generation <= x.generation
        BY <1>3 DEF Buffers
      <4> QED
        BY <1>0, <1>1, <3>1, <4>1, <4>2 DEF GoneOK
    <3>2. CASE a.kind = "open" /\ Reading /\ x = t
      BY <1>1, <3>2
    <3> QED
      BY <1>3, <3>1, <3>2
  <2>8. GoneOK'
    BY <1>0, <1>4, <2>6, <2>7 DEF GoneOK, Running, GonePaths
  <2>9. AskedOK'
    BY <1>3, <1>4 DEF AskedOK, IsDirty
  <2> QED
    BY <2>1, <2>4, <2>8, <2>9
<1> QED
  BY <1>7, <1>8, <1>9 DEF IInv, Calm

LEMMA LoadGuardedKeeps ==
    ASSUME IInv, LoadGuarded
    PROVE  IInv'
<1>0. FilesTypeOK /\ JobsOK /\ (~crossed => Alone /\ WholeOK /\ GoneOK /\ AskedOK)
  BY CalmIs
<1>1. /\ UNCHANGED <<disk, tmp, tabs, active, modal, picker, job, crossed, gone, agreed>>
      /\ asks' \in 0 .. MaxAsks /\ modal = Nil /\ discard = Nil
  BY <1>0, AskIs DEF LoadGuarded, files, ghosts, Uncovered
<1>2. PICK a \in Commands : IF Dirty(active) THEN discard' = a /\ UNCHANGED <<tab, read>>
                            ELSE Perform(a, Here) /\ UNCHANGED discard
  BY DEF LoadGuarded
<1>3. active \in Editors /\ Here \in Buffers
  BY <1>0, Facts
<1>4. /\ a \in Parked /\ a.tab = active
      /\ a.kind = "open" => a.path \in Paths /\ disk[a.path] # Absent
      /\ a.kind = "load" => a.text \in Texts
  BY <1>2, <1>3 DEF Commands, Action, Parked
<1>5. ~crossed /\ a.kind = "open" => a.path \notin GonePaths
  BY <1>0, <1>4 DEF GoneOK
<1>6. CASE Dirty(active)
  <2>1. discard' = a /\ tab' = tab /\ read' = read
    BY <1>2, <1>6
  <2>2. FilesTypeOK'
    BY <1>0, <1>1, <1>4, <2>1 DEF FilesTypeOK
  <2>3. JobsOK'
    BY <1>0, <1>1, <1>4, <2>1 DEF JobsOK, Running
  <2>4. ~crossed => Alone' /\ WholeOK' /\ GoneOK' /\ AskedOK'
    BY <1>0, <1>1, <1>4, <1>5, <2>1 DEF Alone, WholeOK, GoneOK, AskedOK, Running, GonePaths, Here
  <2> QED
    BY <1>1, <2>2, <2>3, <2>4 DEF IInv, Calm
<1>7. CASE ~Dirty(active)
  <2>1. Perform(a, Here) /\ discard' = Nil
    BY <1>1, <1>2, <1>7
  <2>2. ~IsDirty(Here)
    BY <1>7 DEF Dirty, Here
  <2>3. agreed' \in [Editors -> Contents \cup {Nil}]
    BY <1>0, <1>1 DEF FilesTypeOK
  <2> QED
    BY <1>1, <1>3, <1>4, <1>5, <2>1, <2>2, <2>3, PerformKeeps
<1> QED
  BY <1>6, <1>7

LEMMA AnswerYesKeeps ==
    ASSUME IInv, AnswerYes
    PROVE  IInv'
<1>0. FilesTypeOK /\ JobsOK /\ (~crossed => Alone /\ WholeOK /\ GoneOK /\ AskedOK)
  BY CalmIs
<1>1. discard \in Parked /\ discard # Nil /\ active \in Editors /\ Here \in Buffers /\ discard.tab \in Editors
  BY <1>0, Facts DEF AnswerYes, Parked
<1>2. /\ UNCHANGED <<disk, tmp, modal, picker, job, asks, gone>>
      /\ discard' = Nil
      /\ agreed' = [agreed EXCEPT ![discard.tab] = tab[discard.tab].buffer]
  BY DEF AnswerYes, files
<1>3. agreed' \in [Editors -> Contents \cup {Nil}] /\ asks' \in 0 .. MaxAsks
  <2>1. tab[discard.tab] \in Buffers
    BY <1>0, <1>1, Facts
  <2>2. tab[discard.tab].buffer \in Contents \cup {Nil}
    BY <2>1 DEF Buffers
  <2> QED
    BY <1>0, <1>2, <2>2 DEF FilesTypeOK
<1>4. CASE discard.kind = "close" /\ discard.tab \in tabs
  <2>1. CloseClean(discard.tab, Pending) /\ read' = read
    BY <1>4 DEF AnswerYes
  <2>2. Pending \in BOOLEAN
    BY DEF Pending
  <2>3. /\ tabs' \subseteq Editors /\ active' \in tabs'
        /\ \A d \in tabs' : d \in tabs \/ Unused(d)
        /\ tab' = tab /\ crossed' \in BOOLEAN /\ (~crossed' => ~crossed /\ ~Pending)
    BY <1>0, <1>4, <2>1, <2>2, CloseIs
  <2> QED
    BY <1>2, <1>3, <2>1, <2>3, ViewKeeps
<1>5. CASE discard.kind = "close" /\ discard.tab \notin tabs
  <2>1. UNCHANGED <<tabs, active, tab, read, crossed>>
    BY <1>5 DEF AnswerYes, tabVars
  <2>2. FilesTypeOK'
    BY <1>0, <1>2, <1>3, <2>1 DEF FilesTypeOK
  <2>3. JobsOK'
    BY <1>0, <1>2, <2>1 DEF JobsOK, Running
  <2>4. crossed
    BY <1>0, <1>1, <1>5 DEF Alone, FilesTypeOK
  <2> QED
    BY <2>1, <2>2, <2>3, <2>4 DEF IInv, Calm
<1>6. CASE discard.kind # "close"
  <2>1. PICK t : t = [Here EXCEPT !.grant = Here.generation]
    OBVIOUS
  <2>2. /\ t \in Buffers /\ t.path = Here.path /\ t.saved = Here.saved /\ t.buffer = Here.buffer
        /\ t.generation = Here.generation /\ t.saving = Here.saving /\ t.grant = t.generation
    BY <1>1, <2>1 DEF Buffers
  <2>3. Perform(discard, t) /\ UNCHANGED <<tabs, active, crossed>>
    BY <1>6, <2>1 DEF AnswerYes
  <2>4. /\ discard.kind = "open" => discard.path \in Paths
        /\ discard.kind = "load" => discard.text \in Texts
    BY <1>0, <1>1 DEF JobsOK
  <2>5. ~crossed /\ discard.kind = "open" => discard.path \notin GonePaths
    BY <1>0, <1>1 DEF GoneOK
  <2>6. ~crossed /\ IsDirty(Here) => agreed'[active] = Here.buffer /\ t.grant = t.generation
    BY <1>0, <1>1, <1>2, <2>2 DEF Alone, FilesTypeOK, Here
  <2> QED
    BY <1>1, <1>2, <1>3, <2>2, <2>3, <2>4, <2>5, <2>6, PerformKeeps
<1> QED
  BY <1>4, <1>5, <1>6

-----------------------------------------------------------------------------
(* The read of an open_script lands: what it was asked over has not moved, *)
(* so no file deleted since is bound.                                      *)
LEMMA OpenLandsKeeps ==
    ASSUME IInv, OpenLands
    PROVE  IInv'
<1>0. FilesTypeOK /\ JobsOK /\ (~crossed => Alone /\ WholeOK /\ GoneOK /\ AskedOK)
  BY CalmIs
<1>1. /\ read \in Readings /\ read # Nil /\ Here \in Buffers /\ active \in Editors /\ Here = tab[active]
      /\ read.result # Nil /\ read.path \in Paths
  BY <1>0, Facts DEF OpenLands, Readings, Here
<1>2. /\ UNCHANGED <<disk, tmp, tabs, active, modal, discard, picker, job, asks, crossed, gone, agreed>>
      /\ read' = Nil
  BY DEF OpenLands, files, dialogs, ghosts
<1>3. PICK x : x = IF MovedOn \/ read.result = Absent THEN Here
                   ELSE Replaced(Here, read.result, read.path)
  OBVIOUS
<1>4. tab' = [tab EXCEPT ![active] = x]
  <2>1. tab' = IF MovedOn \/ read.result = Absent THEN tab
               ELSE [tab EXCEPT ![active] = Replaced(tab[active], read.result, read.path)]
    BY DEF OpenLands
  <2>2. tab = [tab EXCEPT ![active] = Here]
    BY <1>0, <1>1 DEF FilesTypeOK
  <2> QED
    BY <1>1, <1>3, <2>1, <2>2
<1>5. (Here.path = Nil) = (Here.saved = Nil)
  BY <1>0, <1>1 DEF FilesTypeOK
<1>6. /\ x \in Buffers /\ x.saving = Here.saving /\ (x.path = Nil) = (x.saved = Nil)
      /\ \/ x = Here
         \/ /\ ~MovedOn /\ x.path = read.path /\ x.buffer = read.result
            /\ read.result \in Contents
  <2>1. CASE MovedOn \/ read.result = Absent
    BY <1>1, <1>3, <1>5, <2>1
  <2>2. CASE ~(MovedOn \/ read.result = Absent)
    <3>1. read.result \in Contents /\ read.path \in Paths \cup {Nil}
      BY <1>1, <2>2 DEF Readings
    <3>2. x = Replaced(Here, read.result, read.path)
      BY <1>3, <2>2
    <3> QED
      BY <1>1, <1>5, <2>2, <3>1, <3>2, ReplacedIs
  <2> QED
    BY <2>1, <2>2
<1>7. /\ tab' \in [Editors -> Buffers] /\ Here' = x /\ tab'[active] = x
      /\ \A e \in Editors \ {active} : tab'[e] = tab[e]
      /\ \A e \in Editors : (tab'[e].path = Nil) = (tab'[e].saved = Nil)
  BY <1>0, <1>2, <1>4, <1>6, HereIs
<1>8. \A e \in Editors : tab'[e].saving = tab[e].saving
  BY <1>1, <1>6, <1>7
<1>9. FilesTypeOK'
  BY <1>0, <1>2, <1>7, <1>8, Facts DEF FilesTypeOK
<1>10. JobsOK'
  BY <1>0, <1>2 DEF JobsOK, Running
<1>11. ~crossed => Alone' /\ WholeOK' /\ GoneOK' /\ AskedOK'
  <2> SUFFICES ASSUME ~crossed PROVE Alone' /\ WholeOK' /\ GoneOK' /\ AskedOK'
    OBVIOUS
  <2>1. Alone'
    BY <1>0, <1>2 DEF Alone, Running
  <2>2. read.result \in Contents => read.result \in Texts
    BY <1>0, <1>1 DEF WholeOK, Contents
  <2>3. \A e \in Editors : tab'[e].buffer \in Texts
    BY <1>0, <1>1, <1>6, <1>7, <2>2 DEF WholeOK
  <2>4. WholeOK'
    BY <1>0, <1>2, <2>3 DEF WholeOK, Running
  <2>5. ~MovedOn => read.path \notin GonePaths
    <3>1. Here.generation = read.generation => ~(read.generation < Here.generation)
      BY <1>1 DEF Buffers
    <3> QED
      BY <1>0, <1>1, <3>1 DEF GoneOK, MovedOn
  <2>6. x = Here \/ x.path \notin GonePaths
    BY <1>6, <2>5
  <2>7. \A g \in gone : tab'[g[1]].path # g[2]
    BY <1>0, <1>1, <1>7, <2>6, GoneIs DEF GoneOK
  <2>8. GoneOK'
    BY <1>0, <1>2, <2>7 DEF GoneOK, Running, GonePaths
  <2>9. AskedOK'
    BY <1>2 DEF AskedOK
  <2> QED
    BY <2>1, <2>4, <2>8, <2>9
<1> QED
  BY <1>2, <1>9, <1>10, <1>11 DEF IInv, Calm

-----------------------------------------------------------------------------
(* Saving *)

(* save_script starts: the path it names is not one the user has deleted.  *)
LEMMA SaveKeeps ==
    ASSUME IInv, NEW p \in Paths, NEW text \in Contents, SaveScript(p, text), Uncovered,
           ~crossed => text \in Texts,
           gone' \subseteq gone, ~crossed => \A g \in gone' : g[2] # p,
           UNCHANGED <<disk, tmp, tabs, active, modal, discard, read, crossed, agreed>>,
           picker' \in {picker, Nil}, asks' \in 0 .. MaxAsks
    PROVE  IInv'
<1>0. FilesTypeOK /\ JobsOK /\ (~crossed => Alone /\ WholeOK /\ GoneOK /\ AskedOK)
  BY CalmIs
<1>1. /\ Here \in Buffers /\ active \in Editors /\ Here = tab[active] /\ active \in tabs
      /\ active \in Workers /\ Dialog \in Workers /\ Dialog \notin Editors /\ Editors \subseteq Workers
  BY <1>0, Facts DEF Here, FilesTypeOK
<1>2. modal = Nil /\ discard = Nil /\ ~Running(Dialog) /\ ~Running(active)
  BY <1>0, <1>1 DEF Uncovered, FilesTypeOK, Running, SaveScript
<1>3. PICK x : x = [Here EXCEPT !.saving = TRUE]
  OBVIOUS
<1>4. /\ x \in Buffers /\ x.buffer = Here.buffer /\ x.path = Here.path /\ x.saved = Here.saved
      /\ x.generation = Here.generation /\ x.saving = TRUE
  BY <1>1, <1>3 DEF Buffers
<1>5. tab' = [tab EXCEPT ![active] = x] /\ active' = active
  BY <1>3 DEF SaveScript, Here
<1>6. (x.path = Nil) = (x.saved = Nil)
  BY <1>0, <1>1, <1>4 DEF FilesTypeOK
<1>7. /\ tab' \in [Editors -> Buffers] /\ Here' = x /\ tab'[active] = x
      /\ \A e \in Editors \ {active} : tab'[e] = tab[e]
      /\ \A e \in Editors : (tab'[e].path = Nil) = (tab'[e].saved = Nil)
  BY <1>0, <1>4, <1>5, <1>6, HereIs
<1>8. PICK j : j = [stage |-> "create", path |-> p, text |-> text, generation |-> Here.generation]
  OBVIOUS
<1>9. j \in Jobs /\ j.stage = "create" /\ j.path = p /\ j.text = text
  BY <1>1, <1>8 DEF Jobs, Stages, Buffers
<1>10. job' = [job EXCEPT ![active] = j]
  BY <1>8 DEF SaveScript, Dispatch
<1>11. job' \in [Workers -> Jobs] /\ job'[active] = j /\ \A v \in Workers \ {active} : job'[v] = job[v]
  BY <1>0, <1>1, <1>9, <1>10, JobIs DEF FilesTypeOK
<1>12. \A e \in tabs : tab'[e].saving = (job'[e].stage # "idle")
  <2> TAKE e \in tabs
  <2>1. CASE e = active
    BY <1>4, <1>7, <1>9, <1>11, <2>1
  <2>2. CASE e # active
    BY <1>0, <1>1, <1>7, <1>11, <2>2 DEF FilesTypeOK
  <2> QED
    BY <2>1, <2>2
<1>13. FilesTypeOK'
  BY <1>0, <1>1, <1>7, <1>11, <1>12 DEF FilesTypeOK
<1>14. JobsOK'
  BY <1>0, <1>1, <1>2, <1>9, <1>11 DEF JobsOK, Running
<1>15. ~crossed => Alone' /\ WholeOK' /\ GoneOK' /\ AskedOK'
  <2> SUFFICES ASSUME ~crossed PROVE Alone' /\ WholeOK' /\ GoneOK' /\ AskedOK'
    OBVIOUS
  <2>1. \A w \in Workers \ {active} : ~Running(w)' /\ ~Running(w)
    BY <1>0, <1>1, <1>2, <1>11 DEF Alone, Running, Workers
  <2>2. Alone'
    BY <1>1, <1>2, <2>1 DEF Alone
  <2>3. \A e \in Editors : tab'[e].buffer \in Texts
    BY <1>0, <1>1, <1>4, <1>7 DEF WholeOK
  <2>4. WholeOK'
    BY <1>0, <1>1, <1>9, <1>11, <2>1, <2>3 DEF WholeOK, Running
  <2>5. \A e \in Editors : tab'[e].path = tab[e].path
    BY <1>1, <1>4, <1>7
  <2>6. (GonePaths)' \subseteq GonePaths /\ p \notin (GonePaths)'
    BY DEF GonePaths
  <2>7. \A e \in Editors : Running(e)' => job'[e].path \notin (GonePaths)'
    BY <1>1, <1>9, <1>11, <2>1, <2>6
  <2>8. \A g \in gone' : tab'[g[1]].path # g[2]
    BY <1>0, <2>5, GoneIs DEF GoneOK
  <2>9. Here'.generation = Here.generation
    BY <1>4, <1>7
  <2>10. GoneOK'
    BY <1>0, <1>2, <2>6, <2>7, <2>8, <2>9 DEF GoneOK
  <2>11. AskedOK'
    BY <1>0, <1>4, <1>7 DEF AskedOK
  <2> QED
    BY <2>2, <2>4, <2>10, <2>11
<1> QED
  BY <1>13, <1>14, <1>15 DEF IInv, Calm

LEMMA SaveBoundKeeps ==
    ASSUME IInv, SaveBound
    PROVE  IInv'
<1>0. FilesTypeOK /\ (~crossed => WholeOK /\ GoneOK)
  BY CalmIs
<1>1. Here \in Buffers /\ active \in Editors /\ Here = tab[active]
  BY <1>0, Facts DEF Here
<1>2. Here.path \in Paths /\ Here.buffer \in Contents /\ (~crossed => Here.buffer \in Texts)
  BY <1>0, <1>1 DEF SaveBound, Buffers, WholeOK
<1>3. SaveScript(Here.path, Here.buffer) /\ Uncovered /\ asks' \in 0 .. MaxAsks
  BY <1>0, AskIs DEF SaveBound
<1>4. gone' = {g \in gone : g[2] # Here.path \/ g[1] = active}
  BY DEF SaveBound
<1>5. ~crossed => \A g \in gone' : g[2] # Here.path
  BY <1>0, <1>1, <1>4 DEF GoneOK
<1>6. UNCHANGED <<disk, tmp, tabs, active, modal, discard, picker, read, crossed, agreed>>
  BY DEF SaveBound, files, dialogs
<1> QED
  BY <1>2, <1>3, <1>4, <1>5, <1>6, SaveKeeps

LEMMA PickerKeeps ==
    ASSUME IInv, PickerEnds
    PROVE  IInv'
<1>0. FilesTypeOK /\ JobsOK /\ (~crossed => Alone /\ WholeOK /\ GoneOK /\ AskedOK)
  BY CalmIs
<1>1. /\ UNCHANGED <<disk, tmp, tabs, active, modal, discard, read, asks, crossed, agreed>>
      /\ picker' = Nil /\ picker # Nil
  BY DEF PickerEnds, files
<1>2. CASE UNCHANGED <<tab, job, gone>>
  <2>1. FilesTypeOK'
    BY <1>0, <1>1, <1>2 DEF FilesTypeOK
  <2>2. JobsOK'
    BY <1>0, <1>1, <1>2 DEF JobsOK, Running
  <2>3. ~crossed => Alone' /\ WholeOK' /\ GoneOK' /\ AskedOK'
    BY <1>0, <1>1, <1>2 DEF Alone, WholeOK, GoneOK, AskedOK, Running, GonePaths, Here
  <2> QED
    BY <1>1, <2>1, <2>2, <2>3 DEF IInv, Calm
<1>3. CASE Uncovered /\ \E p \in Paths : SaveScript(p, picker.text) /\ gone' = Named(p)
  <2>1. PICK p \in Paths : SaveScript(p, picker.text) /\ gone' = Named(p)
    BY <1>3
  <2>2. picker.text \in Contents /\ (~crossed => picker.text \in Texts)
    BY <1>0, <1>1, Facts DEF Pickers, WholeOK
  <2>3. gone' \subseteq gone /\ \A g \in gone' : g[2] # p
    BY <2>1 DEF Named
  <2>4. asks' \in 0 .. MaxAsks
    BY <1>0, <1>1 DEF FilesTypeOK
  <2> QED
    BY <1>1, <1>3, <2>1, <2>2, <2>3, <2>4, SaveKeeps
<1> QED
  BY <1>2, <1>3 DEF PickerEnds

(* The save lands: the active tab may be bound to the path it wrote. *)
LEMMA SaveLandsIs ==
    ASSUME FilesTypeOK, JobsOK, NEW e \in Editors, SaveLands(e)
    PROVE  /\ tab' \in [Editors -> Buffers]
           /\ \A d \in Editors : (tab'[d].path = Nil) = (tab'[d].saved = Nil)
           /\ \A d \in Editors : tab'[d].buffer = tab[d].buffer
           /\ \A d \in Editors : tab'[d].path \in {tab[d].path, job[e].path}
           /\ \A d \in Editors \ {e} : tab'[d].saving = tab[d].saving
           /\ e \in tabs => tab'[e].saving = FALSE
<1>1. /\ active \in Editors /\ tab[e] \in Buffers /\ tab \in [Editors -> Buffers]
      /\ job[e].path \in Paths /\ job[e].text \in Contents
      /\ \A d \in Editors : (tab[d].path = Nil) = (tab[d].saved = Nil)
      /\ \A d \in Editors : tab[d] \in Buffers
  BY Facts DEF FilesTypeOK, JobsOK, Running, SaveLands
<1>2. CASE e \notin tabs
  <2>1. tab' = tab
    BY <1>2 DEF SaveLands
  <2> QED
    BY <1>1, <1>2, <2>1
<1>3. CASE e \in tabs
  <2>1. PICK u : u = [tab[e] EXCEPT !.saving = FALSE]
    OBVIOUS
  <2>2. /\ u \in Buffers /\ u.path = tab[e].path /\ u.saved = tab[e].saved /\ u.buffer = tab[e].buffer
        /\ u.saving = FALSE
    BY <1>1, <2>1 DEF Buffers
  <2>3. PICK t : t = [tab EXCEPT ![e] = u]
    OBVIOUS
  <2>4. t \in [Editors -> Buffers] /\ t[e] = u /\ \A d \in Editors \ {e} : t[d] = tab[d]
    BY <1>1, <2>2, <2>3
  <2>5. PICK x : x = Bound(t[active], job[e].path, job[e].text)
    OBVIOUS
  <2>6. tab' = t \/ tab' = [t EXCEPT ![active] = x]
    BY <1>3, <2>1, <2>3, <2>5 DEF SaveLands
  <2>7. t[active] \in Buffers /\ job[e].path \in Paths \cup {Nil} /\ job[e].text \in Contents \cup {Nil}
    BY <1>1, <2>4
  <2>8. /\ x \in Buffers /\ x.path = job[e].path /\ x.saved = job[e].text
        /\ x.buffer = t[active].buffer /\ x.saving = t[active].saving
    BY <2>5, <2>7, BoundIs
  <2>9. (x.path = Nil) = (x.saved = Nil)
    BY <1>1, <2>8, Apart
  <2>10. /\ \A d \in Editors : (t[d].path = Nil) = (t[d].saved = Nil)
         /\ \A d \in Editors : t[d].buffer = tab[d].buffer /\ t[d].path = tab[d].path
    BY <1>1, <2>2, <2>4
  <2>11. CASE tab' = t
    BY <1>1, <2>2, <2>4, <2>10, <2>11
  <2>12. CASE tab' = [t EXCEPT ![active] = x]
    <3>1. tab' \in [Editors -> Buffers] /\ tab'[active] = x /\ \A d \in Editors \ {active} : tab'[d] = t[d]
      BY <1>1, <2>4, <2>8, <2>12
    <3> QED
      BY <1>1, <2>2, <2>4, <2>8, <2>9, <2>10, <3>1
  <2> QED
    BY <2>6, <2>11, <2>12
<1> QED
  BY <1>2, <1>3

LEMMA SaveLandsKeeps ==
    ASSUME IInv, NEW e \in Editors, SaveLands(e)
    PROVE  IInv'
<1>0. FilesTypeOK /\ JobsOK /\ (~crossed => Alone /\ WholeOK /\ GoneOK /\ AskedOK)
  BY CalmIs
<1>1. /\ tab' \in [Editors -> Buffers]
      /\ \A d \in Editors : (tab'[d].path = Nil) = (tab'[d].saved = Nil)
      /\ \A d \in Editors : tab'[d].buffer = tab[d].buffer
      /\ \A d \in Editors : tab'[d].path \in {tab[d].path, job[e].path}
      /\ \A d \in Editors \ {e} : tab'[d].saving = tab[d].saving
      /\ e \in tabs => tab'[e].saving = FALSE
  BY <1>0, SaveLandsIs
<1>2. UNCHANGED <<disk, tmp, tabs, active, modal, discard, picker, read, asks, gone, agreed>>
  BY DEF SaveLands, files, dialogs
<1>3. /\ e \in Workers /\ Dialog \in Workers /\ Dialog # e /\ Editors \subseteq Workers /\ tabs \subseteq Editors
  BY <1>0, Facts DEF FilesTypeOK
<1>4. job' \in [Workers -> Jobs] /\ job'[e] = Idle /\ \A v \in Workers \ {e} : job'[v] = job[v]
  BY <1>0, <1>3, FreshIs, JobIs DEF FilesTypeOK, SaveLands
<1>5. crossed' \in BOOLEAN /\ (~crossed' => ~crossed /\ read = Nil)
  <2>1. crossed \in BOOLEAN /\ Crosses(read # Nil) /\ (read # Nil) \in BOOLEAN
    BY <1>0 DEF FilesTypeOK, SaveLands, Crosses
  <2> QED
    BY <2>1, CrossIs
<1>6. \A d \in tabs : tab'[d].saving = (job'[d].stage # "idle")
  <2> TAKE d \in tabs
  <2>1. CASE d = e
    BY <1>1, <1>4, <2>1, FreshIs
  <2>2. CASE d # e
    BY <1>0, <1>1, <1>3, <1>4, <2>2 DEF FilesTypeOK
  <2> QED
    BY <2>1, <2>2
<1>7. FilesTypeOK'
  BY <1>0, <1>1, <1>2, <1>3, <1>4, <1>5, <1>6 DEF FilesTypeOK
<1>8. JobsOK'
  BY <1>0, <1>2, <1>3, <1>4, FreshIs DEF JobsOK, Running
<1>9. ~crossed' => Alone' /\ WholeOK' /\ GoneOK' /\ AskedOK'
  <2> SUFFICES ASSUME ~crossed' PROVE Alone' /\ WholeOK' /\ GoneOK' /\ AskedOK'
    OBVIOUS
  <2>0. ~crossed /\ read = Nil
    BY <1>5
  <2>1. \A w \in Workers : Running(w)' => Running(w) /\ job'[w] = job[w]
    BY <1>4, FreshIs DEF Running
  <2>2. Alone'
    BY <1>0, <1>2, <1>3, <2>0, <2>1 DEF Alone
  <2>3. WholeOK'
    BY <1>0, <1>1, <1>2, <1>3, <1>4, <2>0, <2>1, FreshIs DEF WholeOK, Running
  <2>4. job[e].path \notin GonePaths
    BY <1>0, <2>0 DEF GoneOK, Running, SaveLands
  <2>5. \A g \in gone : tab'[g[1]].path # g[2]
    BY <1>0, <1>1, <2>0, <2>4, GoneIs DEF GoneOK
  <2>6. GoneOK'
    BY <1>0, <1>2, <1>3, <1>4, <2>0, <2>1, <2>5 DEF GoneOK, GonePaths
  <2>7. AskedOK'
    BY <1>2, <2>0 DEF AskedOK
  <2> QED
    BY <2>2, <2>3, <2>6, <2>7
<1> QED
  BY <1>7, <1>8, <1>9 DEF IInv, Calm

-----------------------------------------------------------------------------
(* The background *)

(* With nothing crossed, the operation that runs is the only one. *)
LEMMA OnlyOne ==
    ASSUME FilesTypeOK, Alone, NEW w \in Workers, Running(w)
    PROVE  \A v \in Workers \ {w} : ~Running(v)
BY Facts DEF Alone

(* A step of write_atomic. *)
LEMMA WriteIs ==
    ASSUME FilesTypeOK, JobsOK, NEW w \in Workers, WriteStep(w)
    PROVE  /\ job[w].stage \in {"create", "fill", "rename"} /\ job[w].path \in Paths
           /\ tmp' \in [Paths -> Contents \cup {Absent}]
           /\ disk' \in [Paths -> Contents \cup {Absent}]
           /\ \A q \in Paths \ {job[w].path} : disk'[q] = disk[q]
           /\ job' \in [Workers -> Jobs] /\ \A v \in Workers \ {w} : job'[v] = job[v]
           /\ job'[w].stage \in {"fill", "rename", "ok", "failed"}
           /\ job'[w].path = job[w].path /\ job'[w].text = job[w].text
           /\ job'[w].stage = "rename" => tmp'[job[w].path] = job[w].text
           /\ job'[w].stage # "ok" => disk' = disk
           /\ job'[w].stage = "ok" => /\ job[w].stage = "rename"
                                      /\ disk'[job[w].path] = tmp[job[w].path]
<1>1. /\ tmp \in [Paths -> Contents \cup {Absent}] /\ disk \in [Paths -> Contents \cup {Absent}]
      /\ job \in [Workers -> Jobs]
  BY DEF FilesTypeOK
<1>2. job[w].stage \in {"create", "fill", "rename"}
  BY DEF WriteStep
<1>3. job[w].path \in Paths /\ job[w].text \in Contents
  BY <1>2 DEF JobsOK, Running
<1>4. {"fill", "rename", "ok", "failed"} \subseteq Stages
  BY DEF Stages
<1>5. CASE /\ job[w].stage = "create"
           /\ tmp' = [tmp EXCEPT ![job[w].path] = Torn] /\ Advance(w, "fill") /\ UNCHANGED disk
  <2>1. /\ job' \in [Workers -> Jobs] /\ job'[w].stage = "fill" /\ job'[w].path = job[w].path
        /\ job'[w].text = job[w].text /\ \A v \in Workers \ {w} : job'[v] = job[v]
    BY <1>1, <1>4, <1>5, AdvanceIs
  <2> QED
    BY <1>1, <1>2, <1>3, <1>5, <2>1, Apart
<1>6. CASE /\ job[w].stage = "fill"
           /\ tmp' = [tmp EXCEPT ![job[w].path] = job[w].text] /\ Advance(w, "rename") /\ UNCHANGED disk
  <2>1. /\ job' \in [Workers -> Jobs] /\ job'[w].stage = "rename" /\ job'[w].path = job[w].path
        /\ job'[w].text = job[w].text /\ \A v \in Workers \ {w} : job'[v] = job[v]
    BY <1>1, <1>4, <1>6, AdvanceIs
  <2> QED
    BY <1>1, <1>2, <1>3, <1>6, <2>1
<1>7. CASE /\ job[w].stage = "rename" /\ disk' = [disk EXCEPT ![job[w].path] = tmp[job[w].path]]
           /\ tmp' = [tmp EXCEPT ![job[w].path] = Absent] /\ Advance(w, "ok")
  <2>1. /\ job' \in [Workers -> Jobs] /\ job'[w].stage = "ok" /\ job'[w].path = job[w].path
        /\ job'[w].text = job[w].text /\ \A v \in Workers \ {w} : job'[v] = job[v]
    BY <1>1, <1>4, <1>7, AdvanceIs
  <2> QED
    BY <1>1, <1>2, <1>3, <1>7, <2>1
<1>8. CASE tmp' = [tmp EXCEPT ![job[w].path] = Absent] /\ Advance(w, "failed") /\ UNCHANGED disk
  <2>1. /\ job' \in [Workers -> Jobs] /\ job'[w].stage = "failed" /\ job'[w].path = job[w].path
        /\ job'[w].text = job[w].text /\ \A v \in Workers \ {w} : job'[v] = job[v]
    BY <1>1, <1>4, <1>8, AdvanceIs
  <2> QED
    BY <1>1, <1>2, <1>3, <1>8, <2>1
<1> QED
  BY <1>5, <1>6, <1>7, <1>8 DEF WriteStep

LEMMA WriteKeeps ==
    ASSUME IInv, NEW w \in Workers, WriteStep(w)
    PROVE  IInv'
<1>0. FilesTypeOK /\ JobsOK /\ (~crossed => Alone /\ WholeOK /\ GoneOK /\ AskedOK)
  BY CalmIs
<1>1. /\ job[w].stage \in {"create", "fill", "rename"} /\ job[w].path \in Paths
      /\ tmp' \in [Paths -> Contents \cup {Absent}]
      /\ disk' \in [Paths -> Contents \cup {Absent}]
      /\ \A q \in Paths \ {job[w].path} : disk'[q] = disk[q]
      /\ job' \in [Workers -> Jobs] /\ \A v \in Workers \ {w} : job'[v] = job[v]
      /\ job'[w].stage \in {"fill", "rename", "ok", "failed"}
      /\ job'[w].path = job[w].path /\ job'[w].text = job[w].text
      /\ job'[w].stage = "rename" => tmp'[job[w].path] = job[w].text
      /\ job'[w].stage # "ok" => disk' = disk
      /\ job'[w].stage = "ok" => /\ job[w].stage = "rename"
                                 /\ disk'[job[w].path] = tmp[job[w].path]
  BY <1>0, WriteIs
<1>2. UNCHANGED <<tabs, active, tab, modal, discard, picker, read, asks, crossed, gone, agreed>>
  BY DEF WriteStep, tabVars, dialogs, ghosts
<1>3. \A v \in Workers : Running(v)' = Running(v)
  BY <1>1 DEF Running
<1>4. Editors \subseteq Workers /\ Dialog \in Workers /\ tabs \subseteq Editors /\ Dialog \notin Editors
  BY <1>0, Facts DEF FilesTypeOK
<1>5. FilesTypeOK'
  BY <1>0, <1>1, <1>2, <1>3, <1>4 DEF FilesTypeOK, Running
<1>6. w = Dialog => /\ modal # Nil /\ modal.kind = "create" /\ modal.path = modal.to
                    /\ modal.running /\ job[w].path = modal.path
  BY <1>0, <1>1 DEF FilesTypeOK, JobsOK, Running, StagesOf, Modals
<1>7. JobsOK'
  <2>1. \A v \in Workers : Running(v)' => job'[v].path \in Paths /\ job'[v].text \in Contents
    BY <1>0, <1>1, <1>3 DEF JobsOK
  <2>2. \A e \in Editors : job'[e].stage \in {"idle", "create", "fill", "rename", "ok", "failed"}
    BY <1>0, <1>1, <1>4 DEF JobsOK
  <2>3. modal # Nil => job'[Dialog].stage \in StagesOf(modal.kind)
    BY <1>0, <1>1, <1>4, <1>6 DEF JobsOK, StagesOf
  <2>4. modal # Nil => (Running(Dialog)' => job'[Dialog].path = modal.path)
    BY <1>0, <1>1, <1>3, <1>4 DEF JobsOK
  <2> QED
    BY <1>0, <1>2, <2>1, <2>2, <2>3, <2>4 DEF JobsOK
<1>8. ~crossed => Alone' /\ WholeOK' /\ GoneOK' /\ AskedOK'
  <2> SUFFICES ASSUME ~crossed PROVE Alone' /\ WholeOK' /\ GoneOK' /\ AskedOK'
    OBVIOUS
  <2>1. Running(w) /\ \A v \in Workers \ {w} : ~Running(v) /\ ~Running(v)'
    BY <1>0, <1>1, <1>3, OnlyOne DEF Running
  <2>2. Alone'
    BY <1>0, <1>2, <1>3, <1>4 DEF Alone
  <2>3. job[w].text \in Texts
    BY <1>0, <2>1 DEF WholeOK
  <2>4. job'[w].stage = "ok" => disk'[job[w].path] = job[w].text
    BY <1>0, <1>1 DEF WholeOK
  <2>5. \A p \in Paths : disk'[p] # Torn
    BY <1>0, <1>1, <2>3, <2>4, Apart DEF WholeOK
  <2>6. \A v \in Workers \ {w} : job'[v].stage = "idle"
    BY <2>1 DEF Running
  <2>7. /\ \A v \in Workers : Running(v)' => job'[v].text \in Texts
        /\ \A v \in Workers : job'[v].stage = "rename" => tmp'[job'[v].path] = job'[v].text
        /\ \A e \in Editors : job'[e].stage = "ok" => disk'[job'[e].path] = job'[e].text
    BY <1>1, <1>4, <2>1, <2>3, <2>4, <2>6
  <2>8. WholeOK'
    BY <1>0, <1>2, <2>5, <2>7 DEF WholeOK
  <2>9. job[w].path \notin GonePaths
    <3>1. CASE w = Dialog
      BY <1>0, <1>6, <3>1 DEF GoneOK
    <3>2. CASE w # Dialog
      BY <1>0, <2>1, <3>2, Facts DEF GoneOK
    <3> QED
      BY <3>1, <3>2
  <2>10. \A p \in GonePaths : disk'[p] = Absent
    BY <1>0, <1>1, <2>9, GoneIs DEF GoneOK
  <2>11. \A e \in Editors : Running(e)' => job'[e].path \notin GonePaths
    BY <1>1, <1>4, <2>1, <2>9
  <2>12. modal # Nil /\ modal.running /\ modal.kind = "delete" => w # Dialog /\ disk' = disk /\ job' = job
    <3>1. modal # Nil /\ modal.running => w = Dialog
      BY <1>0, <1>4, <2>1 DEF FilesTypeOK, Running
    <3> QED
      BY <1>6, <3>1
  <2>13. GoneOK'
    BY <1>0, <1>2, <2>10, <2>11, <2>12 DEF GoneOK, GonePaths, Here
  <2>14. AskedOK'
    BY <1>0, <1>2 DEF AskedOK, Here
  <2> QED
    BY <2>2, <2>8, <2>13, <2>14
<1> QED
  BY <1>2, <1>5, <1>7, <1>8 DEF IInv, Calm

(* A step of the dialogs' operation. *)
LEMMA EntryIs ==
    ASSUME FilesTypeOK, JobsOK, EntryStep
    PROVE  /\ modal # Nil /\ modal \in Modals /\ modal.running /\ Running(Dialog)
           /\ disk' \in [Paths -> Contents \cup {Absent}]
           /\ job' \in [Workers -> Jobs] /\ \A v \in Workers \ {Dialog} : job'[v] = job[v]
           /\ job'[Dialog].stage \in StagesOf(modal.kind) \ {"idle", "rename"}
           /\ job'[Dialog].path = job[Dialog].path /\ job'[Dialog].text = job[Dialog].text
           /\ \A p \in Paths : disk'[p] \in {disk[p], Absent} \/ (p = modal.to /\ disk'[p] = disk[modal.path])
           /\ modal.kind = "delete" => \A p \in Paths : disk'[p] \in {disk[p], Absent}
           /\ modal.kind = "delete" /\ job'[Dialog].stage = "ok" => disk'[modal.path] = Absent
<1>1. /\ modal \in Modals /\ modal # Nil /\ Dialog \in Workers /\ job \in [Workers -> Jobs]
      /\ disk \in [Paths -> Contents \cup {Absent}]
  BY Facts DEF EntryStep, FilesTypeOK
<1>2. modal.path \in Paths /\ modal.to \in Paths /\ modal.kind \in {"create", "rename", "delete"}
  BY <1>1 DEF Modals
<1>3. /\ job[Dialog].stage \in StagesOf(modal.kind)
      /\ (modal.kind = "rename") = (modal.path # modal.to)
  BY <1>1 DEF JobsOK
<1>4. job[Dialog].stage \in {"probe", "move", "remove"} /\ Running(Dialog) /\ modal.running
  <2>1. job[Dialog].stage \in {"probe", "move", "remove"}
    BY DEF EntryStep
  <2>2. job[Dialog].stage # "idle"
    BY <2>1
  <2>3. modal.running = (job[Dialog].stage # "idle")
    BY <1>1 DEF FilesTypeOK
  <2> QED
    BY <2>1, <2>2, <2>3 DEF Running
<1>5. {"create", "move", "ok", "failed"} \subseteq Stages
  BY DEF Stages
<1> DEFINE Moved(s) == /\ job' \in [Workers -> Jobs] /\ \A v \in Workers \ {Dialog} : job'[v] = job[v]
                       /\ job'[Dialog].stage = s
                       /\ job'[Dialog].path = job[Dialog].path /\ job'[Dialog].text = job[Dialog].text
<1>6. \A s \in {"create", "move", "ok", "failed"} : Advance(Dialog, s) => Moved(s)
  BY <1>1, <1>5, AdvanceIs
<1>7. CASE /\ job[Dialog].stage = "probe" /\ UNCHANGED disk
           /\ Advance(Dialog, IF modal.kind = "create" THEN "create" ELSE "move")
  <2>1. PICK s \in {"create", "move"} : s = IF modal.kind = "create" THEN "create" ELSE "move"
    OBVIOUS
  <2>2. Moved(s)
    BY <1>6, <1>7, <2>1
  <2>3. s \in StagesOf(modal.kind) \ {"idle", "rename"} /\ s # "ok"
    BY <1>2, <1>3, <1>7, <2>1 DEF StagesOf
  <2>4. disk' \in [Paths -> Contents \cup {Absent}] /\ \A p \in Paths : disk'[p] \in {disk[p], Absent}
    BY <1>1, <1>7
  <2>5. job'[Dialog].stage \in StagesOf(modal.kind) \ {"idle", "rename"} /\ job'[Dialog].stage # "ok"
    BY <2>2, <2>3
  <2> QED
    BY <1>1, <1>4, <2>2, <2>4, <2>5
<1>8. CASE Advance(Dialog, "failed") /\ UNCHANGED disk
  <2>1. Moved("failed")
    BY <1>6, <1>8
  <2>2. "failed" \in StagesOf(modal.kind) \ {"idle", "rename"}
    BY <1>2 DEF StagesOf
  <2>3. disk' \in [Paths -> Contents \cup {Absent}] /\ \A p \in Paths : disk'[p] \in {disk[p], Absent}
    BY <1>1, <1>8
  <2>4. job'[Dialog].stage \in StagesOf(modal.kind) \ {"idle", "rename"} /\ job'[Dialog].stage # "ok"
    BY <2>1, <2>2
  <2> QED
    BY <1>1, <1>4, <2>1, <2>3, <2>4
<1>9. CASE /\ job[Dialog].stage = "move" /\ Advance(Dialog, "ok")
           /\ disk' = [disk EXCEPT ![modal.to] = disk[modal.path], ![modal.path] = Absent]
  <2>1. Moved("ok")
    BY <1>6, <1>9
  <2>2. modal.kind = "rename" /\ "ok" \in StagesOf(modal.kind) \ {"idle", "rename"}
    BY <1>2, <1>3, <1>9 DEF StagesOf
  <2>3. /\ disk' \in [Paths -> Contents \cup {Absent}]
        /\ \A p \in Paths : disk'[p] \in {disk[p], Absent} \/ (p = modal.to /\ disk'[p] = disk[modal.path])
    <3>1. PICK d : d = [disk EXCEPT ![modal.to] = disk[modal.path]]
      OBVIOUS
    <3>2. /\ d \in [Paths -> Contents \cup {Absent}] /\ d[modal.to] = disk[modal.path]
          /\ \A p \in Paths \ {modal.to} : d[p] = disk[p]
      BY <1>1, <1>2, <3>1
    <3>3. disk' = [d EXCEPT ![modal.path] = Absent]
      BY <1>9, <3>1
    <3>4. /\ disk' \in [Paths -> Contents \cup {Absent}] /\ disk'[modal.path] = Absent
          /\ \A p \in Paths \ {modal.path} : disk'[p] = d[p]
      BY <1>1, <1>2, <3>2, <3>3
    <3> QED
      BY <3>2, <3>4
  <2>4. job'[Dialog].stage \in StagesOf(modal.kind) \ {"idle", "rename"}
    BY <2>1, <2>2
  <2>5. modal.kind # "delete"
    BY <2>2
  <2> QED
    BY <1>1, <1>4, <2>1, <2>3, <2>4, <2>5
<1>10. CASE /\ job[Dialog].stage = "remove" /\ Advance(Dialog, "ok")
            /\ disk' = [disk EXCEPT ![modal.path] = Absent]
  <2>1. Moved("ok")
    BY <1>6, <1>10
  <2>2. "ok" \in StagesOf(modal.kind) \ {"idle", "rename"}
    BY <1>2 DEF StagesOf
  <2>3. /\ disk' \in [Paths -> Contents \cup {Absent}] /\ disk'[modal.path] = Absent
        /\ \A p \in Paths : disk'[p] \in {disk[p], Absent}
    BY <1>1, <1>2, <1>10
  <2>4. job'[Dialog].stage \in StagesOf(modal.kind) \ {"idle", "rename"}
    BY <2>1, <2>2
  <2> QED
    BY <1>1, <1>4, <2>1, <2>3, <2>4
<1> QED
  BY <1>7, <1>8, <1>9, <1>10 DEF EntryStep

LEMMA EntryKeeps ==
    ASSUME IInv, EntryStep
    PROVE  IInv'
<1>0. FilesTypeOK /\ JobsOK /\ (~crossed => Alone /\ WholeOK /\ GoneOK /\ AskedOK)
  BY CalmIs
<1>1. /\ modal # Nil /\ modal \in Modals /\ modal.running /\ Running(Dialog)
      /\ disk' \in [Paths -> Contents \cup {Absent}]
      /\ job' \in [Workers -> Jobs] /\ \A v \in Workers \ {Dialog} : job'[v] = job[v]
      /\ job'[Dialog].stage \in StagesOf(modal.kind) \ {"idle", "rename"}
      /\ job'[Dialog].path = job[Dialog].path /\ job'[Dialog].text = job[Dialog].text
      /\ \A p \in Paths : disk'[p] \in {disk[p], Absent} \/ (p = modal.to /\ disk'[p] = disk[modal.path])
      /\ modal.kind = "delete" => \A p \in Paths : disk'[p] \in {disk[p], Absent}
      /\ modal.kind = "delete" /\ job'[Dialog].stage = "ok" => disk'[modal.path] = Absent
  BY <1>0, EntryIs
<1>2. UNCHANGED <<tmp, tabs, active, tab, modal, discard, picker, read, asks, crossed, gone, agreed>>
  BY DEF EntryStep, tabVars, dialogs, ghosts
<1>3. Editors \subseteq Workers /\ Dialog \in Workers /\ tabs \subseteq Editors /\ Dialog \notin Editors
  BY <1>0, Facts DEF FilesTypeOK
<1>4. \A v \in Workers : Running(v)' = Running(v)
  BY <1>1 DEF Running
<1>5. FilesTypeOK'
  BY <1>0, <1>1, <1>2, <1>3, <1>4 DEF FilesTypeOK, Running
<1>6. JobsOK'
  BY <1>0, <1>1, <1>2, <1>3, <1>4 DEF JobsOK
<1>7. ~crossed => Alone' /\ WholeOK' /\ GoneOK' /\ AskedOK'
  <2> SUFFICES ASSUME ~crossed PROVE Alone' /\ WholeOK' /\ GoneOK' /\ AskedOK'
    OBVIOUS
  <2>1. \A v \in Workers \ {Dialog} : ~Running(v) /\ ~Running(v)'
    BY <1>0, <1>1, <1>3, <1>4, OnlyOne
  <2>2. Alone'
    BY <1>0, <1>2, <1>3, <1>4 DEF Alone
  <2>3. modal.path \in Paths /\ modal.to \in Paths
    BY <1>1 DEF Modals
  <2>4. \A p \in Paths : disk'[p] # Torn
    BY <1>0, <1>1, <2>3, Apart DEF WholeOK
  <2>5. \A v \in Workers \ {Dialog} : job'[v].stage = "idle"
    BY <2>1 DEF Running
  <2>6. /\ \A v \in Workers : Running(v)' => job'[v].text \in Texts
        /\ \A v \in Workers : job'[v].stage # "rename"
        /\ \A e \in Editors : job'[e].stage # "ok"
    BY <1>0, <1>1, <1>3, <2>1, <2>5 DEF WholeOK
  <2>7. WholeOK'
    BY <1>0, <1>2, <2>4, <2>6 DEF WholeOK
  <2>8. modal.kind = "delete" \/ modal.to \notin GonePaths
    BY <1>0, <1>1 DEF GoneOK
  <2>9. \A p \in GonePaths : disk'[p] = Absent
    BY <1>0, <1>1, <2>8, GoneIs DEF GoneOK
  <2>10. GoneOK'
    BY <1>0, <1>1, <1>2, <1>3, <2>1, <2>9 DEF GoneOK, GonePaths, Here
  <2>11. AskedOK'
    BY <1>0, <1>2 DEF AskedOK, Here
  <2> QED
    BY <2>2, <2>7, <2>10, <2>11
<1> QED
  BY <1>2, <1>5, <1>6, <1>7 DEF IInv, Calm

-----------------------------------------------------------------------------
(* The dialogs *)

LEMMA ConfirmKeeps ==
    ASSUME IInv, ConfirmModal
    PROVE  IInv'
<1>0. FilesTypeOK /\ JobsOK /\ (~crossed => Alone /\ WholeOK /\ GoneOK /\ AskedOK)
  BY CalmIs
<1>1. /\ modal \in Modals /\ modal # Nil /\ ~modal.running /\ ~Here.saving /\ active \in Editors
      /\ Dialog \in Workers /\ Dialog \notin Editors /\ Editors \subseteq Workers /\ active \in tabs
      /\ tabs \subseteq Editors
  BY <1>0, Facts DEF ConfirmModal, FilesTypeOK
<1>2. modal.path \in Paths /\ modal.to \in Paths /\ modal.kind \in {"create", "rename", "delete"}
  BY <1>1 DEF Modals
<1>3. /\ modal' \in Modals /\ modal'.running = TRUE /\ modal'.kind = modal.kind
      /\ modal'.path = modal.path /\ modal'.to = modal.to
  BY <1>1 DEF ConfirmModal, Modals
<1>4. modal' # Nil
  BY <1>3, ScriptFilesAssumption
<1>5. PICK j : j = [stage |-> IF modal.kind = "delete" THEN "remove" ELSE "probe",
                    path |-> modal.path, text |-> Empty, generation |-> 0]
  OBVIOUS
<1>6. /\ j \in Jobs /\ j.stage \in StagesOf(modal.kind) /\ j.stage \in {"remove", "probe"}
      /\ j.path = modal.path /\ j.text = Empty
  BY <1>2, <1>5, Apart DEF Jobs, Stages, StagesOf
<1>7. job' = [job EXCEPT ![Dialog] = j]
  BY <1>5 DEF ConfirmModal, Dispatch
<1>8. job' \in [Workers -> Jobs] /\ job'[Dialog] = j /\ \A v \in Workers \ {Dialog} : job'[v] = job[v]
  BY <1>0, <1>1, <1>6, <1>7, JobIs DEF FilesTypeOK
<1>9. UNCHANGED <<disk, tmp, tabs, active, tab, discard, picker, read, asks, crossed, agreed>>
  BY DEF ConfirmModal, files, tabVars
<1>10. gone' \subseteq gone /\ (modal.kind = "delete" \/ \A g \in gone' : g[2] # modal.to)
  BY DEF ConfirmModal, Named
<1>11. FilesTypeOK'
  <2>1. j.stage # "idle"
    BY <1>6
  <2>2. modal'.running = (job'[Dialog].stage # "idle")
    BY <1>3, <1>8, <2>1
  <2>3. \A e \in tabs : job'[e] = job[e]
    BY <1>1, <1>8
  <2>4. discard = Nil
    BY <1>0, <1>1 DEF FilesTypeOK
  <2> QED
    BY <1>0, <1>3, <1>4, <1>8, <1>9, <1>10, <2>2, <2>3, <2>4 DEF FilesTypeOK
<1>12. JobsOK'
  BY <1>0, <1>1, <1>2, <1>3, <1>4, <1>6, <1>8, <1>9, Apart DEF JobsOK, Running
<1>13. ~crossed => Alone' /\ WholeOK' /\ GoneOK' /\ AskedOK'
  <2> SUFFICES ASSUME ~crossed PROVE Alone' /\ WholeOK' /\ GoneOK' /\ AskedOK'
    OBVIOUS
  <2>1. ~Running(active)
    BY <1>0, <1>1 DEF FilesTypeOK, Running, Here
  <2>2. \A v \in Editors : ~Running(v) /\ ~Running(v)'
    BY <1>0, <1>1, <1>8, <2>1 DEF Alone, Running
  <2>3. Alone'
    BY <1>0, <1>9, <2>2 DEF Alone
  <2>4. /\ \A v \in Workers : Running(v)' => job'[v].text \in Texts
        /\ \A v \in Workers : job'[v].stage # "rename"
        /\ \A e \in Editors : job'[e].stage # "ok"
    BY <1>0, <1>1, <1>6, <1>8, <2>2, Facts, Apart DEF Running
  <2>5. WholeOK'
    BY <1>0, <1>9, <2>4 DEF WholeOK
  <2>6. (GonePaths)' \subseteq GonePaths /\ (modal.kind = "delete" \/ modal.to \notin (GonePaths)')
    BY <1>10 DEF GonePaths
  <2>7. \A g \in gone' : tab'[g[1]].path # g[2]
    BY <1>0, <1>9, <1>10 DEF GoneOK
  <2>8. GoneOK'
    BY <1>0, <1>3, <1>6, <1>8, <1>9, <2>2, <2>6, <2>7 DEF GoneOK, Here
  <2>9. AskedOK'
    BY <1>0, <1>9 DEF AskedOK, Here
  <2> QED
    BY <2>3, <2>5, <2>8, <2>9
<1> QED
  BY <1>9, <1>11, <1>12, <1>13 DEF IInv, Calm

(* What a rename or a delete makes of the active tab. *)
LEMMA ModalLandsIs ==
    ASSUME FilesTypeOK, JobsOK, ModalLands, job[Dialog].stage = "ok"
    PROVE  \E x \in Buffers :
             /\ tab' = [tab EXCEPT ![active] = x]
             /\ (x.path = Nil) = (x.saved = Nil)
             /\ x.buffer = Here.buffer /\ x.saving = Here.saving
             /\ Here.generation <= x.generation
             /\ x = Here \/ Here.generation < x.generation
             /\ x.path \in {Here.path, Nil} \/ (x.path = modal.to /\ modal.kind # "delete")
             /\ modal.kind = "delete" => x.path # modal.path /\ Here.generation < x.generation
<1>1. /\ modal \in Modals /\ modal # Nil /\ Here \in Buffers /\ active \in Editors /\ Here = tab[active]
      /\ tab \in [Editors -> Buffers] /\ (Here.path = Nil) = (Here.saved = Nil)
  BY Facts DEF ModalLands, Here, FilesTypeOK
<1>2. /\ modal.path \in Paths /\ modal.to \in Paths /\ modal.kind \in {"create", "rename", "delete"}
      /\ (modal.kind = "rename") = (modal.path # modal.to)
  BY <1>1 DEF Modals, JobsOK
<1>3. tab' = [tab EXCEPT ![active] = CASE modal.kind = "rename" -> AfterRename(Here)
                                       [] modal.kind = "delete" -> AfterDelete(Here)
                                       [] OTHER -> Here]
  BY <1>1 DEF ModalLands
<1>4. Here.generation \in Nat /\ Here.generation <= Here.generation
  <2>1. Here.generation \in Nat
    BY <1>1 DEF Buffers
  <2> QED
    BY <2>1
<1>5. Nil \in Paths \cup {Nil} /\ Nil \in Contents \cup {Nil} /\ Nil \notin Paths
  BY Apart
<1>6. CASE modal.kind = "create"
  <2>1. tab' = [tab EXCEPT ![active] = Here]
    BY <1>3, <1>6
  <2> QED
    BY <1>1, <1>4, <1>6, <2>1
<1>7. CASE modal.kind = "rename" /\ Here.path # modal.path
  <2>1. tab' = [tab EXCEPT ![active] = Here]
    BY <1>3, <1>7 DEF AfterRename
  <2> QED
    BY <1>1, <1>4, <1>7, <2>1
<1>8. CASE modal.kind = "rename" /\ Here.path = modal.path
  <2>1. PICK x : x = Bound(Here, modal.to, Here.saved)
    OBVIOUS
  <2>2. modal.to \in Paths \cup {Nil} /\ Here.saved \in Contents \cup {Nil}
    BY <1>1, <1>2 DEF Buffers
  <2>3. /\ x \in Buffers /\ x.path = modal.to /\ x.saved = Here.saved /\ x.buffer = Here.buffer
        /\ x.saving = Here.saving /\ Here.generation <= x.generation
        /\ Here.path # modal.to => Here.generation < x.generation
    BY <1>1, <2>1, <2>2, BoundIs
  <2>4. tab' = [tab EXCEPT ![active] = x]
    BY <1>3, <1>8, <2>1 DEF AfterRename
  <2>5. (x.path = Nil) = (x.saved = Nil)
    BY <1>1, <1>2, <1>5, <1>8, <2>3
  <2> QED
    BY <1>2, <1>8, <2>3, <2>4, <2>5
<1>9. CASE modal.kind = "delete"
  <2>1. PICK s : s = Superseded(Here)
    OBVIOUS
  <2>2. /\ s \in Buffers /\ s.path = Here.path /\ s.saved = Here.saved
        /\ s.buffer = Here.buffer /\ s.saving = Here.saving /\ Here.generation < s.generation
    BY <1>1, <2>1, SupersededIs
  <2>3. PICK b : b = Bound(s, Nil, Nil)
    OBVIOUS
  <2>4. /\ b \in Buffers /\ b.path = Nil /\ b.saved = Nil /\ b.buffer = s.buffer
        /\ b.saving = s.saving /\ s.generation <= b.generation
    BY <1>5, <2>2, <2>3, BoundIs
  <2>5. s.generation \in Nat /\ b.generation \in Nat
    BY <2>2, <2>4 DEF Buffers
  <2>6. Here.generation < b.generation /\ Here.generation <= b.generation /\ Here.generation <= s.generation
    BY <1>4, <2>2, <2>4, <2>5
  <2>7. CASE Here.path = modal.path
    <3>1. tab' = [tab EXCEPT ![active] = b]
      BY <1>3, <1>9, <2>1, <2>3, <2>7 DEF AfterDelete
    <3> QED
      BY <1>2, <1>5, <2>2, <2>4, <2>6, <3>1
  <2>8. CASE Here.path # modal.path
    <3>1. tab' = [tab EXCEPT ![active] = s]
      BY <1>3, <1>9, <2>1, <2>8 DEF AfterDelete
    <3> QED
      BY <1>1, <2>2, <2>6, <2>8, <3>1
  <2> QED
    BY <2>7, <2>8
<1> QED
  BY <1>2, <1>6, <1>7, <1>8, <1>9

LEMMA ModalLandsKeeps ==
    ASSUME IInv, ModalLands
    PROVE  IInv'
<1>0. FilesTypeOK /\ JobsOK /\ (~crossed => Alone /\ WholeOK /\ GoneOK /\ AskedOK)
  BY CalmIs
<1>1. /\ modal \in Modals /\ modal # Nil /\ Here \in Buffers /\ active \in Editors /\ Here = tab[active]
      /\ Dialog \in Workers /\ Dialog \notin Editors /\ Editors \subseteq Workers /\ tabs \subseteq Editors
      /\ discard = Nil
  BY <1>0, Facts DEF ModalLands, FilesTypeOK, Here
<1>2. modal.path \in Paths /\ modal.to \in Paths
  BY <1>1 DEF Modals
<1>3. modal.running /\ Running(Dialog)
  <2>1. job[Dialog].stage # "idle"
    BY DEF ModalLands
  <2>2. modal.running = (job[Dialog].stage # "idle")
    BY <1>0, <1>1 DEF FilesTypeOK
  <2> QED
    BY <2>1, <2>2 DEF Running
<1>4. /\ job' \in [Workers -> Jobs] /\ job'[Dialog] = Idle
      /\ \A v \in Workers \ {Dialog} : job'[v] = job[v]
  BY <1>0, <1>1, FreshIs, JobIs DEF FilesTypeOK, ModalLands
<1>5. UNCHANGED <<disk, tmp, tabs, active, discard, picker, read, asks, crossed, agreed>>
  BY DEF ModalLands, files
<1>6. \A w \in Workers : Running(w)' => Running(w) /\ job'[w] = job[w] /\ w # Dialog
  BY <1>4, FreshIs DEF Running
<1>7. /\ \A w \in Workers : Running(w)' => job'[w].path \in Paths /\ job'[w].text \in Contents
      /\ \A e \in Editors : job'[e].stage \in {"idle", "create", "fill", "rename", "ok", "failed"}
      /\ job'[Dialog].stage = "idle"
  BY <1>0, <1>1, <1>4, <1>6, FreshIs DEF JobsOK
<1>8. ~crossed => \A w \in Workers : ~Running(w)'
  BY <1>0, <1>1, <1>3, <1>6, OnlyOne
<1>9. ~crossed => /\ Alone'
                  /\ \A w \in Workers : job'[w].stage = "idle"
  BY <1>1, <1>5, <1>8 DEF Alone, Running
<1>10. CASE job[Dialog].stage = "failed"
  <2>1. modal' = [modal EXCEPT !.running = FALSE] /\ tab' = tab /\ gone' = gone
    BY <1>10 DEF ModalLands
  <2>2. /\ modal' \in Modals /\ modal'.running = FALSE /\ modal'.kind = modal.kind
        /\ modal'.path = modal.path /\ modal'.to = modal.to
    BY <1>1, <2>1 DEF Modals
  <2>3. FilesTypeOK'
    BY <1>0, <1>1, <1>4, <1>5, <1>7, <2>1, <2>2 DEF FilesTypeOK
  <2>4. JobsOK'
    <3>1. "idle" \in StagesOf(modal.kind)
      BY <1>1 DEF Modals, StagesOf
    <3> QED
      BY <1>0, <1>1, <1>5, <1>7, <2>2, <3>1 DEF JobsOK, Running
  <2>5. ~crossed => WholeOK' /\ GoneOK' /\ AskedOK'
    BY <1>0, <1>1, <1>5, <1>8, <1>9, <2>1, <2>2 DEF WholeOK, GoneOK, AskedOK, GonePaths, Here
  <2> QED
    BY <1>5, <1>9, <2>3, <2>4, <2>5 DEF IInv, Calm
<1>11. CASE job[Dialog].stage = "ok"
  <2>1. /\ modal' = Nil
        /\ gone' = IF modal.kind = "delete" THEN gone \cup {<<active, modal.path>>} ELSE gone
    BY <1>11 DEF ModalLands
  <2>2. PICK x \in Buffers :
             /\ tab' = [tab EXCEPT ![active] = x]
             /\ (x.path = Nil) = (x.saved = Nil)
             /\ x.buffer = Here.buffer /\ x.saving = Here.saving
             /\ Here.generation <= x.generation
             /\ x = Here \/ Here.generation < x.generation
             /\ x.path \in {Here.path, Nil} \/ (x.path = modal.to /\ modal.kind # "delete")
             /\ modal.kind = "delete" => x.path # modal.path /\ Here.generation < x.generation
    BY <1>0, <1>11, ModalLandsIs
  <2>3. /\ tab' \in [Editors -> Buffers] /\ Here' = x /\ tab'[active] = x
        /\ \A e \in Editors \ {active} : tab'[e] = tab[e]
        /\ \A e \in Editors : (tab'[e].path = Nil) = (tab'[e].saved = Nil)
    BY <1>0, <1>5, <2>2, HereIs
  <2>4. \A e \in Editors : tab'[e].saving = tab[e].saving /\ tab'[e].buffer = tab[e].buffer
    BY <1>1, <2>2, <2>3
  <2>5. gone' \subseteq Editors \X Paths
    BY <1>0, <1>1, <1>2, <2>1 DEF FilesTypeOK
  <2>6. \A e \in tabs : job'[e] = job[e]
    BY <1>1, <1>4
  <2>7. FilesTypeOK'
    BY <1>0, <1>1, <1>4, <1>5, <1>7, <2>1, <2>3, <2>4, <2>5, <2>6 DEF FilesTypeOK
  <2>8. JobsOK'
    BY <1>0, <1>1, <1>5, <1>7, <2>1 DEF JobsOK
  <2>9. ~crossed => WholeOK' /\ GoneOK' /\ AskedOK'
    <3> SUFFICES ASSUME ~crossed PROVE WholeOK' /\ GoneOK' /\ AskedOK'
      OBVIOUS
    <3>1. WholeOK'
      BY <1>0, <1>1, <1>5, <1>8, <1>9, <2>4 DEF WholeOK
    <3>2. /\ modal.kind = "delete" => disk[modal.path] = Absent
          /\ modal.kind # "delete" => modal.to \notin GonePaths
      BY <1>0, <1>1, <1>3, <1>11 DEF GoneOK
    <3>3. \A g \in gone : tab'[g[1]].path # g[2]
      BY <1>0, <1>1, <2>2, <2>3, <3>2, GoneIs, Apart DEF GoneOK
    <3>4. \A g \in gone' : tab'[g[1]].path # g[2]
      BY <2>1, <2>2, <2>3, <3>3
    <3>5. (GonePaths)' = IF modal.kind = "delete" THEN GonePaths \cup {modal.path} ELSE GonePaths
      <4>1. \A p : p \in (GonePaths)' <=> \E g \in gone' : p = g[2]
        BY DEF GonePaths
      <4>2. \A p : p \in GonePaths <=> \E g \in gone : p = g[2]
        BY DEF GonePaths
      <4>3. CASE modal.kind = "delete"
        <5>1. gone' = gone \cup {<<active, modal.path>>} /\ <<active, modal.path>>[2] = modal.path
          BY <2>1, <4>3
        <5> QED
          BY <4>1, <4>2, <4>3, <5>1
      <4>4. CASE modal.kind # "delete"
        BY <2>1, <4>1, <4>2, <4>4
      <4> QED
        BY <4>3, <4>4
    <3>6. \A p \in (GonePaths)' : disk[p] = Absent
      BY <1>0, <3>2, <3>5 DEF GoneOK
    <3>7. read # Nil => /\ read.generation <= x.generation
                        /\ read.path \in (GonePaths)' => read.generation < x.generation
                        /\ x = Here \/ read.generation # x.generation
      <4>1. ASSUME read # Nil
            PROVE  /\ read.generation \in Nat /\ Here.generation \in Nat /\ x.generation \in Nat
                   /\ read.generation <= Here.generation
                   /\ read.path \in GonePaths => read.generation < Here.generation
        BY <1>0, <1>1, <2>2, <4>1, Facts DEF Readings, Buffers, GoneOK
      <4>2. \A a, b, c \in Nat : /\ a <= b /\ b <= c => a <= c
                                 /\ a < b /\ b <= c => a < c
                                 /\ a <= b /\ b < c => a < c /\ a # c
        OBVIOUS
      <4> QED
        BY <2>2, <3>5, <4>1, <4>2
    <3>8. GoneOK'
      BY <1>5, <1>8, <1>1, <2>1, <2>3, <3>4, <3>6, <3>7 DEF GoneOK
    <3>9. AskedOK'
      BY <1>0, <1>5, <2>3, <3>7 DEF AskedOK
    <3> QED
      BY <3>1, <3>8, <3>9
  <2> QED
    BY <1>5, <1>9, <2>7, <2>8, <2>9 DEF IInv, Calm
<1> QED
  BY <1>10, <1>11 DEF ModalLands

-----------------------------------------------------------------------------
(* Every step *)

LEMMA NextIInv == IInv /\ [FilesNext]_filesVars => IInv'
<1> SUFFICES ASSUME IInv, [FilesNext]_filesVars PROVE IInv'
  OBVIOUS
<1>1. CASE \E w \in Workers : WriteStep(w)
  BY <1>1, WriteKeeps
<1>2. CASE \E e \in Editors : SaveLands(e)
  BY <1>2, SaveLandsKeeps
<1>3. CASE EntryStep
  BY <1>3, EntryKeeps
<1>4. CASE ModalLands
  BY <1>4, ModalLandsKeeps
<1>5. CASE ReadFile
  BY <1>5, ReadKeeps
<1>6. CASE OpenLands
  BY <1>6, OpenLandsKeeps
<1>7. CASE \E text \in Texts : Type(text)
  BY <1>7, TypeKeeps
<1>8. CASE LoadGuarded
  BY <1>8, LoadGuardedKeeps
<1>9. CASE AnswerNo
  BY <1>9, AnswerNoKeeps
<1>10. CASE AnswerYes
  BY <1>10, AnswerYesKeeps
<1>11. CASE NewTab
  BY <1>11, NewTabKeeps
<1>12. CASE SwitchTab
  BY <1>12, SwitchTabKeeps
<1>13. CASE CloseTab
  BY <1>13, CloseTabKeeps
<1>14. CASE SaveBound
  BY <1>14, SaveBoundKeeps
<1>15. CASE SaveAs
  BY <1>15, SaveAsKeeps
<1>16. CASE PickerEnds
  BY <1>16, PickerKeeps
<1>17. CASE OpenModal
  BY <1>17, OpenModalKeeps
<1>18. CASE CancelModal
  BY <1>18, CancelModalKeeps
<1>19. CASE ConfirmModal
  BY <1>19, ConfirmKeeps
<1>20. CASE UNCHANGED filesVars
  <2>1. UNCHANGED <<disk, tmp, tabs, active, tab, modal, discard, picker, job, read, asks, crossed, gone, agreed>>
    BY <1>20 DEF filesVars, files, tabVars, dialogs, ghosts
  <2>2. FilesTypeOK'
    BY <2>1 DEF IInv, FilesTypeOK
  <2>3. JobsOK'
    BY <2>1 DEF IInv, JobsOK, Running
  <2>4. Calm'
    BY <2>1 DEF IInv, Calm, Alone, WholeOK, GoneOK, AskedOK, Running, GonePaths, Here
  <2> QED
    BY <2>2, <2>3, <2>4 DEF IInv
<1> QED
  BY <1>1, <1>2, <1>3, <1>4, <1>5, <1>6, <1>7, <1>8, <1>9, <1>10, <1>11, <1>12, <1>13, <1>14,
     <1>15, <1>16, <1>17, <1>18, <1>19, <1>20 DEF FilesNext, Background, User

(* The script library is sound as long as nobody moves on meanwhile: no    *)
(* file is half written, and a tab in which a file was deleted is bound to *)
(* it by nothing that was asked before (write_atomic, finish_script_delete,*)
(* script_open_abort_reason).                                              *)
THEOREM FilesAndBindings == FilesSpec => []FilesInv
<1>1. FilesInit => IInv
  BY InitIInv
<1>2. IInv /\ [FilesNext]_filesVars => IInv'
  BY NextIInv
<1>3. IInv => FilesInv
  BY DEF IInv, Calm, FilesInv, FilesAreWhole, DeletedIsUnbound, WholeOK, GoneOK
<1> QED
  BY <1>1, <1>2, <1>3, PTL DEF FilesSpec

-----------------------------------------------------------------------------
(* What a step does to the operation of one tab, and to the buffers. *)

(* Only the landing of a tab's own save takes its operation away. *)
LEMMA StaysOn ==
    ASSUME IInv, FilesNext, NEW e \in Editors, job[e].stage = "ok", job'[e].stage = "idle"
    PROVE  SaveLands(e)
<1>0. FilesTypeOK /\ JobsOK /\ job \in [Workers -> Jobs] /\ Editors \subseteq Workers
      /\ Dialog \in Workers /\ Dialog \notin Editors /\ active \in Editors
  BY CalmIs, Facts DEF FilesTypeOK
<1> SUFFICES ASSUME ~SaveLands(e) PROVE FALSE
  OBVIOUS
<1>1. ASSUME NEW w \in Workers, WriteStep(w) PROVE FALSE
  BY <1>0, <1>1, WriteIs
<1>2. ASSUME NEW d \in Editors, SaveLands(d) PROVE FALSE
  <2>1. job' = [job EXCEPT ![d] = Idle] /\ d # e
    BY <1>2 DEF SaveLands
  <2> QED
    BY <1>0, <2>1
<1>3. ASSUME EntryStep PROVE FALSE
  BY <1>0, <1>3, EntryIs
<1>4. ASSUME ModalLands PROVE FALSE
  <2>1. job' = [job EXCEPT ![Dialog] = Idle] /\ Dialog # e
    BY <1>0, <1>4 DEF ModalLands
  <2> QED
    BY <1>0, <2>1
<1>5. ASSUME NEW p, NEW text, SaveScript(p, text) PROVE FALSE
  <2>1. job' = [job EXCEPT ![active] = [stage |-> "create", path |-> p, text |-> text,
                                        generation |-> Here.generation]]
    BY <1>5 DEF SaveScript, Dispatch
  <2> QED
    BY <1>0, <2>1
<1>6. ASSUME ConfirmModal PROVE FALSE
  <2>1. PICK j : job' = [job EXCEPT ![Dialog] = j]
    BY <1>6 DEF ConfirmModal, Dispatch
  <2> QED
    BY <1>0, <2>1
<1>7. CASE job' = job
  BY <1>7
<1>8. CASE Background
  <2>1. ReadFile \/ OpenLands => job' = job
    BY DEF ReadFile, OpenLands
  <2> QED
    BY <1>1, <1>2, <1>3, <1>4, <1>7, <1>8, <2>1 DEF Background
<1>9. CASE User
  <2>1. (\E text \in Texts : Type(text)) \/ LoadGuarded \/ AnswerNo \/ AnswerYes \/ NewTab
          \/ SwitchTab \/ CloseTab \/ SaveAs \/ OpenModal \/ CancelModal => job' = job
    BY DEF Type, LoadGuarded, AnswerNo, AnswerYes, NewTab, SwitchTab, CloseTab, SaveAs, OpenModal,
           CancelModal
  <2>2. SaveBound => FALSE
    BY <1>5 DEF SaveBound
  <2>3. PickerEnds => FALSE
    BY <1>5, <1>7 DEF PickerEnds
  <2> QED
    BY <1>6, <1>7, <1>9, <2>1, <2>2, <2>3 DEF User
<1> QED
  BY <1>8, <1>9 DEF FilesNext

(* A save that lands with nothing crossed binds the tab it came from. *)
LEMMA LandingBinds ==
    ASSUME IInv, ~crossed, NEW e \in Editors, SaveLands(e), job[e].stage = "ok", StoodStill(e)
    PROVE  tab'[e].path = job[e].path /\ tab'[e].saved = disk[job[e].path]
<1>0. FilesTypeOK /\ JobsOK /\ Alone /\ WholeOK
  BY CalmIs
<1>1. /\ e = active /\ e \in tabs /\ e \in Workers /\ tab \in [Editors -> Buffers] /\ tab[e] \in Buffers
      /\ job[e].path \in Paths /\ job[e].text \in Contents /\ disk[job[e].path] = job[e].text
      /\ tab[e].generation = job[e].generation
  BY <1>0, Facts DEF Alone, WholeOK, Running, JobsOK, StoodStill, FilesTypeOK
<1>2. PICK u : u = [tab[e] EXCEPT !.saving = FALSE]
  OBVIOUS
<1>3. u \in Buffers /\ u.generation = tab[e].generation
  BY <1>1, <1>2 DEF Buffers
<1>4. PICK t : t = [tab EXCEPT ![e] = u]
  OBVIOUS
<1>5. t \in [Editors -> Buffers] /\ t[e] = u
  BY <1>1, <1>3, <1>4
<1>6. t = [tab EXCEPT ![e].saving = FALSE]
  BY <1>2, <1>4
<1>7. tab' = [t EXCEPT ![e] = Bound(u, job[e].path, job[e].text)]
  BY <1>1, <1>3, <1>5, <1>6 DEF SaveLands
<1>8. /\ Bound(u, job[e].path, job[e].text).path = job[e].path
      /\ Bound(u, job[e].path, job[e].text).saved = job[e].text
  BY <1>1, <1>3, BoundIs
<1> QED
  BY <1>1, <1>5, <1>7, <1>8

(* save_script's "phantom-clean caption": a tab that has stood still since *)
(* its save is bound to a file that holds what the tab calls saved.        *)
THEOREM SavesAreBound == FilesSpec => SavedIsOnDisk
<1>1. IInv /\ [FilesNext]_filesVars =>
        [\A e \in Editors : ~crossed /\ Saves(e) /\ StoodStill(e)
           => tab'[e].path = job[e].path /\ tab'[e].saved = disk[job[e].path]]_filesVars
  <2> SUFFICES ASSUME IInv, FilesNext, NEW e \in Editors, ~crossed, Saves(e), StoodStill(e)
               PROVE  tab'[e].path = job[e].path /\ tab'[e].saved = disk[job[e].path]
    OBVIOUS
  <2>1. job[e].stage = "ok" /\ job'[e].stage = "idle"
    BY DEF Saves
  <2>2. SaveLands(e)
    BY <2>1, StaysOn
  <2> QED
    BY <2>1, <2>2, LandingBinds
<1>2. FilesInit => IInv
  BY InitIInv
<1>3. IInv /\ [FilesNext]_filesVars => IInv'
  BY NextIInv
<1> QED
  BY <1>1, <1>2, <1>3, PTL DEF FilesSpec, SavedIsOnDisk

-----------------------------------------------------------------------------
(* Text that is dropped *)

Agrees == \A e \in Editors : ~crossed /\ Drops(e) /\ Dirty(e) => agreed'[e] = tab[e].buffer

(* Nothing is dropped where no tab closes and no buffer changes. *)
LEMMA NothingDrops ==
    ASSUME tabs \subseteq tabs', \A e \in Editors : tab'[e].buffer = tab[e].buffer
    PROVE  Agrees
BY DEF Agrees, Drops

(* Nothing but the active tab is dropped: what it asks for is agreed to. *)
LEMMA OnlyHere ==
    ASSUME FilesTypeOK, tabs' = tabs, NEW x, tab' = [tab EXCEPT ![active] = x],
           ~crossed /\ IsDirty(Here) /\ x.buffer # Here.buffer => agreed'[active] = Here.buffer
    PROVE  Agrees
<1>1. active \in Editors /\ tab \in [Editors -> Buffers] /\ Here = tab[active]
  BY Facts DEF FilesTypeOK, Here
<1>2. tab'[active] = x /\ \A e \in Editors \ {active} : tab'[e] = tab[e]
  BY <1>1
<1> QED
  BY <1>1, <1>2 DEF Agrees, Drops, Dirty

LEMMA PerformAgrees ==
    ASSUME FilesTypeOK, NEW a, NEW t, Perform(a, t), t.buffer = Here.buffer, tabs' = tabs,
           ~crossed /\ IsDirty(Here) => agreed'[active] = Here.buffer
    PROVE  Agrees
<1>1. \E x : tab' = [tab EXCEPT ![active] = x]
  BY DEF Perform
<1> QED
  BY <1>1, OnlyHere

LEMMA OpenAgrees ==
    ASSUME IInv, OpenLands
    PROVE  Agrees
<1>1. FilesTypeOK /\ (~crossed => AskedOK)
  BY CalmIs
<1>2. tabs' = tabs /\ agreed' = agreed /\ read # Nil
  BY DEF OpenLands, ghosts
<1>3. CASE MovedOn \/ read.result = Absent
  <2>1. tab' = tab
    BY <1>3 DEF OpenLands
  <2> QED
    BY <1>2, <2>1, NothingDrops
<1>4. CASE ~(MovedOn \/ read.result = Absent)
  <2>1. tab' = [tab EXCEPT ![active] = Replaced(tab[active], read.result, read.path)]
    BY <1>4 DEF OpenLands
  <2>2. ~crossed /\ IsDirty(Here) => agreed'[active] = Here.buffer
    BY <1>1, <1>2, <1>4 DEF MovedOn, AskedOK, IsDirty
  <2> QED
    BY <1>1, <1>2, <2>1, <2>2, OnlyHere
<1> QED
  BY <1>3, <1>4

LEMMA CloseTabAgrees ==
    ASSUME IInv, CloseTab
    PROVE  Agrees
<1>1. FilesTypeOK
  BY CalmIs
<1>2. CASE Dirty(active)
  <2>1. tabs' = tabs /\ tab' = tab
    BY <1>2 DEF CloseTab, tabVars
  <2> QED
    BY <2>1, NothingDrops
<1>3. CASE ~Dirty(active)
  <2>1. CloseClean(active, Busy)
    BY <1>3 DEF CloseTab
  <2>2. tab' = tab /\ \A e \in tabs : e # active => e \in tabs'
    BY <2>1 DEF CloseClean
  <2> QED
    BY <1>3, <2>2 DEF Agrees, Drops
<1> QED
  BY <1>2, <1>3

LEMMA AnswerYesAgrees ==
    ASSUME IInv, AnswerYes
    PROVE  Agrees
<1>1. FilesTypeOK /\ (~crossed => Alone)
  BY CalmIs
<1>2. active \in Editors /\ discard # Nil /\ (~crossed => discard.tab = active)
  BY <1>1, Facts DEF AnswerYes, Alone
<1>3. agreed \in [Editors -> Contents \cup {Nil}] /\ Here = tab[active]
  BY <1>1 DEF FilesTypeOK, Here
<1>4. agreed' = [agreed EXCEPT ![discard.tab] = tab[discard.tab].buffer]
  BY DEF AnswerYes
<1>5. ~crossed => agreed'[active] = Here.buffer
  BY <1>2, <1>3, <1>4
<1>6. CASE discard.kind = "close" /\ discard.tab \in tabs
  <2>1. CloseClean(discard.tab, Pending)
    BY <1>6 DEF AnswerYes
  <2>2. tab' = tab /\ \A e \in tabs : e # discard.tab => e \in tabs'
    BY <2>1 DEF CloseClean
  <2> QED
    BY <1>2, <1>3, <1>5, <2>2 DEF Agrees, Drops
<1>7. CASE discard.kind = "close" /\ discard.tab \notin tabs
  <2>1. tabs' = tabs /\ tab' = tab
    BY <1>7 DEF AnswerYes, tabVars
  <2> QED
    BY <2>1, NothingDrops
<1>8. CASE discard.kind # "close"
  <2>1. Perform(discard, [Here EXCEPT !.grant = Here.generation]) /\ tabs' = tabs
    BY <1>8 DEF AnswerYes
  <2>2. [Here EXCEPT !.grant = Here.generation].buffer = Here.buffer
    BY <1>1, Facts DEF Buffers
  <2> QED
    BY <1>1, <1>5, <2>1, <2>2, PerformAgrees
<1> QED
  BY <1>6, <1>7, <1>8

LEMMA NextAgrees ==
    ASSUME IInv, FilesNext
    PROVE  (\E text \in Texts : Type(text)) \/ Agrees
<1>0. /\ FilesTypeOK /\ JobsOK /\ Here \in Buffers /\ Here = tab[active] /\ active \in Editors
      /\ tab \in [Editors -> Buffers]
  BY CalmIs, Facts DEF Here, FilesTypeOK
<1>1. ASSUME NEW p, NEW text, SaveScript(p, text), tabs' = tabs PROVE Agrees
  <2>1. tab' = [tab EXCEPT ![active] = [Here EXCEPT !.saving = TRUE]]
    BY <1>1 DEF SaveScript, Here
  <2>2. [Here EXCEPT !.saving = TRUE].buffer = Here.buffer
    BY <1>0 DEF Buffers
  <2> QED
    BY <1>0, <1>1, <2>1, <2>2, OnlyHere
<1>2. ASSUME tabs \subseteq tabs', tab' = tab PROVE Agrees
  BY <1>2, NothingDrops
<1>3. CASE Background
  <2>1. ASSUME NEW w \in Workers, WriteStep(w) PROVE Agrees
    BY <1>2, <2>1 DEF WriteStep, tabVars
  <2>2. ASSUME NEW e \in Editors, SaveLands(e) PROVE Agrees
    <3>1. tabs' = tabs
      BY <2>2 DEF SaveLands
    <3>2. \A d \in Editors : tab'[d].buffer = tab[d].buffer
      BY <1>0, <2>2, SaveLandsIs
    <3> QED
      BY <3>1, <3>2, NothingDrops
  <2>3. EntryStep \/ ReadFile => Agrees
    BY <1>2 DEF EntryStep, ReadFile, tabVars
  <2>4. ASSUME ModalLands PROVE Agrees
    <3>1. tabs' = tabs
      BY <2>4 DEF ModalLands
    <3>2. CASE job[Dialog].stage = "ok"
      <4>1. PICK x \in Buffers : tab' = [tab EXCEPT ![active] = x] /\ x.buffer = Here.buffer
        BY <1>0, <2>4, <3>2, ModalLandsIs
      <4> QED
        BY <1>0, <3>1, <4>1, OnlyHere
    <3>3. CASE job[Dialog].stage = "failed"
      BY <1>2, <2>4, <3>1, <3>3 DEF ModalLands
    <3> QED
      BY <2>4, <3>2, <3>3 DEF ModalLands
  <2> QED
    BY <1>3, <2>1, <2>2, <2>3, <2>4, OpenAgrees DEF Background
<1>4. CASE User
  <2>1. AnswerNo \/ NewTab \/ SwitchTab \/ SaveAs \/ OpenModal \/ CancelModal \/ ConfirmModal => Agrees
    BY <1>2 DEF AnswerNo, NewTab, SwitchTab, SaveAs, OpenModal, CancelModal, ConfirmModal, tabVars
  <2>2. SaveBound => Agrees
    BY <1>1 DEF SaveBound
  <2>3. PickerEnds => Agrees
    BY <1>1, <1>2 DEF PickerEnds
  <2>4. ASSUME LoadGuarded PROVE Agrees
    <3>1. tabs' = tabs
      BY <2>4 DEF LoadGuarded
    <3>2. PICK a \in Commands : IF Dirty(active) THEN discard' = a /\ UNCHANGED <<tab, read>>
                                ELSE Perform(a, Here) /\ UNCHANGED discard
      BY <2>4 DEF LoadGuarded
    <3>3. CASE Dirty(active)
      BY <1>2, <3>1, <3>2, <3>3
    <3>4. CASE ~Dirty(active)
      <4>1. ~IsDirty(Here)
        BY <3>4 DEF Dirty, Here
      <4> QED
        BY <1>0, <3>1, <3>2, <3>4, <4>1, PerformAgrees
    <3> QED
      BY <3>3, <3>4
  <2> QED
    BY <1>4, <2>1, <2>2, <2>3, <2>4, AnswerYesAgrees, CloseTabAgrees DEF User
<1> QED
  BY <1>3, <1>4 DEF FilesNext

(* Unsaved text is not dropped unless the user has agreed to lose that     *)
(* very text (editor_load_guarded, with_editor_replaceable).               *)
THEOREM TextIsAskedFor == FilesSpec => NothingUnasked
<1>1. IInv /\ [FilesNext]_filesVars =>
        [(\E text \in Texts : Type(text)) \/
         \A e \in Editors : ~crossed /\ Drops(e) /\ Dirty(e) => agreed'[e] = tab[e].buffer]_filesVars
  BY NextAgrees DEF Agrees
<1>2. FilesInit => IInv
  BY InitIInv
<1>3. IInv /\ [FilesNext]_filesVars => IInv'
  BY NextIInv
<1> QED
  BY <1>1, <1>2, <1>3, PTL DEF FilesSpec, NothingUnasked
=============================================================================
