------------------------ MODULE FanOutAndWriteProofs ------------------------
(***************************************************************************)
(* Theorems about RunTargets, for every number of targets, slots and       *)
(* channel capacities; and about WriteTx, for every number of statements   *)
(* and sessions, every choice of engines and of checked statements: the    *)
(* batch is never split, and what the caller is told of it is true.        *)
(***************************************************************************)
EXTENDS RunTargets, WriteTx, SessionProofs, FiniteSetTheorems, SequenceTheorems, TLAPS

(* The indices from next on are exactly the queued ones; a body is running *)
(* only inside its task, and has not run before its task started.          *)
Shape ==
    /\ \A i \in Targets : task[i] = "queued" <=> i >= next
    /\ \A i \in Targets : body[i] = "running" => task[i] = "body"
    /\ \A i \in Targets : task[i] \in {"queued", "starting", "refused"} => body[i] = "none"

(* The cut-off is taken when the token fires; its targets stay out.        *)
CutoffStaysOut ==
    /\ ~cancel => cutoff = {}
    /\ \A i \in cutoff : task[i] \in {"queued", "refused"}

(* A forwarder that is sending has an event to send.                       *)
ForwarderHolds == \A i \in Targets : fwd[i] = "send" => held[i] # 0

IInv == TypeOK /\ Shape /\ CutoffStaysOut /\ PermitsConserved /\ ForwarderHolds

(* What each kind of step is shown to preserve; ForwarderHolds comes apart. *)
Core == TypeOK /\ Shape /\ CutoffStaysOut /\ PermitsConserved

-----------------------------------------------------------------------------
LEMMA SlotsType == Slots \in Nat \ {0}
BY RunTargetsAssumption DEF Slots

LEMMA TargetsFinite == IsFiniteSet(Targets) /\ Cardinality(Targets) = N
<1>1. N \in Nat
  BY RunTargetsAssumption
<1>2. 0 \in Int /\ N - 1 \in Int
  BY <1>1
<1>3. IsFiniteSet(0 .. N - 1)
      /\ Cardinality(0 .. N - 1) = IF 0 > N - 1 THEN 0 ELSE (N - 1) - 0 + 1
  BY <1>2, FS_Interval
<1> QED BY <1>1, <1>3 DEF Targets

(* The events the tasks send are events of the channel.                    *)
LEMMA EventTypes ==
    /\ \A i \in Targets : Started(i) \in Events
    /\ \A i \in Targets : \A h \in 1 .. MaxEvents : Inner(i, h) \in Events
    /\ \A i \in Targets : \A o \in Outcomes : Finished(i, o) \in Events
BY DEF Events

(* A send appends to the channel or leaves it alone.                       *)
LEMMA SendType ==
    ASSUME NEW e \in Events, chan \in Seq(Events), Send(e)
    PROVE  chan' \in Seq(Events)
BY DEF Send

(* A set of targets that gains or loses one member changes size by one.    *)
LEMMA CardinalityStep ==
    ASSUME NEW S \in SUBSET Targets, NEW i \in Targets
    PROVE  /\ IsFiniteSet(S)
           /\ Cardinality(S) \in Nat
           /\ i \notin S => Cardinality(S \cup {i}) = Cardinality(S) + 1
           /\ i \in S => Cardinality(S \ {i}) = Cardinality(S) - 1
<1>1. IsFiniteSet(S)
  BY TargetsFinite, FS_Subset
<1>2. Cardinality(S) \in Nat
  BY <1>1, FS_CardinalityType
<1>3. i \notin S => Cardinality(S \cup {i}) = Cardinality(S) + 1
  BY <1>1, FS_AddElement
<1>4. i \in S => Cardinality(S \ {i}) = Cardinality(S) - 1
  BY <1>1, FS_RemoveElement
<1> QED BY <1>1, <1>2, <1>3, <1>4

LEMMA AdmittedType ==
    Admitted \in SUBSET Targets /\ IsFiniteSet(Admitted) /\ Cardinality(Admitted) \in Nat
<1>1. Admitted \in SUBSET Targets
  BY DEF Admitted
<1> QED BY <1>1, TargetsFinite, FS_Subset, FS_CardinalityType

-----------------------------------------------------------------------------
LEMMA InitIInv == Init => IInv
<1> SUFFICES ASSUME Init PROVE IInv
  OBVIOUS
<1> USE RunTargetsAssumption DEF Init
<1>1. TypeOK
  <2>1. next \in 0 .. N /\ permits \in 0 .. Slots
    BY SlotsType
  <2>2. /\ loop \in {"select", "poll", "recheck", "report", "join", "returned"}
        /\ loop \in {"join", "returned"} <=> next = N
    OBVIOUS
  <2>3. /\ task \in [Targets -> {"queued", "starting", "body", "finish",
                                 "release", "done", "refused"}]
        /\ body \in [Targets -> {"none", "running"} \cup Results]
        /\ made \in [Targets -> 0 .. MaxEvents]
        /\ fwd \in [Targets -> {"none", "recv", "send", "ended"}]
        /\ held \in [Targets -> 0 .. MaxEvents]
    OBVIOUS
  <2>4. /\ inner \in [Targets -> Seq(1 .. MaxEvents)]
        /\ chan \in Seq(Events)
        /\ seen \in [Targets -> Seq(Events)]
    OBVIOUS
  <2> QED BY <2>1, <2>2, <2>3, <2>4 DEF TypeOK
<1>2. Shape
  BY DEF Shape, Targets
<1>3. CutoffStaysOut
  BY DEF CutoffStaysOut
<1>4. PermitsConserved
  <2>1. Admitted = {}
    BY DEF Admitted
  <2>2. LoopHolds = 0
    BY DEF LoopHolds
  <2> QED BY <2>1, <2>2, SlotsType, FS_EmptySet DEF PermitsConserved
<1>5. ForwarderHolds
  BY DEF ForwarderHolds
<1> QED BY <1>1, <1>2, <1>3, <1>4, <1>5 DEF IInv

-----------------------------------------------------------------------------
(* Free permits stay within the semaphore when they are conserved.         *)
LEMMA PermitsBound ==
    ASSUME PermitsConserved', permits' \in Nat
    PROVE  permits' \in 0 .. Slots
<1>1. Admitted' \in SUBSET Targets
  BY DEF Admitted, Targets
<1>2. Cardinality(Admitted') \in Nat
  BY <1>1, TargetsFinite, FS_Subset, FS_CardinalityType
<1>3. LoopHolds' \in {0, 1}
  BY DEF LoopHolds
<1> QED BY <1>2, <1>3, SlotsType DEF PermitsConserved, Slots

(* A step that leaves the holders of permits alone conserves them.         *)
LEMMA HoldersUnchanged ==
    ASSUME IInv, UNCHANGED permits, Admitted' = Admitted, LoopHolds' = LoopHolds
    PROVE  PermitsConserved'
BY DEF IInv, PermitsConserved, Slots

LEMMA LoopSteps ==
    ASSUME IInv, AdmissionLoop
    PROVE  Core'
<1> USE RunTargetsAssumption
<1> DEFINE InLoop == loop \notin {"join", "returned"}
<1>0. InLoop => next \in Targets /\ next < N /\ next + 1 \in 0 .. N
  BY DEF IInv, TypeOK, Targets
<1>1. CASE SelectCancelled \/ SelectNotCancelled \/ Pending
  <2>1. /\ loop \in {"select", "poll"} /\ loop' \in {"report", "poll", "select"}
        /\ UNCHANGED <<token, next, permits, task, perTask, channel>>
    BY <1>1 DEF SelectCancelled, SelectNotCancelled, Pending
  <2>2. TypeOK'
    BY <2>1 DEF IInv, TypeOK, token, perTask, channel
  <2>3. Shape' /\ CutoffStaysOut'
    BY <2>1 DEF IInv, Shape, CutoffStaysOut, token, perTask
  <2>4. PermitsConserved'
    BY <2>1, HoldersUnchanged DEF Admitted, LoopHolds
  <2> QED BY <2>2, <2>3, <2>4 DEF Core
<1>2. CASE Acquire
  <2>1. Shape' /\ CutoffStaysOut'
    BY <1>2 DEF Acquire, IInv, Shape, CutoffStaysOut, token, perTask
  <2>2. PermitsConserved'
    <3>1. Admitted' = Admitted
      BY <1>2 DEF Acquire, Admitted
    <3>2. LoopHolds = 0 /\ LoopHolds' = 1
      BY <1>2 DEF Acquire, LoopHolds
    <3> QED
      BY <1>2, <3>1, <3>2, AdmittedType, SlotsType DEF Acquire, IInv, TypeOK, PermitsConserved, Slots
  <2>3. TypeOK'
    BY <1>2, SlotsType DEF Acquire, IInv, TypeOK, token, perTask, channel
  <2> QED BY <2>1, <2>2, <2>3 DEF Core
<1>3. CASE RecheckCancelled
  <2>1. Shape' /\ CutoffStaysOut'
    BY <1>3 DEF RecheckCancelled, IInv, Shape, CutoffStaysOut, token, perTask
  <2>2. PermitsConserved'
    <3>1. Admitted' = Admitted
      BY <1>3 DEF RecheckCancelled, Admitted
    <3>2. LoopHolds = 1 /\ LoopHolds' = 0
      BY <1>3 DEF RecheckCancelled, LoopHolds
    <3> QED
      BY <1>3, <3>1, <3>2, AdmittedType, SlotsType DEF RecheckCancelled, IInv, TypeOK, PermitsConserved, Slots
  <2>3. permits' \in Nat
    BY <1>3, SlotsType DEF RecheckCancelled, IInv, TypeOK
  <2>4. permits' \in 0 .. Slots
    BY <2>2, <2>3, PermitsBound
  <2>5. TypeOK'
    BY <1>3, <2>4 DEF RecheckCancelled, IInv, TypeOK, token, perTask, channel
  <2> QED BY <2>1, <2>2, <2>5 DEF Core
<1>4. CASE Admit
  <2>0. next \in Targets /\ next < N /\ next + 1 \in 0 .. N
    BY <1>0, <1>4 DEF Admit
  <2>1. Shape'
    <3>1. /\ next' = next + 1
          /\ task' = [task EXCEPT ![next] = "starting"]
          /\ UNCHANGED body
      BY <1>4 DEF Admit, Advance, perTask
    <3>2. ASSUME NEW i \in Targets
          PROVE  task'[i] = "queued" <=> i >= next'
      <4>1. i >= next + 1 <=> (i >= next /\ i # next)
        BY <2>0 DEF Targets
      <4> QED BY <2>0, <3>1, <4>1 DEF IInv, TypeOK, Shape
    <3>3. body[next] = "none" /\ body'[next] = "none"
      BY <2>0, <3>1 DEF IInv, Shape, Targets
    <3>4. \A i \in Targets : i # next => task'[i] = task[i]
      BY <3>1 DEF IInv, TypeOK
    <3> QED BY <3>1, <3>2, <3>3, <3>4 DEF IInv, Shape
  <2>2. CutoffStaysOut'
    BY <1>4, <2>0 DEF Admit, IInv, TypeOK, CutoffStaysOut, token
  <2>3. PermitsConserved'
    <3>1. next \notin Admitted
      BY <1>4, <2>0 DEF Admit, Admitted, IInv, Shape, TypeOK
    <3>2. Admitted' = Admitted \cup {next}
      BY <1>4, <2>0 DEF Admit, Admitted, IInv, TypeOK
    <3>3. LoopHolds = 1 /\ LoopHolds' = 0
      BY <1>4 DEF Admit, Advance, LoopHolds
    <3>4. Cardinality(Admitted') = Cardinality(Admitted) + 1
      BY <2>0, <3>1, <3>2, AdmittedType, CardinalityStep
    <3> QED
      BY <1>4, <3>3, <3>4, AdmittedType, SlotsType DEF Admit, IInv, TypeOK, PermitsConserved, Slots
  <2>4. TypeOK'
    BY <1>4, <2>0 DEF Admit, Advance, IInv, TypeOK, token, perTask, channel
  <2> QED BY <2>1, <2>2, <2>3, <2>4 DEF Core
<1>5. CASE ReportCancelled
  <2>0. next \in Targets /\ next < N /\ next + 1 \in 0 .. N
    BY <1>0, <1>5 DEF ReportCancelled
  <2>1. Shape'
    <3>1. /\ next' = next + 1
          /\ task' = [task EXCEPT ![next] = "refused"]
          /\ UNCHANGED body
      BY <1>5 DEF ReportCancelled, Advance, perTask
    <3>2. ASSUME NEW i \in Targets
          PROVE  task'[i] = "queued" <=> i >= next'
      <4>1. i >= next + 1 <=> (i >= next /\ i # next)
        BY <2>0 DEF Targets
      <4> QED BY <2>0, <3>1, <4>1 DEF IInv, TypeOK, Shape
    <3>3. body[next] = "none" /\ body'[next] = "none"
      BY <2>0, <3>1 DEF IInv, Shape, Targets
    <3>4. \A i \in Targets : i # next => task'[i] = task[i]
      BY <3>1 DEF IInv, TypeOK
    <3> QED BY <3>1, <3>2, <3>3, <3>4 DEF IInv, Shape
  <2>2. CutoffStaysOut'
    BY <1>5, <2>0 DEF ReportCancelled, IInv, TypeOK, CutoffStaysOut, token
  <2>3. PermitsConserved'
    <3>1. Admitted' = Admitted
      BY <1>5, <2>0 DEF ReportCancelled, Admitted, IInv, Shape, TypeOK
    <3>2. LoopHolds' = LoopHolds
      BY <1>5 DEF ReportCancelled, Advance, LoopHolds
    <3> QED BY <1>5, <3>1, <3>2, HoldersUnchanged DEF ReportCancelled
  <2>4. chan' \in Seq(Events)
    BY <1>5, <2>0, EventTypes, SendType DEF ReportCancelled, IInv, TypeOK, Outcomes
  <2>5. TypeOK'
    BY <1>5, <2>0, <2>4 DEF ReportCancelled, Advance, IInv, TypeOK, token, perTask
  <2> QED BY <2>1, <2>2, <2>3, <2>5 DEF Core
<1>6. CASE Join
  <2>1. TypeOK'
    BY <1>6 DEF Join, IInv, TypeOK, token, perTask, channel
  <2>2. Shape' /\ CutoffStaysOut'
    BY <1>6 DEF Join, IInv, Shape, CutoffStaysOut, token, perTask
  <2>3. PermitsConserved'
    BY <1>6, HoldersUnchanged DEF Join, Admitted, LoopHolds
  <2> QED BY <2>1, <2>2, <2>3 DEF Core
<1> QED BY <1>1, <1>2, <1>3, <1>4, <1>5, <1>6 DEF AdmissionLoop

LEMMA TaskSteps ==
    ASSUME IInv, NEW i \in Targets, Task(i)
    PROVE  Core'
<1> USE RunTargetsAssumption
(* Whatever the task does, it is not queued before or after.               *)
<1>1. /\ task[i] \in {"starting", "body", "finish", "release"}
      /\ task'[i] \in {"body", "finish", "release", "done"}
      /\ task[i] = "starting" => task'[i] = "body"
      /\ task[i] # "starting" => task'[i] # "body"
      /\ \A j \in Targets : j # i => task'[j] = task[j]
      /\ body' = IF task[i] = "starting" THEN [body EXCEPT ![i] = "running"] ELSE body
      /\ UNCHANGED <<next, loop, token>>
  BY DEF Task, TaskStart, TaskAwaited, TaskFinish, TaskRelease, IInv, TypeOK,
         admission, perTask
<1>2. task[i] = "body" => body[i] # "running"
  <2>1. CASE TaskAwaited(i)
    BY <2>1 DEF TaskAwaited, Results
  <2> QED BY <2>1 DEF Task, TaskStart, TaskFinish, TaskRelease
<1>3. Shape'
  <2>1. \A j \in Targets : task'[j] = "queued" <=> j >= next'
    BY <1>1 DEF IInv, Shape
  <2>2. \A j \in Targets : body'[j] = "running" => task'[j] = "body"
    <3>1. CASE task[i] = "starting"
      BY <1>1, <3>1 DEF IInv, Shape, TypeOK
    <3>2. CASE task[i] # "starting"
      BY <1>1, <1>2, <3>2 DEF IInv, Shape, TypeOK
    <3> QED BY <3>1, <3>2
  <2>3. \A j \in Targets :
          task'[j] \in {"queued", "starting", "refused"} => body'[j] = "none"
    BY <1>1 DEF IInv, Shape, TypeOK
  <2> QED BY <2>1, <2>2, <2>3 DEF Shape
<1>4. CutoffStaysOut'
  BY <1>1 DEF IInv, CutoffStaysOut, TypeOK, token
<1>5. LoopHolds' = LoopHolds
  BY <1>1 DEF LoopHolds
<1>6. CASE TaskRelease(i)
  <2>1. PermitsConserved'
    <3>1. i \in Admitted /\ Admitted' = Admitted \ {i}
      BY <1>6 DEF TaskRelease, Admitted, IInv, TypeOK
    <3>2. Cardinality(Admitted') = Cardinality(Admitted) - 1
      BY <3>1, AdmittedType, CardinalityStep
    <3>3. LoopHolds \in {0, 1}
      BY DEF LoopHolds
    <3> QED
      BY <1>5, <1>6, <3>2, <3>3, AdmittedType, SlotsType DEF TaskRelease, IInv, TypeOK, PermitsConserved, Slots
  <2>2. permits' \in Nat
    BY <1>6, SlotsType DEF TaskRelease, IInv, TypeOK
  <2>3. permits' \in 0 .. Slots
    BY <2>1, <2>2, PermitsBound
  <2>4. TypeOK'
    BY <1>6, <2>3 DEF TaskRelease, IInv, TypeOK, token, perTask, channel
  <2> QED BY <1>3, <1>4, <2>1, <2>4 DEF Core
<1>7. CASE TaskStart(i) \/ TaskAwaited(i) \/ TaskFinish(i)
  <2>1. Admitted' = Admitted
    BY <1>7, <1>1 DEF TaskStart, TaskAwaited, TaskFinish, Admitted, IInv, TypeOK
  <2>2. UNCHANGED permits
    BY <1>7 DEF TaskStart, TaskAwaited, TaskFinish, admission
  <2>3. PermitsConserved'
    BY <1>5, <2>1, <2>2, HoldersUnchanged
  <2>4. chan' \in Seq(Events)
    <3>1. CASE TaskStart(i)
      BY <3>1, EventTypes, SendType DEF TaskStart, IInv, TypeOK
    <3>2. CASE TaskAwaited(i)
      BY <3>2 DEF TaskAwaited, channel, IInv, TypeOK
    <3>3. CASE TaskFinish(i)
      <4>1. Finished(i, OutcomeOf(body[i])) \in Events
        BY EventTypes DEF OutcomeOf, Outcomes
      <4> QED BY <3>3, <4>1, SendType DEF TaskFinish, IInv, TypeOK
    <3> QED BY <1>7, <3>1, <3>2, <3>3
  <2>5. TypeOK'
    <3>1. CASE TaskStart(i)
      BY <3>1, <2>4 DEF TaskStart, IInv, TypeOK, token, admission
    <3>2. CASE TaskAwaited(i)
      BY <3>2, <2>4 DEF TaskAwaited, IInv, TypeOK, token, admission, perTask, channel
    <3>3. CASE TaskFinish(i)
      BY <3>3, <2>4 DEF TaskFinish, IInv, TypeOK, token, admission, perTask
    <3> QED BY <1>7, <3>1, <3>2, <3>3
  <2> QED BY <1>3, <1>4, <2>3, <2>5 DEF Core
<1> QED BY <1>6, <1>7 DEF Task

(* The body and the forwarder touch neither tasks nor permits.             *)
LEMMA BodySteps ==
    ASSUME IInv, NEW i \in Targets, BodyEmit(i) \/ BodyEnd(i) \/ Forwarder(i)
    PROVE  Core'
<1> USE RunTargetsAssumption
<1>1. /\ UNCHANGED <<token, admission, task>>
      /\ UNCHANGED body \/ \E r \in Results : body' = [body EXCEPT ![i] = r]
  BY DEF BodyEmit, BodyEnd, Forwarder, ForwardRecv, ForwardSend, ForwardEnd
<1>2. body' # body => body[i] = "running"
  BY DEF BodyEmit, BodyEnd, Forwarder, ForwardRecv, ForwardSend, ForwardEnd
<1>3. Shape'
  <2>1. \A j \in Targets : body'[j] # body[j] => j = i /\ body[i] = "running" /\ body'[i] \in Results
    BY <1>1, <1>2 DEF IInv, TypeOK
  <2>2. \A r \in Results : r # "running"
    BY DEF Results
  <2> QED BY <1>1, <2>1, <2>2 DEF IInv, Shape, admission
<1>4. CutoffStaysOut'
  BY <1>1 DEF IInv, CutoffStaysOut, token
<1>5. PermitsConserved'
  BY <1>1, HoldersUnchanged DEF Admitted, LoopHolds, admission
<1>6. TypeOK'
  <2>1. CASE BodyEmit(i)
    <3>1. made[i] + 1 \in 1 .. MaxEvents /\ made' \in [Targets -> 0 .. MaxEvents]
      BY <2>1 DEF BodyEmit, IInv, TypeOK
    <3>2. inner' \in [Targets -> Seq(1 .. MaxEvents)]
      <4>1. CASE fwd[i] = "ended"
        BY <2>1, <4>1 DEF BodyEmit, IInv, TypeOK
      <4>2. CASE fwd[i] # "ended"
        <5>1. Append(inner[i], made[i] + 1) \in Seq(1 .. MaxEvents)
          BY <3>1 DEF IInv, TypeOK
        <5> QED BY <2>1, <4>2, <5>1 DEF BodyEmit, IInv, TypeOK
      <4> QED BY <4>1, <4>2
    <3> QED BY <2>1, <3>1, <3>2 DEF BodyEmit, IInv, TypeOK, token, admission, channel
  <2>2. CASE BodyEnd(i)
    BY <2>2 DEF BodyEnd, IInv, TypeOK, token, admission, channel
  <2>3. CASE ForwardRecv(i)
    <3>1. Head(inner[i]) \in 1 .. MaxEvents /\ Tail(inner[i]) \in Seq(1 .. MaxEvents)
      BY <2>3 DEF ForwardRecv, IInv, TypeOK
    <3> QED BY <2>3, <3>1 DEF ForwardRecv, IInv, TypeOK, token, admission, channel
  <2>4. CASE ForwardSend(i)
    <3>1. held[i] \in 1 .. MaxEvents
      BY <2>4 DEF ForwardSend, IInv, TypeOK, ForwarderHolds
    <3>2. chan' \in Seq(Events)
      BY <2>4, <3>1, EventTypes, SendType DEF ForwardSend, IInv, TypeOK
    <3>3. inner' \in [Targets -> Seq(1 .. MaxEvents)]
      <4>1. CASE rxOpen
        BY <2>4, <4>1 DEF ForwardSend, IInv, TypeOK
      <4>2. CASE ~rxOpen
        <5>1. <<>> \in Seq(1 .. MaxEvents)
          OBVIOUS
        <5> QED BY <2>4, <4>2, <5>1 DEF ForwardSend, IInv, TypeOK
      <4> QED BY <4>1, <4>2
    <3> QED BY <2>4, <3>2, <3>3 DEF ForwardSend, IInv, TypeOK, token, admission
  <2>5. CASE ForwardEnd(i)
    BY <2>5 DEF ForwardEnd, IInv, TypeOK, token, admission, channel
  <2> QED BY <2>1, <2>2, <2>3, <2>4, <2>5 DEF Forwarder
<1> QED BY <1>3, <1>4, <1>5, <1>6 DEF Core

LEMMA ConsumerSteps ==
    ASSUME IInv, Receive \/ DropReceiver \/ Cancel \/ UNCHANGED vars
    PROVE  Core'
<1> USE RunTargetsAssumption
<1>1. UNCHANGED <<admission, task, perTask>>
  BY DEF Receive, DropReceiver, Cancel, vars, admission, perTask
<1>2. Shape'
  BY <1>1 DEF IInv, Shape, admission, perTask
<1>3. PermitsConserved'
  BY <1>1, HoldersUnchanged DEF Admitted, LoopHolds, admission
<1>4. CutoffStaysOut'
  <2>1. CASE Cancel
    BY <2>1 DEF Cancel, CutoffStaysOut
  <2>2. CASE ~Cancel
    BY <1>1, <2>2 DEF IInv, Receive, DropReceiver, CutoffStaysOut, token, vars
  <2> QED BY <2>1, <2>2
<1>5. TypeOK'
  <2>1. CASE Receive
    <3>1. Head(chan) \in Events /\ Tail(chan) \in Seq(Events)
      BY <2>1 DEF Receive, IInv, TypeOK
    <3>2. Head(chan).ix \in Targets
      BY <3>1 DEF Events, Started, Inner, Finished
    <3>3. Append(seen[Head(chan).ix], Head(chan)) \in Seq(Events)
      BY <3>1, <3>2 DEF IInv, TypeOK
    <3> QED BY <2>1, <3>1, <3>2, <3>3 DEF Receive, IInv, TypeOK, token, admission, perTask
  <2>2. CASE DropReceiver
    <3>1. chan' \in Seq(Events)
      BY <2>2 DEF DropReceiver
    <3> QED BY <2>2, <3>1 DEF DropReceiver, IInv, TypeOK, token, admission, perTask
  <2>3. CASE Cancel
    <3>1. cutoff' \in SUBSET Targets
      BY <2>3 DEF Cancel
    <3> QED BY <2>3, <3>1 DEF Cancel, IInv, TypeOK, admission, perTask, channel
  <2>4. CASE UNCHANGED vars
    BY <2>4 DEF IInv, TypeOK, vars
  <2> QED BY <2>1, <2>2, <2>3, <2>4
<1> QED BY <1>2, <1>3, <1>4, <1>5 DEF Core

LEMMA ForwarderStep ==
    ASSUME IInv, [Next]_vars
    PROVE  ForwarderHolds'
<1>1. CASE UNCHANGED <<fwd, held>>
  BY <1>1 DEF IInv, ForwarderHolds
<1>2. CASE \E i \in Targets : TaskStart(i) \/ Forwarder(i)
  <2>1. PICK i \in Targets : TaskStart(i) \/ Forwarder(i)
    BY <1>2
  <2>2. \A j \in Targets : j # i => fwd'[j] = fwd[j] /\ held'[j] = held[j]
    BY <2>1 DEF TaskStart, Forwarder, ForwardRecv, ForwardSend, ForwardEnd, IInv, TypeOK
  <2>3. fwd'[i] = "send" => held'[i] # 0
    <3>1. CASE ForwardRecv(i)
      <4>1. Head(inner[i]) \in 1 .. MaxEvents
        BY <3>1, RunTargetsAssumption DEF ForwardRecv, IInv, TypeOK
      <4> QED BY <3>1, <4>1, RunTargetsAssumption DEF ForwardRecv, IInv, TypeOK
    <3>2. CASE TaskStart(i) \/ ForwardSend(i) \/ ForwardEnd(i)
      BY <3>2 DEF TaskStart, ForwardSend, ForwardEnd, IInv, TypeOK
    <3> QED BY <2>1, <3>1, <3>2 DEF Forwarder
  <2> QED BY <2>2, <2>3 DEF IInv, ForwarderHolds
<1>3. CASE Next /\ ~\E i \in Targets : TaskStart(i) \/ Forwarder(i)
  <2>1. UNCHANGED <<fwd, held>>
    BY <1>3 DEF Next, AdmissionLoop, SelectCancelled, SelectNotCancelled, Acquire, Pending,
                RecheckCancelled, Admit, ReportCancelled, Join, Task, TaskAwaited, TaskFinish,
                TaskRelease, BodyEmit, BodyEnd, Receive, DropReceiver, Cancel, Over, perTask, vars
  <2> QED BY <1>1, <2>1
<1> QED BY <1>1, <1>2, <1>3 DEF vars

LEMMA StepIInv == IInv /\ [Next]_vars => IInv'
<1> SUFFICES ASSUME IInv, [Next]_vars PROVE IInv'
  OBVIOUS
<1>1. ForwarderHolds'
  BY ForwarderStep
<1>2. Core'
  <2>1. CASE AdmissionLoop
    BY <2>1, LoopSteps
  <2>2. CASE \E i \in Targets : Task(i)
    BY <2>2, TaskSteps
  <2>3. CASE \E i \in Targets : BodyEmit(i) \/ BodyEnd(i) \/ Forwarder(i)
    BY <2>3, BodySteps
  <2>4. CASE Receive \/ DropReceiver \/ Cancel \/ UNCHANGED vars
    BY <2>4, ConsumerSteps
  <2> QED BY <2>1, <2>2, <2>3, <2>4 DEF Next, Over
<1> QED BY <1>1, <1>2 DEF Core, IInv

LEMMA Invariance == Spec => []IInv
BY InitIInv, StepIInv, PTL DEF Spec

-----------------------------------------------------------------------------
(* The variables of run_targets keep their types; in particular the        *)
(* semaphore never holds more permits than it was created with.            *)
THEOREM TypeCorrect == Spec => []TypeOK
<1>1. IInv => TypeOK
  BY DEF IInv
<1> QED BY <1>1, Invariance, PTL

(* No path of the loop or of a task leaks or mints a permit.               *)
THEOREM PermitConservation == Spec => []PermitsConserved
<1>1. IInv => PermitsConserved
  BY DEF IInv
<1> QED BY <1>1, Invariance, PTL

(* A target without a slot when the token fires never runs its body.       *)
THEOREM CancelledTargetsNeverRun == Spec => []CancelledNeverRuns
<1>1. IInv => CancelledNeverRuns
  BY DEF IInv, Shape, CutoffStaysOut, CancelledNeverRuns, TypeOK
<1> QED BY <1>1, Invariance, PTL

(* At most max_parallel.max(1) bodies run at once.                         *)
THEOREM BoundedParallelism == Spec => []AtMostSlotsRun
<1>1. IInv => AtMostSlotsRun
  <2> SUFFICES ASSUME IInv PROVE AtMostSlotsRun
    OBVIOUS
  <2> DEFINE Running == {i \in Targets : body[i] = "running"}
  <2>1. Running \subseteq Admitted
    BY DEF IInv, Shape, Admitted
  <2>2. Cardinality(Running) \in Nat /\ Cardinality(Running) <= Cardinality(Admitted)
    BY <2>1, AdmittedType, FS_Subset, FS_CardinalityType
  <2>3. Cardinality(Admitted) <= Slots
    BY AdmittedType, SlotsType DEF IInv, TypeOK, PermitsConserved, LoopHolds
  <2> QED BY <2>2, <2>3, AdmittedType, SlotsType DEF AtMostSlotsRun
<1> QED BY <1>1, Invariance, PTL

-----------------------------------------------------------------------------
(* The channel as a window.  E[i] is the sequence of events target i sends *)
(* in all, from index 0; lo[i] of them have been received, hi[i] sent.     *)

Window(lo, hi, i) == lo[i] .. hi[i] - 1

(* The channel c holds exactly the events of the windows, each target's    *)
(* in order.                                                               *)
OnlyWindows(c, E, lo, hi) ==
    \A a \in 1 .. Len(c) : \E i \in Targets : \E r \in Window(lo, hi, i) : c[a] = E[i][r]
AllWindows(c, E, lo, hi) ==
    \A i \in Targets : \A r \in Window(lo, hi, i) : \E a \in 1 .. Len(c) : c[a] = E[i][r]
InOrder(c, E, lo, hi) ==
    \A a, b \in 1 .. Len(c) : \A i \in Targets : \A r, s \in Window(lo, hi, i) :
        a < b /\ c[a] = E[i][r] /\ c[b] = E[i][s] => r < s
Windows(c, E, lo, hi) ==
    OnlyWindows(c, E, lo, hi) /\ AllWindows(c, E, lo, hi) /\ InOrder(c, E, lo, hi)

(* No event is sent twice, by one target or by two.                        *)
Distinct(E, hi) ==
    \A i, j \in Targets : \A r \in 0 .. hi[i] - 1 : \A s \in 0 .. hi[j] - 1 :
        E[i][r] = E[j][s] => i = j /\ r = s

(* The same events as far as they have been sent.                          *)
Agree(E, F, hi) == \A i \in Targets : \A r \in 0 .. hi[i] - 1 : F[i][r] = E[i][r]

LEMMA WindowsAgree ==
    ASSUME NEW c, NEW E, NEW F, NEW lo \in [Targets -> Nat], NEW hi \in [Targets -> Nat],
           Agree(E, F, hi), Windows(c, E, lo, hi)
    PROVE  Windows(c, F, lo, hi)
<1>1. \A i \in Targets : \A r \in Window(lo, hi, i) : F[i][r] = E[i][r]
  <2> SUFFICES ASSUME NEW i \in Targets, NEW r \in Window(lo, hi, i) PROVE F[i][r] = E[i][r]
    OBVIOUS
  <2>1. lo[i] \in Nat /\ hi[i] \in Nat
    OBVIOUS
  <2>2. r \in 0 .. hi[i] - 1
    BY <2>1 DEF Window
  <2> QED BY <2>2 DEF Agree
<1>2. OnlyWindows(c, F, lo, hi)
  BY <1>1 DEF Windows, OnlyWindows
<1>3. AllWindows(c, F, lo, hi)
  BY <1>1 DEF Windows, AllWindows
<1>4. InOrder(c, F, lo, hi)
  BY <1>1 DEF Windows, InOrder
<1> QED BY <1>2, <1>3, <1>4 DEF Windows

(* Target h puts its next event into the channel.                          *)
LEMMA WindowsSend ==
    ASSUME NEW c \in Seq(Events), NEW E, NEW lo \in [Targets -> Nat], NEW hi \in [Targets -> Nat],
           NEW h \in Targets, NEW hk \in [Targets -> Nat],
           hk = [hi EXCEPT ![h] = hi[h] + 1], lo[h] <= hi[h],
           E[h][hi[h]] \in Events, Distinct(E, hk), Windows(c, E, lo, hi)
    PROVE  Windows(Append(c, E[h][hi[h]]), E, lo, hk)
<1> DEFINE e == E[h][hi[h]]
           d == Append(c, e)
           n == Len(c)
<1>1. /\ Len(d) = n + 1 /\ n \in Nat
      /\ \A a \in 1 .. n : d[a] = c[a]
      /\ d[n + 1] = e
  BY AppendProperties
<1>2. \A i \in Targets : lo[i] \in Nat /\ hi[i] \in Nat
  OBVIOUS
<1>3. /\ \A i \in Targets : i # h => Window(lo, hk, i) = Window(lo, hi, i)
      /\ Window(lo, hk, h) = Window(lo, hi, h) \cup {hi[h]}
      /\ hi[h] \notin Window(lo, hi, h)
  BY <1>2 DEF Window
<1>4. \A i \in Targets : \A r \in Window(lo, hk, i) : r \in Nat /\ r \in 0 .. hk[i] - 1
  <2> SUFFICES ASSUME NEW i \in Targets, NEW r \in Window(lo, hk, i)
               PROVE  r \in Nat /\ r \in 0 .. hk[i] - 1
    OBVIOUS
  <2>1. lo[i] \in Nat /\ hk[i] \in Nat
    OBVIOUS
  <2> QED BY <2>1 DEF Window
<1>9. \A a \in 1 .. Len(d) : a \in 1 .. n \/ a = n + 1
  BY <1>1
(* Only the new place holds the new event.                                 *)
<1>5. \A i \in Targets : \A r \in Window(lo, hk, i) : E[i][r] = e => i = h /\ r = hi[h]
  <2>1. hi[h] \in Window(lo, hk, h)
    BY <1>3
  <2>2. hi[h] \in 0 .. hk[h] - 1
    BY <1>4, <2>1
  <2> QED BY <1>4, <2>2 DEF Distinct
<1>6. OnlyWindows(d, E, lo, hk)
  <2> SUFFICES ASSUME NEW a \in 1 .. Len(d)
               PROVE  \E i \in Targets : \E r \in Window(lo, hk, i) : d[a] = E[i][r]
    BY DEF OnlyWindows
  <2>1. CASE a \in 1 .. n
    <3>1. PICK i \in Targets : \E r \in Window(lo, hi, i) : c[a] = E[i][r]
      BY <2>1 DEF Windows, OnlyWindows
    <3>2. Window(lo, hi, i) \subseteq Window(lo, hk, i)
      BY <1>3
    <3> QED BY <1>1, <2>1, <3>1, <3>2
  <2>2. CASE a = n + 1
    BY <1>1, <1>3, <2>2
  <2>3. a \in 1 .. n \/ a = n + 1
    BY <1>9
  <2> QED BY <2>1, <2>2, <2>3
<1>7. AllWindows(d, E, lo, hk)
  <2> SUFFICES ASSUME NEW i \in Targets, NEW r \in Window(lo, hk, i)
               PROVE  \E a \in 1 .. Len(d) : d[a] = E[i][r]
    BY DEF AllWindows
  <2>1. CASE r \in Window(lo, hi, i)
    <3>1. PICK a \in 1 .. n : c[a] = E[i][r]
      BY <2>1 DEF Windows, AllWindows
    <3>2. a \in 1 .. Len(d)
      BY <1>1
    <3> QED BY <1>1, <3>1, <3>2
  <2>2. CASE r \notin Window(lo, hi, i)
    <3>1. i = h /\ r = hi[h]
      BY <1>3, <2>2
    <3>2. n + 1 \in 1 .. Len(d)
      BY <1>1
    <3> QED BY <1>1, <3>1, <3>2
  <2> QED BY <2>1, <2>2
<1>8. InOrder(d, E, lo, hk)
  <2> SUFFICES ASSUME NEW a \in 1 .. Len(d), NEW b \in 1 .. Len(d), NEW i \in Targets,
                      NEW r \in Window(lo, hk, i), NEW s \in Window(lo, hk, i),
                      a < b, d[a] = E[i][r], d[b] = E[i][s]
               PROVE  r < s
    BY DEF InOrder
  <2>1. a \in 1 .. n /\ d[a] = c[a]
    BY <1>1
  <2>2. PICK j \in Targets : \E q \in Window(lo, hi, j) : c[a] = E[j][q]
    BY <2>1 DEF Windows, OnlyWindows
  <2>3. PICK q \in Window(lo, hi, j) : c[a] = E[j][q]
    BY <2>2
  <2>4. q \in Window(lo, hk, j)
    BY <1>3
  <2>5. j = i /\ q = r
    <3>1. E[j][q] = E[i][r]
      BY <2>1, <2>3
    <3>2. q \in 0 .. hk[j] - 1 /\ r \in 0 .. hk[i] - 1
      BY <1>4, <2>4
    <3> QED BY <3>1, <3>2 DEF Distinct
  <2>6. CASE b \in 1 .. n
    <3>1. PICK jb \in Targets : \E qb \in Window(lo, hi, jb) : c[b] = E[jb][qb]
      BY <2>6 DEF Windows, OnlyWindows
    <3>2. PICK qb \in Window(lo, hi, jb) : c[b] = E[jb][qb]
      BY <3>1
    <3>3. qb \in Window(lo, hk, jb)
      BY <1>3
    <3>4. jb = i /\ qb = s
      <4>1. E[jb][qb] = E[i][s]
        BY <1>1, <2>6, <3>2
      <4>2. qb \in 0 .. hk[jb] - 1 /\ s \in 0 .. hk[i] - 1
        BY <1>4, <3>3
      <4> QED BY <4>1, <4>2 DEF Distinct
    <3> QED BY <1>1, <2>1, <2>3, <2>5, <2>6, <3>2, <3>4 DEF Windows, InOrder
  <2>7. CASE b = n + 1
    <3>1. i = h /\ s = hi[h]
      BY <1>1, <1>5, <2>7
    <3>2. r \in Window(lo, hi, h)
      BY <2>3, <2>5, <3>1
    <3> QED BY <1>2, <3>1, <3>2 DEF Window
  <2>8. b \in 1 .. n \/ b = n + 1
    BY <1>9
  <2> QED BY <2>6, <2>7, <2>8
<1> QED BY <1>6, <1>7, <1>8 DEF Windows

(* The head of the channel is the next event of its target.                *)
HeadIsNext(c, E, lo, hi) ==
    \E i \in Targets : lo[i] < hi[i] /\ Head(c) = E[i][lo[i]]

LEMMA WindowsHead ==
    ASSUME NEW c \in Seq(Events), c # <<>>, NEW E,
           NEW lo \in [Targets -> Nat], NEW hi \in [Targets -> Nat],
           Windows(c, E, lo, hi)
    PROVE  HeadIsNext(c, E, lo, hi)
<1> DEFINE n == Len(c)
<1>1. n \in Nat /\ n >= 1 /\ Head(c) = c[1]
  OBVIOUS
<1>2. PICK i \in Targets : \E r \in Window(lo, hi, i) : c[1] = E[i][r]
  BY <1>1 DEF Windows, OnlyWindows
<1>3. PICK r \in Window(lo, hi, i) : c[1] = E[i][r]
  BY <1>2
<1>4. lo[i] \in Nat /\ hi[i] \in Nat /\ r \in Nat /\ lo[i] <= r /\ r < hi[i]
  <2>1. lo[i] \in Nat /\ hi[i] \in Nat
    OBVIOUS
  <2> QED BY <2>1 DEF Window
<1>5. lo[i] \in Window(lo, hi, i)
  BY <1>4 DEF Window
<1>6. PICK a \in 1 .. n : c[a] = E[i][lo[i]]
  BY <1>5 DEF Windows, AllWindows
<1>7. CASE a = 1
  BY <1>1, <1>4, <1>6, <1>7 DEF HeadIsNext
<1>8. CASE a # 1
  <2>1. 1 \in 1 .. n /\ 1 < a
    BY <1>1, <1>8
  <2>2. r < lo[i]
    BY <1>3, <1>5, <1>6, <2>1 DEF Windows, InOrder
  <2> QED BY <1>4, <2>2
<1> QED BY <1>7, <1>8

(* Receiving it moves that target's window.                                *)
LEMMA WindowsReceive ==
    ASSUME NEW c \in Seq(Events), c # <<>>, NEW E,
           NEW lo \in [Targets -> Nat], NEW hi \in [Targets -> Nat],
           Windows(c, E, lo, hi), Distinct(E, hi),
           NEW h \in Targets, lo[h] < hi[h], Head(c) = E[h][lo[h]],
           NEW lk \in [Targets -> Nat], lk = [lo EXCEPT ![h] = lo[h] + 1]
    PROVE  Windows(Tail(c), E, lk, hi)
<1> DEFINE d == Tail(c)
           n == Len(c)
<1>1. /\ n \in Nat /\ n >= 1 /\ Head(c) = c[1]
      /\ Len(d) = n - 1
      /\ \A a \in 1 .. n - 1 : d[a] = c[a + 1]
  BY HeadTailProperties
<1>2. \A i \in Targets : lo[i] \in Nat /\ hi[i] \in Nat
  OBVIOUS
<1>3. /\ \A i \in Targets : i # h => Window(lk, hi, i) = Window(lo, hi, i)
      /\ Window(lk, hi, h) = Window(lo, hi, h) \ {lo[h]}
      /\ lo[h] \in Window(lo, hi, h)
  BY <1>2 DEF Window
<1>4. \A i \in Targets : Window(lk, hi, i) \subseteq Window(lo, hi, i)
  BY <1>3
<1>5. \A i \in Targets : \A r \in Window(lo, hi, i) : r \in 0 .. hi[i] - 1
  <2> SUFFICES ASSUME NEW i \in Targets, NEW r \in Window(lo, hi, i) PROVE r \in 0 .. hi[i] - 1
    OBVIOUS
  <2>1. lo[i] \in Nat /\ hi[i] \in Nat
    OBVIOUS
  <2> QED BY <2>1 DEF Window
<1>6. OnlyWindows(d, E, lk, hi)
  <2> SUFFICES ASSUME NEW a \in 1 .. Len(d)
               PROVE  \E i \in Targets : \E r \in Window(lk, hi, i) : d[a] = E[i][r]
    BY DEF OnlyWindows
  <2>1. a + 1 \in 1 .. n /\ d[a] = c[a + 1] /\ 1 \in 1 .. n /\ 1 < a + 1
    BY <1>1
  <2>2. PICK i \in Targets : \E r \in Window(lo, hi, i) : c[a + 1] = E[i][r]
    BY <2>1 DEF Windows, OnlyWindows
  <2>3. PICK r \in Window(lo, hi, i) : c[a + 1] = E[i][r]
    BY <2>2
  <2>4. ~(i = h /\ r = lo[h])
    <3> SUFFICES ASSUME i = h, r = lo[h] PROVE FALSE
      OBVIOUS
    <3>1. c[1] = E[h][lo[h]] /\ c[a + 1] = E[h][lo[h]]
      BY <1>1, <2>3
    <3>2. lo[h] < lo[h]
      BY <1>3, <2>1, <3>1 DEF Windows, InOrder
    <3> QED BY <1>2, <3>2
  <2>5. r \in Window(lk, hi, i)
    BY <1>3, <2>4
  <2> QED BY <2>1, <2>3, <2>5
<1>7. AllWindows(d, E, lk, hi)
  <2> SUFFICES ASSUME NEW i \in Targets, NEW r \in Window(lk, hi, i)
               PROVE  \E a \in 1 .. Len(d) : d[a] = E[i][r]
    BY DEF AllWindows
  <2>1. PICK a \in 1 .. n : c[a] = E[i][r]
    BY <1>4 DEF Windows, AllWindows
  <2>2. a # 1
    <3> SUFFICES ASSUME a = 1 PROVE FALSE
      OBVIOUS
    <3>1. E[i][r] = E[h][lo[h]]
      BY <1>1, <2>1
    <3>2. r \in 0 .. hi[i] - 1 /\ lo[h] \in 0 .. hi[h] - 1
      BY <1>3, <1>4, <1>5
    <3>3. i = h /\ r = lo[h]
      BY <3>1, <3>2 DEF Distinct
    <3> QED BY <1>3, <3>3
  <2>3. a - 1 \in 1 .. n - 1 /\ (a - 1) + 1 = a
    BY <1>1, <2>2
  <2> QED BY <1>1, <2>1, <2>3
<1>8. InOrder(d, E, lk, hi)
  <2> SUFFICES ASSUME NEW a \in 1 .. Len(d), NEW b \in 1 .. Len(d), NEW i \in Targets,
                      NEW r \in Window(lk, hi, i), NEW s \in Window(lk, hi, i),
                      a < b, d[a] = E[i][r], d[b] = E[i][s]
               PROVE  r < s
    BY DEF InOrder
  <2>1. /\ a + 1 \in 1 .. n /\ b + 1 \in 1 .. n /\ a + 1 < b + 1
        /\ d[a] = c[a + 1] /\ d[b] = c[b + 1]
    BY <1>1
  <2>2. r \in Window(lo, hi, i) /\ s \in Window(lo, hi, i)
    BY <1>4
  <2> QED BY <2>1, <2>2 DEF Windows, InOrder
<1> QED BY <1>6, <1>7, <1>8 DEF Windows

-----------------------------------------------------------------------------
(* The transcript a target is writing, and how far it has got.             *)

(* Event r of target i, from where its task, counter and body are.         *)
Log(tk, md, bd) ==
    [i \in Targets |-> [r \in Nat |->
        IF r = 0 THEN IF tk[i] = "refused" THEN Finished(i, "Cancelled") ELSE Started(i)
        ELSE IF r <= md[i] THEN Inner(i, r) ELSE Finished(i, OutcomeOf(bd[i]))]]
Logs == Log(task, made, body)

(* Events of its body that i's forwarder has passed on.                    *)
Sending(i) == IF fwd[i] = "send" THEN 1 ELSE 0
Passed(i) == made[i] - Len(inner[i]) - Sending(i)

(* Events of its transcript that i has put into the channel.               *)
SentOf(i) ==
    CASE task[i] \in {"queued", "starting"} -> 0
      [] task[i] = "refused" -> 1
      [] task[i] \in {"body", "finish"} -> 1 + Passed(i)
      [] OTHER -> 2 + made[i]
Sent == [i \in Targets |-> SentOf(i)]
Got == [i \in Targets |-> Len(seen[i])]

Early == {"queued", "starting", "refused"}
Late == {"finish", "release", "done"}

(* A target's body and forwarder live inside its task, and both have ended *)
(* when it goes on to Finished.                                            *)
LifeOK(i) ==
    /\ task[i] \in Early => fwd[i] = "none" /\ body[i] = "none" /\ made[i] = 0 /\ inner[i] = <<>>
    /\ task[i] \notin Early => fwd[i] # "none" /\ body[i] # "none"
    /\ task[i] \in Late => fwd[i] = "ended" /\ body[i] \in Results

(* Its own channel holds the last of its events, the forwarder the one     *)
(* before them.                                                            *)
PipeOK(i) ==
    /\ Len(inner[i]) + Sending(i) <= made[i]
    /\ \A j \in 1 .. Len(inner[i]) : inner[i][j] = made[i] - Len(inner[i]) + j
    /\ fwd[i] = "send" => held[i] = made[i] - Len(inner[i])
    /\ fwd[i] = "ended" => inner[i] = <<>> /\ body[i] \in Results

(* The consumer has got a prefix of it.                                    *)
SeenOK(i) ==
    /\ Got[i] <= Sent[i]
    /\ \A r \in 0 .. Got[i] - 1 : seen[i][r + 1] = Logs[i][r]

Lives == \A i \in Targets : LifeOK(i)
Pipes == rxOpen => \A i \in Targets : PipeOK(i)
Streams == rxOpen => (\A i \in Targets : SeenOK(i)) /\ Windows(chan, Logs, Got, Sent)
Returned == loop = "returned" => \A i \in Targets : task[i] \in {"done", "refused"}

StreamInv == IInv /\ Lives /\ Pipes /\ Streams /\ Returned

-----------------------------------------------------------------------------
LEMMA EventParts ==
    /\ \A i : Started(i).kind = "Started" /\ Started(i).ix = i
    /\ \A i, h : Inner(i, h).kind = "Inner" /\ Inner(i, h).ix = i /\ Inner(i, h).arg = h
    /\ \A i, o : Finished(i, o).kind = "Finished" /\ Finished(i, o).ix = i
                 /\ Finished(i, o).arg = o
BY DEF Started, Inner, Finished

LEMMA LogAt ==
    ASSUME NEW tk, NEW md, NEW bd, NEW i \in Targets, NEW r \in Nat
    PROVE  Log(tk, md, bd)[i][r] =
             IF r = 0 THEN IF tk[i] = "refused" THEN Finished(i, "Cancelled") ELSE Started(i)
             ELSE IF r <= md[i] THEN Inner(i, r) ELSE Finished(i, OutcomeOf(bd[i]))
BY DEF Log

(* No transcript has two equal events.                                     *)
LEMMA DistinctLogs ==
    ASSUME NEW tk, NEW md \in [Targets -> Nat], NEW bd, NEW hi \in [Targets -> Nat],
           \A i \in Targets : hi[i] <= IF tk[i] = "refused" THEN 1 ELSE md[i] + 2
    PROVE  Distinct(Log(tk, md, bd), hi)
<1> DEFINE E == Log(tk, md, bd)
<1> SUFFICES ASSUME NEW i \in Targets, NEW j \in Targets,
                    NEW r \in 0 .. hi[i] - 1, NEW s \in 0 .. hi[j] - 1, E[i][r] = E[j][s]
             PROVE  i = j /\ r = s
  BY DEF Distinct
<1>1. /\ hi[i] \in Nat /\ hi[j] \in Nat /\ md[i] \in Nat /\ md[j] \in Nat
      /\ r \in Nat /\ s \in Nat /\ r < hi[i] /\ s < hi[j]
  <2>1. hi[i] \in Nat /\ hi[j] \in Nat /\ md[i] \in Nat /\ md[j] \in Nat
    OBVIOUS
  <2> QED BY <2>1
<1>2. \A h \in Targets : \A q \in Nat : E[h][q].ix = h
  <2> SUFFICES ASSUME NEW h \in Targets, NEW q \in Nat PROVE E[h][q].ix = h
    OBVIOUS
  <2> HIDE DEF E
  <2>1. E[h][q] = Finished(h, "Cancelled") \/ E[h][q] = Started(h) \/ E[h][q] = Inner(h, q)
        \/ E[h][q] = Finished(h, OutcomeOf(bd[h]))
    BY LogAt DEF E
  <2> QED BY <2>1, EventParts
<1>3. i = j
  <2>1. E[i][r].ix = i /\ E[j][s].ix = j
    BY <1>1, <1>2
  <2> QED BY <2>1
<1>4. CASE tk[i] = "refused"
  <2>1. hi[i] <= 1 /\ hi[j] <= 1
    BY <1>3, <1>4
  <2> QED BY <1>1, <1>3, <2>1
<1>5. CASE tk[i] # "refused"
  <2>1. hi[i] <= md[i] + 2
    BY <1>5
  <2>2. r < md[i] + 2 /\ s < md[i] + 2
    BY <1>1, <1>3, <2>1
  <2>3. /\ E[i][r] = IF r = 0 THEN Started(i) ELSE IF r <= md[i] THEN Inner(i, r)
                     ELSE Finished(i, OutcomeOf(bd[i]))
        /\ E[i][s] = IF s = 0 THEN Started(i) ELSE IF s <= md[i] THEN Inner(i, s)
                     ELSE Finished(i, OutcomeOf(bd[i]))
    BY <1>1, <1>5, LogAt
  <2>4. /\ E[i][r].kind = IF r = 0 THEN "Started" ELSE IF r <= md[i] THEN "Inner" ELSE "Finished"
        /\ E[i][s].kind = IF s = 0 THEN "Started" ELSE IF s <= md[i] THEN "Inner" ELSE "Finished"
    BY <2>3, EventParts
  <2>5. E[i][r].kind = E[i][s].kind /\ E[i][r].arg = E[i][s].arg
    BY <1>3
  <2>6. CASE r = 0 \/ s = 0
    BY <1>3, <2>4, <2>5, <2>6
  <2>7. CASE r # 0 /\ s # 0 /\ r <= md[i]
    <3>1. s <= md[i]
      BY <2>4, <2>5, <2>7
    <3>2. E[i][r].arg = r /\ E[i][s].arg = s
      BY <2>3, <2>7, <3>1, EventParts
    <3> QED BY <1>3, <2>5, <3>2
  <2>8. CASE r # 0 /\ s # 0 /\ ~(r <= md[i])
    <3>1. ~(s <= md[i])
      BY <2>4, <2>5, <2>8
    <3>2. r = md[i] + 1 /\ s = md[i] + 1
      BY <1>1, <2>2, <2>8, <3>1
    <3> QED BY <1>3, <3>2
  <2> QED BY <2>6, <2>7, <2>8
<1> QED BY <1>4, <1>5

(* What has been sent of a transcript does not change as it grows.         *)
LEMMA LogsAgree ==
    ASSUME NEW tk, NEW md \in [Targets -> Nat], NEW bd,
           NEW tl, NEW ml \in [Targets -> Nat], NEW bl, NEW hi \in [Targets -> Nat],
           \A i \in Targets :
               \/ hi[i] = 0
               \/ /\ (tk[i] = "refused") <=> (tl[i] = "refused")
                  /\ \/ hi[i] <= md[i] + 1 /\ md[i] <= ml[i]
                     \/ md[i] = ml[i] /\ bd[i] = bl[i]
    PROVE  Agree(Log(tk, md, bd), Log(tl, ml, bl), hi)
<1> DEFINE E == Log(tk, md, bd)
           F == Log(tl, ml, bl)
<1> SUFFICES ASSUME NEW i \in Targets, NEW r \in 0 .. hi[i] - 1 PROVE F[i][r] = E[i][r]
  BY DEF Agree
<1>1. hi[i] \in Nat /\ md[i] \in Nat /\ ml[i] \in Nat
  OBVIOUS
<1>2. r \in Nat /\ r < hi[i] /\ hi[i] # 0
  BY <1>1
<1>3. /\ E[i][r] = IF r = 0 THEN IF tk[i] = "refused" THEN Finished(i, "Cancelled") ELSE Started(i)
                   ELSE IF r <= md[i] THEN Inner(i, r) ELSE Finished(i, OutcomeOf(bd[i]))
      /\ F[i][r] = IF r = 0 THEN IF tl[i] = "refused" THEN Finished(i, "Cancelled") ELSE Started(i)
                   ELSE IF r <= ml[i] THEN Inner(i, r) ELSE Finished(i, OutcomeOf(bl[i]))
  BY <1>2, LogAt
<1>4. (tk[i] = "refused") <=> (tl[i] = "refused")
  BY <1>2
<1>5. CASE md[i] = ml[i] /\ bd[i] = bl[i]
  BY <1>3, <1>4, <1>5
<1>6. CASE hi[i] <= md[i] + 1 /\ md[i] <= ml[i]
  <2>1. r <= md[i] /\ r <= ml[i]
    BY <1>1, <1>2, <1>6
  <2> QED BY <1>3, <1>4, <2>1
<1> QED BY <1>2, <1>5, <1>6

-----------------------------------------------------------------------------
(* What the counters are in every state.                                   *)
Counters ==
    /\ Got \in [Targets -> Nat] /\ Sent \in [Targets -> Nat] /\ made \in [Targets -> Nat]
    /\ Distinct(Logs, Sent)

LEMMA PipeBounds ==
    ASSUME TypeOK, NEW i \in Targets, LifeOK(i), PipeOK(i)
    PROVE  /\ made[i] \in Nat /\ Len(inner[i]) \in Nat /\ Sending(i) \in {0, 1}
           /\ SentOf(i) \in Nat /\ Passed(i) \in Nat /\ Passed(i) <= made[i]
           /\ SentOf(i) <= IF task[i] = "refused" THEN 1 ELSE made[i] + 2
           /\ task[i] \in {"body", "finish"} => SentOf(i) = 1 + Passed(i)
<1>1. made[i] \in Nat /\ inner[i] \in Seq(1 .. MaxEvents)
  BY RunTargetsAssumption DEF TypeOK
<1>2. Len(inner[i]) \in Nat
  BY <1>1
<1>3. Sending(i) \in {0, 1}
  BY DEF Sending
<1>4. Passed(i) \in Nat /\ Passed(i) <= made[i]
  BY <1>1, <1>2, <1>3 DEF PipeOK, Passed
<1>5. /\ SentOf(i) \in Nat
      /\ SentOf(i) <= IF task[i] = "refused" THEN 1 ELSE made[i] + 2
      /\ task[i] \in {"body", "finish"} => SentOf(i) = 1 + Passed(i)
  <2>1. task[i] \in {"queued", "starting", "refused", "body", "finish", "release", "done"}
    BY DEF TypeOK
  <2> QED BY <1>1, <1>4, <2>1 DEF SentOf
<1> QED BY <1>1, <1>2, <1>3, <1>4, <1>5

LEMMA CountersHold == TypeOK /\ Lives /\ (\A i \in Targets : PipeOK(i)) => Counters
<1> SUFFICES ASSUME TypeOK, Lives, \A i \in Targets : PipeOK(i) PROVE Counters
  OBVIOUS
<1>1. made \in [Targets -> Nat]
  BY RunTargetsAssumption DEF TypeOK
<1>2. Got \in [Targets -> Nat]
  BY DEF TypeOK, Got
<1>3. \A i \in Targets : /\ SentOf(i) \in Nat
                         /\ SentOf(i) <= IF task[i] = "refused" THEN 1 ELSE made[i] + 2
  BY PipeBounds DEF Lives
<1>4. Sent \in [Targets -> Nat] /\ \A i \in Targets : Sent[i] = SentOf(i)
  BY <1>3 DEF Sent
<1>5. Distinct(Logs, Sent)
  BY <1>1, <1>3, <1>4, DistinctLogs DEF Logs
<1> QED BY <1>1, <1>2, <1>4, <1>5 DEF Counters

(* A prefix that has been got stays what it was.                           *)
LEMMA PrefixKept ==
    ASSUME NEW i \in Targets, SeenOK(i), Counters, Counters', UNCHANGED seen,
           Sent[i] <= Sent'[i], Agree(Logs, Logs', Sent)
    PROVE  SeenOK(i)'
<1>1. Got' = Got
  BY DEF Got
<1>2. Got[i] \in Nat /\ Sent[i] \in Nat /\ Sent'[i] \in Nat
  BY DEF Counters
<1>3. Got'[i] <= Sent'[i]
  BY <1>1, <1>2 DEF SeenOK
<1>4. ASSUME NEW r \in 0 .. Got'[i] - 1
      PROVE  seen'[i][r + 1] = Logs'[i][r]
  <2>1. r \in 0 .. Got[i] - 1 /\ r \in 0 .. Sent[i] - 1
    BY <1>1, <1>2 DEF SeenOK
  <2> QED BY <2>1 DEF SeenOK, Agree
<1> QED BY <1>3, <1>4 DEF SeenOK

(* Steps that neither send nor receive.                                    *)
LEMMA StreamsQuiet ==
    ASSUME rxOpen, Streams, Counters, Counters', UNCHANGED <<chan, seen>>, Sent' = Sent,
           Agree(Logs, Logs', Sent)
    PROVE  Streams'
<1>1. \A i \in Targets : Sent[i] <= Sent'[i]
  BY DEF Counters
<1>2. \A i \in Targets : SeenOK(i)'
  BY <1>1, PrefixKept DEF Streams
<1>3. Windows(chan, Logs', Got, Sent)
  BY WindowsAgree DEF Streams, Counters
<1>4. Got' = Got
  BY DEF Got
<1>5. Windows(chan', Logs', Got', Sent')
  BY <1>3, <1>4
<1> QED BY <1>2, <1>5 DEF Streams

(* Target h sends the next event of its transcript.                        *)
LEMMA StreamsSend ==
    ASSUME rxOpen, TypeOK, Streams, Counters, Counters', UNCHANGED seen, NEW h \in Targets,
           Sent' = [Sent EXCEPT ![h] = Sent[h] + 1],
           Logs'[h][Sent[h]] \in Events, chan' = Append(chan, Logs'[h][Sent[h]]),
           Agree(Logs, Logs', Sent)
    PROVE  Streams'
<1>1. \A i \in Targets : Sent[i] <= Sent'[i]
  BY DEF Counters
<1>2. \A i \in Targets : SeenOK(i)'
  BY <1>1, PrefixKept DEF Streams
<1>3. Windows(chan, Logs', Got, Sent)
  BY WindowsAgree DEF Streams, Counters
<1>4. Got' = Got
  BY DEF Got
<1>5. Got[h] <= Sent[h]
  BY DEF Streams, SeenOK
<1>6. Windows(Append(chan, Logs'[h][Sent[h]]), Logs', Got, Sent')
  <2>1. chan \in Seq(Events)
    BY DEF TypeOK
  <2>2. PICK E : E = Logs'
    OBVIOUS
  <2>3. PICK hk : hk = Sent'
    OBVIOUS
  <2>4. Distinct(E, hk) /\ hk \in [Targets -> Nat]
    BY <2>2, <2>3 DEF Counters
  <2>5. Windows(Append(chan, E[h][Sent[h]]), E, Got, hk)
    BY <1>3, <1>5, <2>1, <2>2, <2>3, <2>4, WindowsSend DEF Counters
  <2> QED BY <2>2, <2>3, <2>5
<1>7. Windows(chan', Logs', Got', Sent')
  BY <1>4, <1>6
<1> QED BY <1>2, <1>7 DEF Streams

(* The consumer receives the head of the channel.                          *)
LEMMA StreamsReceive ==
    ASSUME TypeOK, Streams, Counters, Receive
    PROVE  \E h \in Targets :
             /\ Got[h] < Sent[h] /\ Logs[h][Got[h]] \in Events
             /\ seen' = [seen EXCEPT ![h] = Append(@, Logs[h][Got[h]])]
             /\ Streams'
<1>1. rxOpen /\ chan # <<>> /\ chan \in Seq(Events)
  BY DEF Receive, TypeOK
<1>2. PICK h \in Targets : Got[h] < Sent[h] /\ Head(chan) = Logs[h][Got[h]]
  <2>1. Windows(chan, Logs, Got, Sent) /\ Got \in [Targets -> Nat] /\ Sent \in [Targets -> Nat]
    BY <1>1 DEF Streams, Counters
  <2>2. HeadIsNext(chan, Logs, Got, Sent)
    BY <1>1, <2>1, WindowsHead
  <2> QED BY <2>2 DEF HeadIsNext
<1>3. Head(chan).ix = h
  <2>1. Got[h] \in Nat
    BY DEF Counters
  <2>2. \/ Head(chan) = Finished(h, "Cancelled") \/ Head(chan) = Started(h)
        \/ Head(chan) = Inner(h, Got[h]) \/ Head(chan) = Finished(h, OutcomeOf(body[h]))
    BY <1>2, <2>1, LogAt DEF Logs
  <2> QED BY <2>2, EventParts
<1>4. /\ seen' = [seen EXCEPT ![h] = Append(@, Head(chan))] /\ chan' = Tail(chan)
      /\ UNCHANGED <<task, perTask, rxOpen>>
  BY <1>3 DEF Receive
<1>5. seen' = [seen EXCEPT ![h] = Append(@, Logs[h][Got[h]])]
  BY <1>2, <1>4
<1>6. Head(chan) \in Events /\ seen[h] \in Seq(Events) /\ seen \in [Targets -> Seq(Events)]
  BY <1>1 DEF TypeOK
<1>7. /\ Len(seen'[h]) = Got[h] + 1
      /\ \A r \in 0 .. Got[h] - 1 : seen'[h][r + 1] = seen[h][r + 1]
      /\ seen'[h][Got[h] + 1] = Head(chan)
      /\ \A i \in Targets : i # h => seen'[i] = seen[i]
  <2>1. PICK s : s = seen[h]
    OBVIOUS
  <2>2. PICK e : e = Head(chan)
    OBVIOUS
  <2>3. seen'[h] = Append(s, e) /\ \A i \in Targets : i # h => seen'[i] = seen[i]
    BY <1>4, <1>6, <2>1, <2>2
  <2>4. /\ Len(Append(s, e)) = Len(s) + 1
        /\ \A j \in 1 .. Len(s) : Append(s, e)[j] = s[j]
        /\ Append(s, e)[Len(s) + 1] = e
    BY <1>6, <2>1, <2>2, AppendProperties
  <2>5. Got[h] = Len(s) /\ Len(s) \in Nat
    BY <1>6, <2>1 DEF Got
  <2> HIDE <2>1, <2>2
  <2>6. \A r \in 0 .. Len(s) - 1 : r + 1 \in 1 .. Len(s)
    BY <2>5
  <2> QED BY <2>1, <2>2, <2>3, <2>4, <2>5, <2>6
<1>8. Got' = [Got EXCEPT ![h] = Got[h] + 1]
  BY <1>6, <1>7 DEF Got
<1>9. Logs' = Logs /\ Sent' = Sent
  BY <1>4 DEF Logs, Log, Sent, SentOf, Passed, Sending, perTask
<1>10. Windows(Tail(chan), Logs, [Got EXCEPT ![h] = Got[h] + 1], Sent)
  <2>1. PICK lk : lk = [Got EXCEPT ![h] = Got[h] + 1]
    OBVIOUS
  <2>2. lk \in [Targets -> Nat]
    BY <2>1 DEF Counters
  <2>3. Windows(Tail(chan), Logs, lk, Sent)
    BY <1>1, <1>2, <2>1, <2>2, WindowsReceive DEF Streams, Counters
  <2> QED BY <2>1, <2>3
<1>11. Windows(chan', Logs', Got', Sent')
  BY <1>4, <1>8, <1>9, <1>10
<1>12. ASSUME NEW i \in Targets
       PROVE  SeenOK(i)'
  <2>1. SeenOK(i)
    BY <1>1 DEF Streams
  <2>2. CASE i # h
    <3>1. Got'[i] = Got[i]
      BY <1>8, <2>2 DEF Counters
    <3> QED BY <1>7, <1>9, <2>1, <2>2, <3>1 DEF SeenOK
  <2>3. CASE i = h
    <3>1. Got'[h] = Got[h] + 1 /\ Got[h] \in Nat /\ Sent[h] \in Nat
      BY <1>8 DEF Counters
    <3>2. Got'[h] <= Sent'[h]
      BY <1>2, <1>9, <3>1
    <3>3. ASSUME NEW r \in 0 .. Got'[h] - 1
          PROVE  seen'[h][r + 1] = Logs'[h][r]
      <4>1. r \in 0 .. Got[h] - 1 \/ r = Got[h]
        BY <3>1
      <4> QED BY <1>2, <1>7, <1>9, <2>1, <2>3, <4>1 DEF SeenOK
    <3> QED BY <2>3, <3>2, <3>3 DEF SeenOK
  <2> QED BY <2>2, <2>3
<1>13. Streams'
  BY <1>11, <1>12 DEF Streams
<1> QED BY <1>2, <1>5, <1>6, <1>13

-----------------------------------------------------------------------------
(* What the steps do to a target's task, body and forwarder.               *)

(* The loop takes one queued target at a time.                             *)
LEMMA LoopTask ==
    ASSUME IInv, AdmissionLoop
    PROVE  /\ UNCHANGED <<perTask, rxOpen, seen>>
           /\ \/ UNCHANGED <<task, chan>>
              \/ /\ next \in Targets /\ task[next] = "queued"
                 /\ \/ task' = [task EXCEPT ![next] = "starting"] /\ UNCHANGED chan
                    \/ /\ task' = [task EXCEPT ![next] = "refused"]
                       /\ Send(Finished(next, "Cancelled"))
<1>1. loop \in {"recheck", "report"} => next \in Targets /\ task[next] = "queued"
  <2> SUFFICES ASSUME loop \in {"recheck", "report"}
               PROVE  next \in Targets /\ task[next] = "queued"
    OBVIOUS
  <2>1. N \in Nat /\ next \in 0 .. N /\ next # N
    BY RunTargetsAssumption DEF IInv, TypeOK
  <2>2. next \in Targets /\ next >= next
    BY <2>1 DEF Targets
  <2> QED BY <2>2 DEF IInv, Shape
<1>2. CASE Admit
  BY <1>1, <1>2 DEF Admit, perTask, channel
<1>3. CASE ReportCancelled
  BY <1>1, <1>3 DEF ReportCancelled, perTask
<1>4. CASE ~Admit /\ ~ReportCancelled
  BY <1>4 DEF AdmissionLoop, SelectCancelled, SelectNotCancelled, Acquire, Pending,
              RecheckCancelled, Join, perTask, channel
<1> QED BY <1>2, <1>3, <1>4

OfTargetStep(i) == Task(i) \/ BodyEmit(i) \/ BodyEnd(i) \/ Forwarder(i)

(* A target's step leaves the others alone.                                *)
LEMMA OneTarget ==
    ASSUME TypeOK, NEW i \in Targets, OfTargetStep(i), NEW j \in Targets, j # i
    PROVE  /\ task'[j] = task[j] /\ body'[j] = body[j] /\ made'[j] = made[j]
           /\ inner'[j] = inner[j] /\ fwd'[j] = fwd[j] /\ held'[j] = held[j]
<1>1. CASE Task(i)
  BY <1>1 DEF TypeOK, Task, TaskStart, TaskAwaited, TaskFinish, TaskRelease, perTask
<1>2. CASE BodyEmit(i)
  <2>1. inner'[j] = inner[j]
    BY <1>2 DEF TypeOK, BodyEmit
  <2> QED BY <1>2, <2>1 DEF TypeOK, BodyEmit
<1>3. CASE BodyEnd(i)
  BY <1>3 DEF TypeOK, BodyEnd
<1>4. CASE Forwarder(i)
  BY <1>4 DEF TypeOK, Forwarder, ForwardRecv, ForwardSend, ForwardEnd
<1> QED BY <1>1, <1>2, <1>3, <1>4 DEF OfTargetStep

(* Steps that leave a target alone keep what is said of it.                *)
LEMMA Untouched ==
    ASSUME NEW j \in Targets,
           task'[j] = task[j], body'[j] = body[j], made'[j] = made[j],
           inner'[j] = inner[j], fwd'[j] = fwd[j], held'[j] = held[j]
    PROVE  /\ LifeOK(j) => LifeOK(j)'
           /\ PipeOK(j) => PipeOK(j)'
           /\ SentOf(j)' = SentOf(j)
BY DEF LifeOK, PipeOK, SentOf, Passed, Sending

LEMMA LifeOfStep ==
    ASSUME TypeOK, NEW i \in Targets, Shape, LifeOK(i), OfTargetStep(i)
    PROVE  LifeOK(i)'
<1>0. /\ task[i] \in {"queued", "starting", "body", "finish", "release", "done", "refused"}
      /\ body[i] = "running" => task[i] = "body"
  BY DEF TypeOK, Shape
<1>1. CASE TaskStart(i)
  BY <1>1 DEF TaskStart, TypeOK, LifeOK, Early, Late
<1>2. CASE TaskAwaited(i)
  BY <1>2 DEF TaskAwaited, TypeOK, LifeOK, Early, Late, perTask
<1>3. CASE TaskFinish(i) \/ TaskRelease(i)
  BY <1>3 DEF TaskFinish, TaskRelease, TypeOK, LifeOK, Early, Late, perTask
<1>4. CASE BodyEmit(i)
  BY <1>0, <1>4 DEF BodyEmit, TypeOK, LifeOK, Early, Late
<1>5. CASE BodyEnd(i)
  BY <1>0, <1>5 DEF BodyEnd, TypeOK, LifeOK, Early, Late, Results
<1>6. CASE Forwarder(i)
  <2>1. fwd[i] \notin {"none", "ended"}
    BY <1>6 DEF Forwarder, ForwardRecv, ForwardSend, ForwardEnd
  <2>2. task[i] = "body" /\ UNCHANGED <<task, body>>
    BY <1>0, <1>6, <2>1 DEF LifeOK, Early, Late, Forwarder, ForwardRecv, ForwardSend, ForwardEnd
  <2>3. fwd'[i] # "none"
    BY <1>6 DEF TypeOK, Forwarder, ForwardRecv, ForwardSend, ForwardEnd
  <2> QED BY <2>2, <2>3 DEF LifeOK, Early, Late
<1> QED BY <1>1, <1>2, <1>3, <1>4, <1>5, <1>6 DEF OfTargetStep, Task

LEMMA LivesStep ==
    ASSUME IInv, Lives, [Next]_vars
    PROVE  Lives'
<1>1. CASE AdmissionLoop
  <2> SUFFICES ASSUME NEW j \in Targets PROVE LifeOK(j)'
    BY DEF Lives
  <2>1. LifeOK(j) /\ TypeOK
    BY DEF Lives, IInv
  <2>2. UNCHANGED <<body, made, inner, fwd>>
    BY <1>1, LoopTask DEF perTask
  <2>3. task'[j] = task[j] \/ (task[j] = "queued" /\ task'[j] \in {"starting", "refused"})
    BY <1>1, <2>1, LoopTask DEF TypeOK
  <2> QED BY <2>1, <2>2, <2>3 DEF LifeOK, Early, Late
<1>2. CASE \E i \in Targets : OfTargetStep(i)
  <2>1. PICK i \in Targets : OfTargetStep(i)
    BY <1>2
  <2>2. LifeOK(i)'
    BY <2>1, LifeOfStep DEF IInv, Lives
  <2>3. \A j \in Targets : j # i => LifeOK(j)'
    BY <2>1, OneTarget, Untouched DEF IInv, Lives
  <2> QED BY <2>2, <2>3 DEF Lives
<1>3. CASE Receive \/ DropReceiver \/ Cancel \/ UNCHANGED vars
  <2>1. UNCHANGED <<task, body, made, inner, fwd>>
    BY <1>3 DEF Receive, DropReceiver, Cancel, vars, perTask
  <2> QED BY <2>1 DEF Lives, LifeOK
<1> QED BY <1>1, <1>2, <1>3 DEF Next, Over, OfTargetStep

-----------------------------------------------------------------------------
(* What a step of target i does to its part of the stream, while there is  *)
(* a consumer: at most one event goes out, and it is the next one.         *)
Grows(i) ==
    \/ SentOf(i) = 0
    \/ /\ (task[i] = "refused") <=> (task'[i] = "refused")
       /\ \/ SentOf(i) <= made[i] + 1 /\ made[i] <= made'[i]
          \/ made[i] = made'[i] /\ body[i] = body'[i]
Keeps(i) == UNCHANGED chan /\ SentOf(i)' = SentOf(i)
Puts(i) ==
    /\ SentOf(i)' = SentOf(i) + 1
    /\ Logs'[i][SentOf(i)] \in Events
    /\ chan' = Append(chan, Logs'[i][SentOf(i)])
Writes(i) == PipeOK(i)' /\ Grows(i) /\ (Keeps(i) \/ Puts(i))

LEMMA BodyEmitWrites ==
    ASSUME TypeOK, Shape, rxOpen, NEW i \in Targets, LifeOK(i), PipeOK(i), BodyEmit(i)
    PROVE  Writes(i)
<1>1. task[i] = "body" /\ body[i] = "running" /\ fwd[i] # "ended"
  BY DEF BodyEmit, Shape, PipeOK, Results
<1>2. PICK m \in Nat : m = made[i]
  BY RunTargetsAssumption DEF TypeOK
<1>3. PICK q \in Seq(1 .. MaxEvents) : q = inner[i]
  BY DEF TypeOK
<1>4. PICK n \in Nat : n = Len(q)
  OBVIOUS
<1>5. /\ made'[i] = m + 1 /\ fwd'[i] = fwd[i] /\ held'[i] = held[i]
      /\ task'[i] = task[i] /\ body'[i] = body[i] /\ UNCHANGED chan
  BY <1>2 DEF BodyEmit, TypeOK, channel
<1>6. m + 1 \in 1 .. MaxEvents
  BY <1>2, RunTargetsAssumption DEF BodyEmit
<1>7. inner'[i] = Append(q, m + 1)
  BY <1>1, <1>2, <1>3 DEF BodyEmit, TypeOK
<1>8. /\ Len(inner'[i]) = n + 1
      /\ \A j \in 1 .. n : inner'[i][j] = q[j]
      /\ inner'[i][n + 1] = m + 1
  BY <1>4, <1>6, <1>7, AppendProperties
<1>9. Sending(i)' = Sending(i) /\ Sending(i) \in {0, 1}
  BY <1>5 DEF Sending
<1>10. PipeOK(i)'
  <2>1. n + Sending(i) <= m /\ (fwd[i] = "send" => held[i] = m - n)
        /\ \A j \in 1 .. n : q[j] = m - n + j
    BY <1>2, <1>3, <1>4 DEF PipeOK
  <2>2. \A j \in 1 .. n + 1 : inner'[i][j] = (m + 1) - (n + 1) + j
    <3>1. SUFFICES ASSUME NEW j \in 1 .. n + 1 PROVE inner'[i][j] = (m + 1) - (n + 1) + j
      OBVIOUS
    <3>2. CASE j \in 1 .. n
      <4>1. q[j] = m - n + j /\ inner'[i][j] = q[j]
        BY <1>8, <2>1, <3>2
      <4> QED BY <4>1
    <3>3. CASE j = n + 1
      BY <1>8, <3>3
    <3> QED BY <3>2, <3>3
  <2>3. (n + 1) + Sending(i) <= m + 1 /\ (fwd[i] = "send" => held[i] = (m + 1) - (n + 1))
    BY <1>9, <2>1
  <2> QED BY <1>1, <1>5, <1>8, <1>9, <2>2, <2>3 DEF PipeOK
<1>11. SentOf(i) = 1 + (m - n - Sending(i)) /\ SentOf(i)' = 1 + ((m + 1) - (n + 1) - Sending(i))
  BY <1>1, <1>2, <1>3, <1>4, <1>5, <1>8, <1>9 DEF SentOf, Passed
<1>12. Keeps(i)
  BY <1>5, <1>9, <1>11 DEF Keeps
<1>13. Grows(i)
  BY <1>1, <1>2, <1>5, <1>9, <1>11 DEF Grows
<1> QED BY <1>10, <1>12, <1>13 DEF Writes

LEMMA BodyEndWrites ==
    ASSUME TypeOK, Shape, NEW i \in Targets, LifeOK(i), PipeOK(i), BodyEnd(i)
    PROVE  Writes(i)
<1>1. task[i] = "body" /\ body'[i] \in Results
  BY DEF BodyEnd, Shape, TypeOK
<1>2. UNCHANGED <<task, made, inner, fwd, held, chan>>
  BY DEF BodyEnd, channel
<1>3. PipeOK(i)'
  BY <1>1, <1>2 DEF PipeOK, Sending
<1>4. Keeps(i)
  BY <1>2 DEF Keeps, SentOf, Passed, Sending
<1>5. SentOf(i) = 1 + Passed(i) /\ Passed(i) <= made[i] /\ made[i] \in Nat /\ Passed(i) \in Nat
  BY <1>1, PipeBounds
<1>6. Grows(i)
  BY <1>1, <1>2, <1>5 DEF Grows
<1> QED BY <1>3, <1>4, <1>6 DEF Writes

LEMMA ForwardRecvWrites ==
    ASSUME TypeOK, NEW i \in Targets, LifeOK(i), PipeOK(i), ForwardRecv(i)
    PROVE  Writes(i)
<1>1. task[i] = "body"
  BY DEF ForwardRecv, LifeOK, Early, Late, TypeOK
<1>2. PICK m \in Nat : m = made[i]
  BY RunTargetsAssumption DEF TypeOK
<1>3. PICK q \in Seq(1 .. MaxEvents) : q = inner[i]
  BY DEF TypeOK
<1>4. PICK n \in Nat : n = Len(q)
  OBVIOUS
<1>5. /\ fwd[i] = "recv" /\ fwd'[i] = "send" /\ held'[i] = Head(q) /\ inner'[i] = Tail(q)
      /\ q # <<>> /\ UNCHANGED <<task, body, made, chan>>
  BY <1>3 DEF ForwardRecv, TypeOK, channel
<1>6. n >= 1 /\ Len(Tail(q)) = n - 1 /\ Head(q) = q[1]
      /\ \A j \in 1 .. n - 1 : Tail(q)[j] = q[j + 1]
  BY <1>4, <1>5, HeadTailProperties
<1>7. n <= m /\ \A j \in 1 .. n : q[j] = m - n + j
  BY <1>2, <1>3, <1>4, <1>5 DEF PipeOK, Sending
<1>8. held'[i] = m - (n - 1)
  <2>1. q[1] = m - n + 1
    BY <1>6, <1>7
  <2> QED BY <1>5, <1>6, <2>1
<1>9. \A j \in 1 .. n - 1 : inner'[i][j] = m - (n - 1) + j
  <2> SUFFICES ASSUME NEW j \in 1 .. n - 1 PROVE inner'[i][j] = m - (n - 1) + j
    OBVIOUS
  <2>1. q[j + 1] = m - n + (j + 1)
    BY <1>7
  <2>2. inner'[i][j] = q[j + 1]
    BY <1>5, <1>6
  <2> QED BY <2>1, <2>2
<1>10. Sending(i) = 0 /\ Sending(i)' = 1
  BY <1>5 DEF Sending
<1>11. Len(inner'[i]) = n - 1 /\ made'[i] = m
  BY <1>2, <1>5, <1>6
<1>12. PipeOK(i)'
  <2>1. (n - 1) + 1 <= m
    BY <1>7
  <2> QED BY <1>5, <1>8, <1>9, <1>10, <1>11, <2>1 DEF PipeOK
<1>13. SentOf(i) = 1 + (m - n - 0) /\ SentOf(i)' = 1 + (m - (n - 1) - 1)
  BY <1>1, <1>2, <1>3, <1>4, <1>5, <1>10, <1>11 DEF SentOf, Passed
<1>14. Keeps(i)
  BY <1>5, <1>13 DEF Keeps
<1>15. Grows(i)
  BY <1>2, <1>5 DEF Grows
<1> QED BY <1>12, <1>14, <1>15 DEF Writes

LEMMA ForwardSendWrites ==
    ASSUME TypeOK, TypeOK', rxOpen, NEW i \in Targets, LifeOK(i), PipeOK(i), ForwardSend(i)
    PROVE  Writes(i)
<1>1. task[i] = "body"
  BY DEF ForwardSend, LifeOK, Early, Late, TypeOK
<1>2. PICK m \in Nat : m = made[i]
  BY RunTargetsAssumption DEF TypeOK
<1>3. PICK n \in Nat : n = Len(inner[i])
  BY DEF TypeOK
<1>4. /\ fwd[i] = "send" /\ fwd'[i] = "recv" /\ inner'[i] = inner[i] /\ UNCHANGED <<task, body, made>>
      /\ chan' = Append(chan, Inner(i, held[i]))
  BY DEF ForwardSend, TypeOK, Send
<1>5. n + 1 <= m /\ held[i] = m - n /\ \A j \in 1 .. n : inner[i][j] = m - n + j
  BY <1>2, <1>3, <1>4 DEF PipeOK, Sending
<1>6. Sending(i) = 1 /\ Sending(i)' = 0
  BY <1>4 DEF Sending
<1>7. PipeOK(i)'
  <2>1. n + 0 <= m
    BY <1>5
  <2> QED BY <1>2, <1>3, <1>4, <1>5, <1>6, <2>1 DEF PipeOK
<1>8. SentOf(i) = 1 + (m - n - 1) /\ SentOf(i)' = 1 + (m - n - 0)
  BY <1>1, <1>2, <1>3, <1>4, <1>6 DEF SentOf, Passed
<1>9. SentOf(i) \in Nat /\ SentOf(i) # 0 /\ SentOf(i) <= m /\ held[i] = SentOf(i)
  BY <1>5, <1>8
<1>10. Logs'[i][SentOf(i)] = Inner(i, held[i])
  <2>1. made'[i] = m
    BY <1>2, <1>4
  <2>2. PICK r \in Nat : r = SentOf(i)
    BY <1>9
  <2>3. Log(task', made', body')[i][r] = Inner(i, r)
    BY <1>9, <2>1, <2>2, LogAt
  <2> QED BY <1>9, <2>2, <2>3 DEF Logs
<1>11. Inner(i, held[i]) \in Events
  <2>1. m <= MaxEvents
    BY <1>2, RunTargetsAssumption DEF TypeOK
  <2>2. held[i] \in 1 .. MaxEvents
    BY <1>9, <2>1, RunTargetsAssumption
  <2> QED BY <2>2, EventTypes
<1>12. Puts(i)
  <2>1. SentOf(i)' = SentOf(i) + 1
    BY <1>8
  <2> QED BY <1>4, <1>10, <1>11, <2>1 DEF Puts
<1>13. Grows(i)
  BY <1>4 DEF Grows
<1> QED BY <1>7, <1>12, <1>13 DEF Writes

LEMMA ForwardEndWrites ==
    ASSUME TypeOK, NEW i \in Targets, LifeOK(i), PipeOK(i), ForwardEnd(i)
    PROVE  Writes(i)
<1>1. /\ fwd[i] = "recv" /\ fwd'[i] = "ended" /\ inner[i] = <<>> /\ body[i] \in Results
      /\ UNCHANGED <<task, body, made, inner, held, chan>>
  BY DEF ForwardEnd, TypeOK, channel
<1>2. Sending(i) = 0 /\ Sending(i)' = 0
  BY <1>1 DEF Sending
<1>3. PipeOK(i)'
  BY <1>1, <1>2 DEF PipeOK
<1>4. Keeps(i)
  BY <1>1, <1>2 DEF Keeps, SentOf, Passed
<1>5. Grows(i)
  BY <1>1 DEF Grows
<1> QED BY <1>3, <1>4, <1>5 DEF Writes

LEMMA TaskWrites ==
    ASSUME TypeOK, rxOpen, NEW i \in Targets, LifeOK(i), PipeOK(i), Task(i)
    PROVE  Writes(i)
<1>0. made[i] \in Nat /\ Len(inner[i]) \in Nat
  BY PipeBounds
<1>1. CASE TaskStart(i)
  <2>1. /\ task[i] = "starting" /\ task'[i] = "body" /\ fwd'[i] = "recv"
        /\ chan' = Append(chan, Started(i)) /\ UNCHANGED <<made, inner, held>>
    BY <1>1 DEF TaskStart, TypeOK, Send
  <2>2. made'[i] = 0 /\ inner'[i] = <<>> /\ Len(inner'[i]) = 0
    BY <2>1 DEF LifeOK, Early
  <2>3. Sending(i)' = 0
    BY <2>1 DEF Sending
  <2>4. PipeOK(i)'
    BY <2>1, <2>2, <2>3 DEF PipeOK
  <2>5. SentOf(i) = 0 /\ SentOf(i)' = 1 + (0 - 0 - 0)
    BY <2>1, <2>2, <2>3 DEF SentOf, Passed
  <2>6. Log(task', made', body')[i][0] = Started(i)
    BY <2>1, LogAt
  <2>7. Puts(i)
    BY <2>1, <2>5, <2>6, EventTypes DEF Puts, Logs
  <2> QED BY <2>4, <2>5, <2>7 DEF Writes, Grows
<1>2. CASE TaskAwaited(i)
  <2>1. /\ task[i] = "body" /\ task'[i] = "finish" /\ UNCHANGED <<chan, body, made, inner, fwd, held>>
    BY <1>2 DEF TaskAwaited, TypeOK, perTask, channel
  <2>2. PipeOK(i)'
    BY <2>1 DEF PipeOK, Sending
  <2>3. Keeps(i)
    BY <2>1 DEF Keeps, SentOf, Passed, Sending
  <2> QED BY <2>1, <2>2, <2>3 DEF Writes, Grows
<1>3. CASE TaskFinish(i)
  <2>1. /\ task[i] = "finish" /\ task'[i] = "release" /\ UNCHANGED <<body, made, inner, fwd, held>>
        /\ chan' = Append(chan, Finished(i, OutcomeOf(body[i])))
    BY <1>3 DEF TaskFinish, TypeOK, perTask, Send
  <2>2. fwd[i] = "ended" /\ inner[i] = <<>> /\ Len(inner[i]) = 0 /\ Sending(i) = 0
    BY <2>1 DEF LifeOK, Late, PipeOK, Sending
  <2>3. PipeOK(i)'
    BY <2>1 DEF PipeOK, Sending
  <2>4. SentOf(i) = 1 + (made[i] - 0 - 0) /\ SentOf(i)' = 2 + made[i]
    BY <2>1, <2>2 DEF SentOf, Passed
  <2>5. PICK r \in Nat : r = SentOf(i) /\ r = made[i] + 1
    BY <1>0, <2>4
  <2>6. Log(task', made', body')[i][r] = Finished(i, OutcomeOf(body[i]))
    <3>1. r # 0 /\ ~(r <= made'[i]) /\ body'[i] = body[i]
      BY <1>0, <2>1, <2>5
    <3> QED BY <3>1, LogAt
  <2>7. Finished(i, OutcomeOf(body[i])) \in Events
    BY EventTypes DEF OutcomeOf, Outcomes
  <2>8. SentOf(i)' = SentOf(i) + 1
    BY <1>0, <2>4
  <2>9. Puts(i)
    BY <2>1, <2>5, <2>6, <2>7, <2>8 DEF Puts, Logs
  <2> QED BY <2>1, <2>3, <2>9 DEF Writes, Grows
<1>4. CASE TaskRelease(i)
  <2>1. /\ task[i] = "release" /\ task'[i] = "done" /\ UNCHANGED <<chan, body, made, inner, fwd, held>>
    BY <1>4 DEF TaskRelease, TypeOK, perTask, channel
  <2>2. PipeOK(i)'
    BY <2>1 DEF PipeOK, Sending
  <2>3. Keeps(i)
    BY <2>1 DEF Keeps, SentOf
  <2> QED BY <2>1, <2>2, <2>3 DEF Writes, Grows
<1> QED BY <1>1, <1>2, <1>3, <1>4 DEF Task

LEMMA TargetWrites ==
    ASSUME TypeOK, TypeOK', Shape, rxOpen, NEW i \in Targets, LifeOK(i), PipeOK(i), OfTargetStep(i)
    PROVE  Writes(i)
BY TaskWrites, BodyEmitWrites, BodyEndWrites, ForwardRecvWrites, ForwardSendWrites, ForwardEndWrites
   DEF OfTargetStep, Forwarder

LEMMA CountersStay ==
    ASSUME TypeOK', Lives', \A i \in Targets : PipeOK(i)'
    PROVE  Counters'
<1>1. (TypeOK /\ Lives /\ (\A i \in Targets : PipeOK(i)))' => Counters'
  BY CountersHold, PTL
<1> QED BY <1>1

(* No transcript loses or changes what was sent of it, if each of them only *)
(* grows.                                                                  *)
LEMMA GrowsAgree ==
    ASSUME Counters, Counters', \A i \in Targets : Grows(i)
    PROVE  Agree(Logs, Logs', Sent)
<1>1. PICK ml : ml = made'
  OBVIOUS
<1>2. PICK tl : tl = task'
  OBVIOUS
<1>3. PICK bl : bl = body'
  OBVIOUS
<1>4. \A i \in Targets : Sent[i] = SentOf(i)
  BY DEF Sent
<1>5. \A i \in Targets :
        \/ Sent[i] = 0
        \/ /\ (task[i] = "refused") <=> (tl[i] = "refused")
           /\ \/ Sent[i] <= made[i] + 1 /\ made[i] <= ml[i]
              \/ made[i] = ml[i] /\ body[i] = bl[i]
  BY <1>1, <1>2, <1>3, <1>4 DEF Grows
<1>6. ml \in [Targets -> Nat]
  BY <1>1 DEF Counters
<1>7. Agree(Log(task, made, body), Log(tl, ml, bl), Sent)
  BY <1>5, <1>6, LogsAgree DEF Counters
<1> QED BY <1>1, <1>2, <1>3, <1>7 DEF Logs

LEMMA SentPointwise ==
    /\ \A i \in Targets : Sent[i] = SentOf(i) /\ Sent'[i] = SentOf(i)'
    /\ (\A i \in Targets : SentOf(i)' = SentOf(i)) => Sent' = Sent
    /\ \A h \in Targets :
         (/\ SentOf(h)' = SentOf(h) + 1
          /\ \A i \in Targets : i # h => SentOf(i)' = SentOf(i))
         => Sent' = [Sent EXCEPT ![h] = Sent[h] + 1]
BY DEF Sent

LEMMA LoopStreams ==
    ASSUME IInv, TypeOK', Lives, Lives', rxOpen, \A i \in Targets : PipeOK(i), Streams, AdmissionLoop
    PROVE  (\A i \in Targets : PipeOK(i)') /\ Streams'
<1>0. UNCHANGED <<body, made, inner, fwd, held, rxOpen, seen>>
  BY LoopTask DEF perTask
<1>1. \A i \in Targets : PipeOK(i)'
  BY <1>0 DEF PipeOK, Sending
<1>2. Counters /\ Counters'
  BY <1>1, CountersHold, CountersStay DEF IInv
<1>3. CASE UNCHANGED <<task, chan>>
  <2>1. \A i \in Targets : SentOf(i)' = SentOf(i) /\ Grows(i)
    BY <1>0, <1>3 DEF SentOf, Passed, Sending, Grows
  <2>2. Sent' = Sent
    BY <2>1, SentPointwise
  <2> QED BY <1>0, <1>1, <1>2, <1>3, <2>1, <2>2, GrowsAgree, StreamsQuiet
<1>4. CASE /\ next \in Targets /\ task[next] = "queued"
           /\ task' = [task EXCEPT ![next] = "starting"] /\ UNCHANGED chan
  <2>1. PICK h \in Targets : h = next
    BY <1>4
  <2>2. /\ \A i \in Targets : i # h => task'[i] = task[i]
        /\ task[h] = "queued" /\ task'[h] = "starting"
    BY <1>4, <2>1 DEF IInv, TypeOK
  <2>3. SentOf(h) = 0 /\ SentOf(h)' = 0
    BY <2>2 DEF SentOf
  <2>4. \A i \in Targets : i # h => SentOf(i)' = SentOf(i)
    BY <1>0, <2>2 DEF SentOf, Passed, Sending
  <2>5. \A i \in Targets : Grows(i)
    BY <1>0, <2>2, <2>3 DEF Grows
  <2>6. Sent' = Sent
    BY <2>3, <2>4, SentPointwise
  <2> QED BY <1>0, <1>1, <1>2, <1>4, <2>5, <2>6, GrowsAgree, StreamsQuiet
<1>5. CASE /\ next \in Targets /\ task[next] = "queued"
           /\ task' = [task EXCEPT ![next] = "refused"]
           /\ Send(Finished(next, "Cancelled"))
  <2>1. PICK h \in Targets : h = next
    BY <1>5
  <2>2. /\ \A i \in Targets : i # h => task'[i] = task[i]
        /\ task[h] = "queued" /\ task'[h] = "refused"
    BY <1>5, <2>1 DEF IInv, TypeOK
  <2>3. SentOf(h) = 0 /\ SentOf(h)' = 1
    BY <2>2 DEF SentOf
  <2>4. \A i \in Targets : i # h => SentOf(i)' = SentOf(i)
    BY <1>0, <2>2 DEF SentOf, Passed, Sending
  <2>5. \A i \in Targets : Grows(i)
    BY <1>0, <2>2, <2>3 DEF Grows
  <2>6. Sent' = [Sent EXCEPT ![h] = Sent[h] + 1] /\ Sent[h] = 0
    BY <2>3, <2>4, SentPointwise
  <2>7. Log(task', made', body')[h][0] = Finished(h, "Cancelled")
    <3>1. 0 \in Nat
      OBVIOUS
    <3> QED BY <2>2, <3>1, LogAt
  <2>8. /\ Logs'[h][Sent[h]] \in Events
        /\ chan' = Append(chan, Logs'[h][Sent[h]])
    BY <1>5, <2>1, <2>6, <2>7, EventTypes DEF Logs, Send, Outcomes
  <2>9. Agree(Logs, Logs', Sent)
    BY <1>2, <2>5, GrowsAgree
  <2>10. Streams'
    BY <1>0, <1>2, <2>6, <2>8, <2>9, StreamsSend DEF IInv
  <2> QED BY <1>1, <2>10
<1> QED BY <1>3, <1>4, <1>5, LoopTask

LEMMA TargetStreams ==
    ASSUME IInv, TypeOK', Lives, Lives', rxOpen, \A i \in Targets : PipeOK(i), Streams,
           NEW h \in Targets, OfTargetStep(h)
    PROVE  (\A i \in Targets : PipeOK(i)') /\ Streams'
<1>1. Writes(h)
  BY TargetWrites DEF IInv, Lives
<1>2. ASSUME NEW i \in Targets, i # h
      PROVE  PipeOK(i)' /\ SentOf(i)' = SentOf(i) /\ Grows(i)
  <2>1. /\ task'[i] = task[i] /\ body'[i] = body[i] /\ made'[i] = made[i]
        /\ inner'[i] = inner[i] /\ fwd'[i] = fwd[i] /\ held'[i] = held[i]
    BY <1>2, OneTarget DEF IInv
  <2>2. PipeOK(i)' /\ SentOf(i)' = SentOf(i)
    BY <2>1, Untouched
  <2> QED BY <2>1, <2>2 DEF Grows
<1>3. (\A i \in Targets : PipeOK(i)') /\ \A i \in Targets : Grows(i)
  BY <1>1, <1>2 DEF Writes
<1>4. Counters /\ Counters'
  BY <1>3, CountersHold, CountersStay DEF IInv
<1>5. Agree(Logs, Logs', Sent)
  BY <1>3, <1>4, GrowsAgree
<1>6. UNCHANGED seen
  BY DEF OfTargetStep, Task, TaskStart, TaskAwaited, TaskFinish, TaskRelease, BodyEmit, BodyEnd,
         Forwarder, ForwardRecv, ForwardSend, ForwardEnd, channel
<1>7. CASE Keeps(h)
  <2>1. UNCHANGED chan /\ \A i \in Targets : SentOf(i)' = SentOf(i)
    BY <1>2, <1>7 DEF Keeps
  <2>2. Sent' = Sent
    BY <2>1, SentPointwise
  <2> QED BY <1>3, <1>4, <1>5, <1>6, <2>1, <2>2, StreamsQuiet
<1>8. CASE Puts(h)
  <2>1. Sent' = [Sent EXCEPT ![h] = Sent[h] + 1] /\ Sent[h] = SentOf(h)
    BY <1>2, <1>8, SentPointwise DEF Puts
  <2>2. /\ Logs'[h][Sent[h]] \in Events
        /\ chan' = Append(chan, Logs'[h][Sent[h]])
    BY <1>8, <2>1 DEF Puts
  <2>3. Streams'
    BY <1>4, <1>5, <1>6, <2>1, <2>2, StreamsSend DEF IInv
  <2> QED BY <1>3, <2>3
<1> QED BY <1>1, <1>7, <1>8 DEF Writes

LEMMA StreamsStep ==
    ASSUME StreamInv, TypeOK', Lives', [Next]_vars
    PROVE  Pipes' /\ Streams'
<1> SUFFICES ASSUME rxOpen' PROVE (\A i \in Targets : PipeOK(i)') /\ Streams'
  BY Zenon DEF Pipes, Streams
<1>1. rxOpen
  <2>1. rxOpen' = rxOpen \/ rxOpen' = FALSE
    <3>1. CASE AdmissionLoop
      BY <3>1, LoopTask DEF StreamInv
    <3>2. CASE Receive \/ DropReceiver \/ Cancel \/ UNCHANGED vars
      BY <3>2 DEF Receive, DropReceiver, Cancel, channel, vars
    <3>3. CASE \E i \in Targets : OfTargetStep(i)
      BY <3>3 DEF OfTargetStep, Task, TaskStart, TaskAwaited, TaskFinish, TaskRelease, BodyEmit,
                  BodyEnd, Forwarder, ForwardRecv, ForwardSend, ForwardEnd, channel
    <3> QED BY <3>1, <3>2, <3>3 DEF Next, Over, OfTargetStep
  <2> QED BY <2>1
<1>2. IInv /\ TypeOK /\ Lives /\ Streams /\ \A i \in Targets : PipeOK(i)
  BY <1>1 DEF StreamInv, IInv, Pipes
<1>3. CASE AdmissionLoop
  BY <1>1, <1>2, <1>3, LoopStreams
<1>4. CASE \E i \in Targets : OfTargetStep(i)
  BY <1>1, <1>2, <1>4, TargetStreams
<1>5. CASE Receive
  <2>1. \A i \in Targets : PipeOK(i)'
    BY <1>2, <1>5 DEF Receive, perTask, PipeOK, Sending
  <2>2. Counters
    BY <1>2, CountersHold
  <2> QED BY <1>2, <1>5, <2>1, <2>2, StreamsReceive
<1>6. CASE Cancel \/ UNCHANGED vars
  <2>1. UNCHANGED <<task, body, made, inner, fwd, held, chan, seen>>
    BY <1>6 DEF Cancel, vars, perTask, channel
  <2>2. \A i \in Targets : PipeOK(i)' /\ SentOf(i)' = SentOf(i) /\ Grows(i)
    BY <1>2, <2>1 DEF PipeOK, SentOf, Passed, Sending, Grows
  <2>3. Counters /\ Counters'
    BY <1>2, <2>2, CountersHold, CountersStay
  <2>4. Sent' = Sent
    BY <2>2, SentPointwise
  <2>5. Agree(Logs, Logs', Sent)
    BY <2>2, <2>3, GrowsAgree
  <2> QED BY <1>1, <1>2, <2>1, <2>2, <2>3, <2>4, <2>5, StreamsQuiet
<1>7. CASE DropReceiver
  BY <1>7 DEF DropReceiver
<1> QED BY <1>3, <1>4, <1>5, <1>6, <1>7 DEF Next, Over, OfTargetStep

LEMMA ReturnedStep ==
    ASSUME IInv, Returned, [Next]_vars
    PROVE  Returned'
<1> SUFFICES ASSUME loop' = "returned", NEW j \in Targets
             PROVE  task'[j] \in {"done", "refused"}
  BY DEF Returned
<1>1. CASE AdmissionLoop
  BY <1>1 DEF AdmissionLoop, SelectCancelled, SelectNotCancelled, Acquire, Pending,
              RecheckCancelled, Admit, ReportCancelled, Advance, Join
<1>2. CASE \E i \in Targets : OfTargetStep(i)
  <2>1. PICK i \in Targets : OfTargetStep(i)
    BY <1>2
  <2>2. UNCHANGED loop
    BY <2>1 DEF OfTargetStep, Task, TaskStart, TaskAwaited, TaskFinish, TaskRelease, BodyEmit,
                BodyEnd, Forwarder, ForwardRecv, ForwardSend, ForwardEnd, admission
  <2>3. task[j] \in {"done", "refused"}
    BY <2>2 DEF Returned
  <2>4. CASE j # i
    BY <2>1, <2>3, <2>4, OneTarget DEF IInv
  <2>5. CASE j = i
    <3>1. ~Task(i)
      BY <2>3, <2>5 DEF Task, TaskStart, TaskAwaited, TaskFinish, TaskRelease
    <3>2. UNCHANGED task
      BY <2>1, <3>1 DEF OfTargetStep, BodyEmit, BodyEnd, Forwarder, ForwardRecv, ForwardSend,
                        ForwardEnd
    <3> QED BY <2>3, <3>2
  <2> QED BY <2>4, <2>5
<1>3. CASE Receive \/ DropReceiver \/ Cancel \/ UNCHANGED vars
  BY <1>3 DEF Receive, DropReceiver, Cancel, vars, admission, Returned
<1> QED BY <1>1, <1>2, <1>3 DEF Next, Over, OfTargetStep

LEMMA InitStream == Init => StreamInv
<1> SUFFICES ASSUME Init PROVE StreamInv
  OBVIOUS
<1>1. IInv
  BY InitIInv
<1>2. Lives
  BY DEF Init, Lives, LifeOK, Early, Late
<1>3. \A i \in Targets : PipeOK(i)
  BY DEF Init, PipeOK, Sending
<1>4. \A i \in Targets : Got[i] = 0 /\ Sent[i] = 0
  BY DEF Init, Got, Sent, SentOf
<1>5. Streams
  <2>1. \A i \in Targets : SeenOK(i)
    BY <1>4 DEF SeenOK
  <2>2. \A i \in Targets : Window(Got, Sent, i) = {}
    BY <1>4 DEF Window
  <2>3. Len(chan) = 0
    BY DEF Init
  <2>4. Windows(chan, Logs, Got, Sent)
    BY <2>2, <2>3 DEF Windows, OnlyWindows, AllWindows, InOrder
  <2> QED BY <2>1, <2>4 DEF Streams
<1>6. Returned
  BY DEF Init, Returned
<1> QED BY <1>1, <1>2, <1>3, <1>5, <1>6 DEF StreamInv, Pipes

LEMMA StreamInvariance == Spec => []StreamInv
<1>1. StreamInv /\ [Next]_vars => StreamInv'
  <2> SUFFICES ASSUME StreamInv, [Next]_vars PROVE StreamInv'
    OBVIOUS
  <2>1. IInv'
    BY StepIInv DEF StreamInv
  <2>2. Lives'
    BY LivesStep DEF StreamInv
  <2>3. Pipes' /\ Streams'
    BY <2>1, <2>2, StreamsStep DEF IInv
  <2>4. Returned'
    BY ReturnedStep DEF StreamInv
  <2> QED BY <2>1, <2>2, <2>3, <2>4 DEF StreamInv
<1> QED BY <1>1, InitStream, PTL DEF Spec

-----------------------------------------------------------------------------
(* What a prefix of a transcript says                                      *)

(* s holds the first events of target i's transcript.                      *)
IsPrefix(s, i, tk, md, bd) ==
    /\ Len(s) <= IF tk[i] = "refused" THEN 1 ELSE md[i] + 2
    /\ \A r \in 0 .. Len(s) - 1 : s[r + 1] = Log(tk, md, bd)[i][r]

(* Event j of such a prefix, from the number m of the body's events.       *)
EventIs(e, i, j, m, tk, bd) ==
    e = IF j = 1 THEN IF tk[i] = "refused" THEN Finished(i, "Cancelled") ELSE Started(i)
        ELSE IF j <= m + 1 THEN Inner(i, j - 1) ELSE Finished(i, OutcomeOf(bd[i]))

LEMMA PrefixAt ==
    ASSUME NEW i \in Targets, NEW s \in Seq(Events), NEW tk, NEW md \in [Targets -> Nat], NEW bd,
           IsPrefix(s, i, tk, md, bd), NEW j \in 1 .. Len(s)
    PROVE  EventIs(s[j], i, j, md[i], tk, bd)
<1>1. j - 1 \in 0 .. Len(s) - 1 /\ j - 1 \in Nat /\ (j - 1) + 1 = j
  OBVIOUS
<1>2. md[i] \in Nat
  OBVIOUS
<1>3. s[j] = Log(tk, md, bd)[i][j - 1]
  BY <1>1 DEF IsPrefix
<1>4. (j - 1 = 0 <=> j = 1) /\ (j - 1 <= md[i] <=> j <= md[i] + 1)
  BY <1>1, <1>2
<1> QED BY <1>1, <1>3, <1>4, LogAt DEF EventIs

LEMMA PhaseOfPrefix ==
    ASSUME NEW i \in Targets, NEW s \in Seq(Events), NEW tk, NEW md \in [Targets -> Nat], NEW bd,
           IsPrefix(s, i, tk, md, bd)
    PROVE  PhaseOf(s) = IF s = <<>> THEN "pending"
                        ELSE IF tk[i] = "refused" THEN "Cancelled"
                        ELSE IF Len(s) <= md[i] + 1 THEN "running" ELSE OutcomeOf(bd[i])
<1>1. CASE s = <<>>
  BY <1>1 DEF PhaseOf
<1>2. CASE s # <<>>
  <2>1. PICK n \in 1 .. Len(s) : n = Len(s)
    BY <1>2
  <2>2. PICK m \in Nat : m = md[i]
    OBVIOUS
  <2>3. PICK e : e = s[n]
    OBVIOUS
  <2>4. EventIs(e, i, n, m, tk, bd)
    BY <2>1, <2>2, <2>3, PrefixAt
  <2>5. tk[i] = "refused" => n = 1
    BY <2>1 DEF IsPrefix
  <2>6. n \in Nat /\ (n = 1 => n <= m + 1)
    BY <2>1
  <2>7. PhaseOf(s) = IF e.kind = "Finished" THEN e.arg ELSE "running"
    BY <1>2, <2>1, <2>3 DEF PhaseOf
  <2>8. CASE tk[i] = "refused"
    BY <1>2, <2>4, <2>5, <2>7, <2>8, EventParts DEF EventIs
  <2>9. CASE tk[i] # "refused" /\ n <= m + 1
    <3>1. e.kind # "Finished"
      BY <2>4, <2>9, EventParts DEF EventIs
    <3> QED BY <1>2, <2>1, <2>2, <2>7, <2>9, <3>1
  <2>10. CASE tk[i] # "refused" /\ ~(n <= m + 1)
    <3>1. e = Finished(i, OutcomeOf(bd[i]))
      BY <2>4, <2>6, <2>10 DEF EventIs
    <3> QED BY <1>2, <2>1, <2>2, <2>7, <2>10, <3>1, EventParts
  <2> QED BY <2>8, <2>9, <2>10
<1> QED BY <1>1, <1>2

(* The greatest of a set of places is the one that bounds it.              *)
LEMMA GreatestOf ==
    ASSUME NEW S \in SUBSET Nat, NEW c \in S, \A h \in S : h <= c
    PROVE  (CHOOSE j \in S : \A h \in S : h <= j) = c
<1>1. PICK d : d = CHOOSE j \in S : \A h \in S : h <= j
  OBVIOUS
<1>2. d \in S /\ \A h \in S : h <= d
  BY <1>1
<1>3. c <= d /\ d <= c /\ d \in Nat /\ c \in Nat
  BY <1>2
<1> QED BY <1>1, <1>3

LEMMA CountOfPrefix ==
    ASSUME NEW i \in Targets, NEW s \in Seq(Events), NEW tk, NEW md \in [Targets -> Nat], NEW bd,
           IsPrefix(s, i, tk, md, bd)
    PROVE  CountOf(s) = IF s = <<>> \/ tk[i] = "refused" THEN 0
                        ELSE IF Len(s) <= md[i] + 1 THEN Len(s) - 1 ELSE md[i]
<1>1. PICK n \in Nat : n = Len(s)
  OBVIOUS
<1>2. PICK m \in Nat : m = md[i]
  OBVIOUS
<1>3. PICK inners \in SUBSET Nat : inners = {j \in 1 .. n : s[j].kind = "Inner"}
  <2>1. 1 .. n \subseteq Nat
    OBVIOUS
  <2> QED BY <2>1
<1>4. CountOf(s) = IF inners = {} THEN 0
                   ELSE s[CHOOSE j \in inners : \A h \in inners : h <= j].arg
  BY <1>1, <1>3 DEF CountOf
<1>5. ASSUME NEW j \in 1 .. n
      PROVE  (s[j].kind = "Inner") <=> (j # 1 /\ j <= m + 1)
  <2>1. EventIs(s[j], i, j, m, tk, bd)
    BY <1>1, <1>2, PrefixAt
  <2> QED BY <2>1, EventParts DEF EventIs
<1>6. /\ inners \subseteq 1 .. n
      /\ \A j \in 1 .. n : j \in inners <=> (j # 1 /\ j <= m + 1)
  BY <1>3, <1>5
<1>7. (s = <<>> <=> n = 0) /\ (tk[i] = "refused" => n <= 1)
  BY <1>1 DEF IsPrefix
<1>8. CASE n <= 1 \/ m = 0
  <2>1. inners = {}
    BY <1>6, <1>8
  <2>2. n > 1 => ~(n <= m + 1)
    BY <1>8
  <2> QED BY <1>1, <1>2, <1>4, <1>7, <1>8, <2>1, <2>2
<1>9. CASE n > 1 /\ m # 0
  <2>1. PICK c \in Nat : c = IF n <= m + 1 THEN n - 1 ELSE m
    BY <1>9
  <2>2. c + 1 \in 1 .. n /\ c + 1 # 1 /\ c + 1 <= m + 1 /\ (c + 1) - 1 = c
    BY <1>9, <2>1
  <2>3. \A j \in 1 .. n : j <= m + 1 => j <= c + 1
    BY <2>1
  <2>4. c + 1 \in inners /\ \A j \in inners : j <= c + 1
    BY <1>6, <2>2, <2>3
  <2>5. (CHOOSE j \in inners : \A h \in inners : h <= j) = c + 1
    BY <2>4, GreatestOf
  <2>6. s[c + 1] = Inner(i, c)
    <3>1. EventIs(s[c + 1], i, c + 1, m, tk, bd)
      BY <1>1, <1>2, <2>2, PrefixAt
    <3> QED BY <2>2, <3>1 DEF EventIs
  <2>7. CountOf(s) = c
    <3>1. inners # {}
      BY <2>4
    <3>2. CountOf(s) = s[c + 1].arg
      BY <1>4, <2>5, <3>1
    <3> QED BY <2>6, <3>2, EventParts
  <2>8. s # <<>> /\ tk[i] # "refused"
    BY <1>7, <1>9
  <2> QED BY <1>1, <1>2, <2>1, <2>7, <2>8
<1> QED BY <1>8, <1>9

(* What the consumer has got is such a prefix.                             *)
LEMMA SeenIsPrefix ==
    ASSUME TypeOK, Lives, \A i \in Targets : PipeOK(i), NEW h \in Targets, SeenOK(h)
    PROVE  IsPrefix(seen[h], h, task, made, body)
<1>1. Got[h] = Len(seen[h]) /\ Sent[h] = SentOf(h) /\ Got[h] \in Nat
  BY DEF Got, Sent, TypeOK
<1>2. SentOf(h) \in Nat /\ SentOf(h) <= IF task[h] = "refused" THEN 1 ELSE made[h] + 2
  BY PipeBounds DEF Lives
<1>3. made[h] \in Nat
  BY PipeBounds DEF Lives
<1>4. Got[h] <= Sent[h] /\ \A r \in 0 .. Got[h] - 1 : seen[h][r + 1] = Logs[h][r]
  BY DEF SeenOK
<1>5. Len(seen[h]) <= IF task[h] = "refused" THEN 1 ELSE made[h] + 2
  BY <1>1, <1>2, <1>3, <1>4
<1> QED BY <1>1, <1>4, <1>5 DEF IsPrefix, Logs

-----------------------------------------------------------------------------
(* Nothing is lost, repeated, reordered or late: when run_targets has      *)
(* returned and its consumer, who stayed, has drained the channel, each    *)
(* target's transcript is complete.                                        *)
THEOREM Completeness == Spec => []CompleteOnReturn
<1>1. StreamInv => CompleteOnReturn
  <2> SUFFICES ASSUME StreamInv, loop = "returned", rxOpen, chan = <<>>, NEW i \in Targets
               PROVE  seen[i] = Transcript(i)
    BY DEF CompleteOnReturn
  <2>1. /\ TypeOK /\ Lives /\ (\A j \in Targets : PipeOK(j)) /\ SeenOK(i)
        /\ task[i] \in {"done", "refused"} /\ Windows(chan, Logs, Got, Sent)
    BY DEF StreamInv, IInv, Pipes, Streams, Returned
  <2>2. /\ Got[i] = Len(seen[i]) /\ Sent[i] = SentOf(i) /\ Got[i] \in Nat /\ SentOf(i) \in Nat
        /\ made[i] \in Nat /\ made[i] <= MaxEvents
    BY <2>1, PipeBounds, RunTargetsAssumption DEF Got, Sent, TypeOK, Lives
  <2>3. Got[i] = SentOf(i)
    <3>1. Len(chan) = 0
      OBVIOUS
    <3>2. Window(Got, Sent, i) = {}
      BY <2>1, <3>1 DEF Windows, AllWindows
    <3>3. Got[i] <= Sent[i]
      BY <2>1 DEF SeenOK
    <3>4. ~(Got[i] < Sent[i])
      <4> SUFFICES ASSUME Got[i] < Sent[i] PROVE Got[i] \in Window(Got, Sent, i)
        BY <3>2
      <4> QED BY <2>2 DEF Window
    <3> QED BY <2>2, <3>3, <3>4
  <2>4. seen[i] \in Seq(Events) /\ IsPrefix(seen[i], i, task, made, body)
    BY <2>1, SeenIsPrefix DEF TypeOK
  <2>5. PICK m \in Nat : m = made[i]
    BY <2>2
  <2>6. made \in [Targets -> Nat]
    BY <2>1, RunTargetsAssumption DEF TypeOK
  <2>7. ASSUME NEW j \in 1 .. Len(seen[i])
        PROVE  EventIs(seen[i][j], i, j, m, task, body)
    BY <2>4, <2>5, <2>6, PrefixAt
  <2>8. CASE task[i] = "refused"
    <3>1. Len(seen[i]) = 1
      BY <2>2, <2>3, <2>8 DEF SentOf
    <3>2. seen[i][1] = Finished(i, "Cancelled")
      BY <2>7, <2>8, <3>1 DEF EventIs
    <3>3. seen[i] = <<Finished(i, "Cancelled")>>
      BY <2>4, <3>1, <3>2
    <3> QED BY <2>8, <3>3 DEF Transcript
  <2>9. CASE task[i] = "done"
    <3>1. Len(seen[i]) = 2 + m
      BY <2>2, <2>3, <2>5, <2>9 DEF SentOf
    <3> DEFINE o == OutcomeOf(body[i])
               t1 == <<Started(i)>>
               t2 == [h \in 1 .. m |-> Inner(i, h)]
               t3 == <<Finished(i, o)>>
    <3>2. Started(i) \in Events /\ Finished(i, o) \in Events /\ \A h \in 1 .. m : Inner(i, h) \in Events
      <4>1. \A h \in 1 .. m : h \in 1 .. MaxEvents
        BY <2>2, <2>5, RunTargetsAssumption
      <4> QED BY <4>1, EventTypes DEF OutcomeOf, Outcomes
    <3>3. Transcript(i) = t1 \o t2 \o t3
      BY <2>5, <2>9 DEF Transcript, OutcomeOf
    <3>4. t1 \in Seq(Events) /\ Len(t1) = 1 /\ t1[1] = Started(i)
      BY <3>2
    <3>5. t2 \in Seq(Events) /\ Len(t2) = m /\ \A h \in 1 .. m : t2[h] = Inner(i, h)
      BY <3>2
    <3>6. t3 \in Seq(Events) /\ Len(t3) = 1 /\ t3[1] = Finished(i, o)
      BY <3>2
    <3> HIDE DEF t1, t2, t3, o
    <3>7. PICK u \in Seq(Events) : u = t1 \o t2
      BY <3>4, <3>5, ConcatProperties
    <3>8. Len(u) = 1 + m /\ \A h \in 1 .. 1 + m : u[h] = IF h <= 1 THEN t1[h] ELSE t2[h - 1]
      <4>1. /\ Len(u) = Len(t1) + Len(t2)
            /\ \A h \in 1 .. Len(t1) + Len(t2) : u[h] = IF h <= Len(t1) THEN t1[h] ELSE t2[h - Len(t1)]
        BY <3>4, <3>5, <3>7, ConcatProperties
      <4> QED BY <3>4, <3>5, <4>1
    <3>9. PICK v \in Seq(Events) : v = u \o t3
      BY <3>6, ConcatProperties
    <3>10. Len(v) = 2 + m /\ \A h \in 1 .. 2 + m : v[h] = IF h <= 1 + m THEN u[h] ELSE t3[h - (1 + m)]
      <4>1. /\ Len(v) = Len(u) + Len(t3)
            /\ \A h \in 1 .. Len(u) + Len(t3) : v[h] = IF h <= Len(u) THEN u[h] ELSE t3[h - Len(u)]
        BY <3>6, <3>9, ConcatProperties
      <4>2. Len(u) + Len(t3) = 2 + m
        BY <3>6, <3>8
      <4> QED BY <3>8, <4>1, <4>2
    <3>11. ASSUME NEW j \in 1 .. 2 + m
           PROVE  v[j] = seen[i][j]
      <4>1. EventIs(seen[i][j], i, j, m, task, body)
        BY <2>7, <3>1
      <4>2. CASE j = 1
        <5>1. v[1] = u[1] /\ u[1] = t1[1]
          BY <3>8, <3>10
        <5> QED BY <2>9, <3>4, <4>1, <4>2, <5>1 DEF EventIs
      <4>3. CASE j # 1 /\ j <= 1 + m
        <5>1. j \in 1 .. 1 + m /\ j - 1 \in 1 .. m /\ ~(j <= 1)
          BY <4>3
        <5>2. v[j] = u[j] /\ u[j] = t2[j - 1] /\ t2[j - 1] = Inner(i, j - 1)
          BY <3>5, <3>8, <3>10, <4>3, <5>1
        <5>3. j <= m + 1
          BY <4>3
        <5> QED BY <4>1, <4>3, <5>2, <5>3 DEF EventIs
      <4>4. CASE ~(j <= 1 + m)
        <5>1. j = 2 + m /\ j - (1 + m) = 1 /\ j # 1 /\ ~(j <= m + 1)
          BY <4>4
        <5>2. v[j] = Finished(i, o)
          BY <3>6, <3>10, <4>4, <5>1
        <5> QED BY <4>1, <5>1, <5>2 DEF EventIs, o
      <4> QED BY <4>2, <4>3, <4>4
    <3>12. v = seen[i]
      BY <2>4, <3>1, <3>10, <3>11, SeqEqual
    <3> QED BY <3>3, <3>7, <3>9, <3>12
  <2> QED BY <2>1, <2>8, <2>9
<1> QED BY <1>1, StreamInvariance, PTL

(* What a received event means for TargetProtocol.                         *)
LEMMA ReceiveMaps ==
    ASSUME StreamInv, Receive
    PROVE  Protocol!AbsNext
<1>1. /\ TypeOK /\ Lives /\ Streams /\ (\A i \in Targets : PipeOK(i)) /\ rxOpen
  BY DEF StreamInv, IInv, Pipes, Receive
<1>2. Counters
  BY <1>1, CountersHold
<1>3. PICK h \in Targets : /\ Got[h] < Sent[h] /\ Logs[h][Got[h]] \in Events
                           /\ seen' = [seen EXCEPT ![h] = Append(@, Logs[h][Got[h]])]
  BY <1>1, <1>2, StreamsReceive
<1>4. seen \in [Targets -> Seq(Events)] /\ made \in [Targets -> 0 .. MaxEvents]
  BY <1>1 DEF TypeOK
<1>5. PICK s \in Seq(Events) : s = seen[h]
  BY <1>4
<1>6. PICK n \in Nat : n = Len(s)
  OBVIOUS
<1>7. PICK m \in Nat : m = made[h] /\ m <= MaxEvents
  BY <1>4, RunTargetsAssumption
<1>8. PICK e \in Events : e = Logs[h][Got[h]]
  BY <1>3
<1>9. PICK t \in Seq(Events) : t = Append(s, e)
  BY AppendProperties
<1>10. /\ n = Got[h] /\ n < SentOf(h) /\ SentOf(h) \in Nat
       /\ SentOf(h) <= IF task[h] = "refused" THEN 1 ELSE m + 2
  BY <1>1, <1>3, <1>5, <1>6, <1>7, PipeBounds DEF Got, Sent, Lives
<1>11. /\ Len(t) = n + 1 /\ t # <<>> /\ t[n + 1] = e
       /\ \A j \in 1 .. n : t[j] = s[j]
  BY <1>6, <1>9, AppendProperties
<1>12. IsPrefix(s, h, task, made, body)
  BY <1>1, <1>5, SeenIsPrefix DEF Streams
<1>13. IsPrefix(t, h, task, made, body)
  <2>1. Len(t) <= IF task[h] = "refused" THEN 1 ELSE made[h] + 2
    BY <1>7, <1>10, <1>11
  <2>2. ASSUME NEW r \in 0 .. Len(t) - 1
        PROVE  t[r + 1] = Log(task, made, body)[h][r]
    <3>1. CASE r = n
      BY <1>8, <1>10, <1>11, <3>1 DEF Logs
    <3>2. CASE r # n
      <4>1. r \in 0 .. Len(s) - 1 /\ r + 1 \in 1 .. n
        BY <1>6, <1>11, <3>2
      <4> QED BY <1>11, <1>12, <4>1 DEF IsPrefix
    <3> QED BY <3>1, <3>2
  <2> QED BY <2>1, <2>2 DEF IsPrefix
<1>14. made \in [Targets -> Nat]
  BY <1>4, RunTargetsAssumption
<1>15. PICK p : p = PhaseOf(s)
  OBVIOUS
<1>16. PICK q : q = PhaseOf(t)
  OBVIOUS
<1>17. PICK c : c = CountOf(s)
  OBVIOUS
<1>18. PICK d : d = CountOf(t)
  OBVIOUS
<1>19. /\ p = IF n = 0 THEN "pending" ELSE IF task[h] = "refused" THEN "Cancelled"
               ELSE IF n <= m + 1 THEN "running" ELSE OutcomeOf(body[h])
       /\ c = IF n = 0 \/ task[h] = "refused" THEN 0 ELSE IF n <= m + 1 THEN n - 1 ELSE m
  <2>1. s = <<>> <=> n = 0
    BY <1>6
  <2>2. p = IF s = <<>> THEN "pending" ELSE IF task[h] = "refused" THEN "Cancelled"
            ELSE IF Len(s) <= made[h] + 1 THEN "running" ELSE OutcomeOf(body[h])
    BY <1>12, <1>14, <1>15, PhaseOfPrefix
  <2>3. c = IF s = <<>> \/ task[h] = "refused" THEN 0
            ELSE IF Len(s) <= made[h] + 1 THEN Len(s) - 1 ELSE made[h]
    BY <1>12, <1>14, <1>17, CountOfPrefix
  <2> QED BY <1>6, <1>7, <2>1, <2>2, <2>3
<1>20. /\ q = IF task[h] = "refused" THEN "Cancelled"
               ELSE IF n + 1 <= m + 1 THEN "running" ELSE OutcomeOf(body[h])
       /\ d = IF task[h] = "refused" THEN 0 ELSE IF n + 1 <= m + 1 THEN n ELSE m
  <2>1. q = IF t = <<>> THEN "pending" ELSE IF task[h] = "refused" THEN "Cancelled"
            ELSE IF Len(t) <= made[h] + 1 THEN "running" ELSE OutcomeOf(body[h])
    BY <1>13, <1>14, <1>16, PhaseOfPrefix
  <2>2. d = IF t = <<>> \/ task[h] = "refused" THEN 0
            ELSE IF Len(t) <= made[h] + 1 THEN Len(t) - 1 ELSE made[h]
    BY <1>13, <1>14, <1>18, CountOfPrefix
  <2>3. (n + 1) - 1 = n
    OBVIOUS
  <2> QED BY <1>7, <1>11, <2>1, <2>2, <2>3
<1>21. OutcomeOf(body[h]) \in {"Ok", "Failed"}
  BY DEF OutcomeOf
(* The step of TargetProtocol, in the mapped variables.                    *)
<1> DEFINE phase == [i \in Targets |-> PhaseOf(seen[i])]
           count == [i \in Targets |-> CountOf(seen[i])]
<1>22. /\ seen'[h] = t /\ \A i \in Targets : i # h => seen'[i] = seen[i]
  BY <1>3, <1>4, <1>5, <1>8, <1>9
<1>23. /\ phase[h] = p /\ count[h] = c
       /\ phase' = [phase EXCEPT ![h] = q] /\ count' = [count EXCEPT ![h] = d]
       /\ p = q => phase' = phase
       /\ c = d => count' = count
  BY <1>5, <1>15, <1>16, <1>17, <1>18, <1>22
<1>24. Protocol!AbsTargets = Targets
  BY DEF Protocol!AbsTargets, Targets
<1> HIDE DEF phase, count
<1>25. CASE n = 0 /\ task[h] # "refused"
  <2>1. p = "pending" /\ q = "running" /\ c = 0 /\ d = 0
    BY <1>7, <1>19, <1>20, <1>25
  <2>2. Protocol!HearStarted(h)
    BY <1>23, <2>1 DEF Protocol!HearStarted, phase, count
  <2> QED BY <1>24, <2>2 DEF Protocol!AbsNext
<1>26. CASE n = 0 /\ task[h] = "refused"
  <2>1. p = "pending" /\ q = "Cancelled" /\ c = 0 /\ d = 0
    BY <1>19, <1>20, <1>26
  <2>2. Protocol!HearFinished(h)
    BY <1>23, <2>1 DEF Protocol!HearFinished, phase, count
  <2> QED BY <1>24, <2>2 DEF Protocol!AbsNext
<1>27. CASE n # 0 /\ n <= m
  <2>1. task[h] # "refused"
    BY <1>10, <1>27
  <2>2. p = "running" /\ q = "running" /\ c = n - 1 /\ d = c + 1 /\ c < MaxEvents
    BY <1>7, <1>19, <1>20, <1>27, <2>1, RunTargetsAssumption
  <2>3. Protocol!HearInner(h)
    BY <1>23, <2>2 DEF Protocol!HearInner, phase, count
  <2> QED BY <1>24, <2>3 DEF Protocol!AbsNext
<1>28. CASE n # 0 /\ ~(n <= m)
  <2>1. task[h] # "refused" /\ n = m + 1
    BY <1>10, <1>28
  <2>2. p = "running" /\ q = OutcomeOf(body[h]) /\ c = m /\ d = m
    BY <1>19, <1>20, <1>28, <2>1
  <2>3. Protocol!HearFinished(h)
    BY <1>21, <1>23, <2>2 DEF Protocol!HearFinished, phase, count
  <2> QED BY <1>24, <2>3 DEF Protocol!AbsNext
<1> QED BY <1>25, <1>26, <1>27, <1>28

(* The consumer's stream implements TargetProtocol: no event comes before  *)
(* Started, none is lost, repeated or out of order, none follows Finished, *)
(* and there is one Finished; for any number of targets and any channels.  *)
THEOREM KeepsProtocol == Spec => ImplementsProtocol
<1>1. Init => Protocol!AbsInit
  <2> SUFFICES ASSUME Init PROVE Protocol!AbsInit
    OBVIOUS
  <2>1. \A i \in Targets : seen[i] = <<>>
    BY DEF Init
  <2>2. PhaseOf(<<>>) = "pending"
    BY DEF PhaseOf
  <2>3. CountOf(<<>>) = 0
    BY DEF CountOf
  <2> QED BY <2>1, <2>2, <2>3 DEF Protocol!AbsInit, Protocol!AbsTargets, Targets
<1>2. StreamInv /\ [Next]_vars => [Protocol!AbsNext]_(Protocol!absVars)
  <2> SUFFICES ASSUME StreamInv, [Next]_vars
               PROVE  Protocol!AbsNext \/ UNCHANGED Protocol!absVars
    OBVIOUS
  <2>1. CASE Receive
    BY <2>1, ReceiveMaps
  <2>2. CASE UNCHANGED seen
    BY <2>2 DEF Protocol!absVars
  <2>3. Receive \/ UNCHANGED seen
    <3>1. CASE AdmissionLoop
      BY <3>1, LoopTask DEF StreamInv
    <3>2. CASE \E i \in Targets : OfTargetStep(i)
      BY <3>2 DEF OfTargetStep, Task, TaskStart, TaskAwaited, TaskFinish, TaskRelease, BodyEmit,
                  BodyEnd, Forwarder, ForwardRecv, ForwardSend, ForwardEnd, channel
    <3>3. CASE DropReceiver \/ Cancel \/ UNCHANGED vars
      BY <3>3 DEF DropReceiver, Cancel, channel, vars
    <3> QED BY <3>1, <3>2, <3>3 DEF Next, Over, OfTargetStep
  <2> QED BY <2>1, <2>2, <2>3
<1> QED BY <1>1, <1>2, StreamInvariance, PTL DEF Spec, ImplementsProtocol, Protocol!AbsSpec

-----------------------------------------------------------------------------
(* The write transaction.                                                  *)

(* Where the future is says what it waits for or has been answered.        *)
ControlOK ==
    /\ at = "start"    => /\ conn = 0 /\ awaiting = 0 /\ answer = "none" /\ k = 0
                          /\ \A s \in Sessions : sess[s].state = "unopened"
    /\ at = "begin"    => k = 0 /\ (Awaits("BEGIN", NoStatement) \/ HasAnswer)
    /\ at = "stmt"     => k # 0 /\ (Awaits("WRITE", k) \/ HasAnswer)
    /\ at = "commit"   => Awaits("COMMIT", NoStatement) \/ HasAnswer
    /\ at = "rollback" => Awaits("ROLLBACK", NoStatement) \/ HasAnswer
    /\ at = "done"     => conn = 0 /\ awaiting = 0
    /\ awaiting # Aside
    /\ at = "done" <=> reply # "none"

(* What an answer is worth: after BEGIN or statement k succeeded, exactly  *)
(* the statements up to k are staged in the open transaction.              *)
AnswersOK ==
    /\ at \in {"begin", "stmt"} /\ answer \in Effective => Applied(k)
    /\ at = "commit" => answer # "mismatch" /\ (answer = "ok" => durable = Stmts)
    /\ reply = "ok" => durable = Stmts

(* A COMMIT is only ever in a session's pipeline while it is awaited, or   *)
(* after a timeout gave it up.                                             *)
CommitIsLast ==
    \A s \in Sessions : CommitNext(sess[s]) =>
        (at = "commit" /\ awaiting = s) \/ at = "grace" \/ reply = "timeout"

(* The batch becomes durable at once, by that COMMIT; if it failed, only a *)
(* lost link can have hidden its success.                                  *)
DurableOK ==
    /\ AllOrNothing
    /\ at \in {"start", "begin", "stmt"} => durable = {}
    /\ at = "commit" /\ answer # "ok" => durable = {} \/ lost
    /\ at = "rollback" \/ reply = "error" => durable = {} \/ lost

TxIInv == TxTypeOK /\ PipelinesOK /\ ControlOK /\ AnswersOK /\ CommitIsLast /\ DurableOK

-----------------------------------------------------------------------------
LEMMA InitOK == TxInit => TxIInv
<1> SUFFICES ASSUME TxInit PROVE TxIInv
  OBVIOUS
<1>1. SessionTypeOK /\ PipelinesOK /\ \A s \in Sessions : sess[s] = Fresh("unopened")
  BY SessionInitTypes DEF TxInit
<1>2. \A s \in Sessions : sess[s].state = "unopened" /\ sess[s].queue = <<>>
  BY <1>1 DEF Fresh
<1>3. 0 \in 0 .. NStmts
  BY WriteTxAssumption
<1>4. TxTypeOK
  BY <1>1, <1>3 DEF TxInit, TxTypeOK, Steps
<1>5. /\ conn = 0 /\ awaiting = 0 /\ answer = "none" /\ k = 0 /\ at = "start" /\ reply = "none"
      /\ durable = {} /\ awaiting # Aside
  BY ZeroIsNoSession DEF TxInit, SessionInit
<1>6. ControlOK
  BY <1>2, <1>5 DEF ControlOK
<1>7. AnswersOK /\ DurableOK
  BY <1>5 DEF AnswersOK, DurableOK, AllOrNothing
<1>8. CommitIsLast
  BY <1>2 DEF CommitIsLast, CommitNext
<1> QED BY <1>1, <1>4, <1>6, <1>7, <1>8 DEF TxIInv

(* The server answers, or works on what was given up.                      *)
LEMMA ServerStep ==
    ASSUME TxIInv, Server, UNCHANGED control
    PROVE  TxIInv'
<1>1. SessionTypeOK /\ PipelinesOK /\ awaiting # Aside /\ UNCHANGED <<checked, at, k, reply>>
  BY DEF TxIInv, TxTypeOK, ControlOK, control
<1>2. SessionTypeOK' /\ PipelinesOK'
  BY <1>1, ServerTypes
<1>3. TxTypeOK'
  BY <1>1, <1>2 DEF TxIInv, TxTypeOK
<1>4. /\ conn' = conn /\ (awaiting' = awaiting \/ awaiting' = 0) /\ (lost => lost')
      /\ conn = 0 /\ awaiting = 0 => awaiting' = 0 /\ lost' = lost
      /\ \A s \in Sessions : CommitNext(sess'[s]) =>
             CommitNext(sess[s]) /\ (awaiting = s => awaiting' = s)
      /\ durable' = durable \/ Commits
  BY <1>1, ServerCommits
<1>5. \A op, id : Awaits(op, id) => Awaits(op, id)' \/ (HasAnswer' /\ Tells(op, id))
  BY <1>1, ServerAnswers
<1>6. HasAnswer => /\ HasAnswer' /\ answer' = answer
                  /\ \A n : Applied(n) => Applied(n)'
  BY <1>1, AnsweredStays
<1>n. PICK n : n = k /\ n = k'
  BY <1>1
<1>7. at = "start" => /\ UNCHANGED <<conn, awaiting, answer, durable, lost>>
                      /\ \A s \in Sessions : sess'[s].state = "unopened"
  BY <1>1, ServerAtRest DEF TxIInv, ControlOK
<1>8. ControlOK'
  <2>1. awaiting' # Aside
    BY <1>1, <1>4, ZeroIsNoSession
  <2>2. at = "start" => /\ conn' = 0 /\ awaiting' = 0 /\ answer' = "none" /\ k = 0
                        /\ \A s \in Sessions : sess'[s].state = "unopened"
    BY <1>7 DEF TxIInv, ControlOK
  <2>3. /\ at = "begin" => k = 0 /\ (Awaits("BEGIN", NoStatement)' \/ HasAnswer')
        /\ at = "stmt" => k # 0 /\ (Awaits("WRITE", n)' \/ HasAnswer')
        /\ at = "commit" => Awaits("COMMIT", NoStatement)' \/ HasAnswer'
        /\ at = "rollback" => Awaits("ROLLBACK", NoStatement)' \/ HasAnswer'
    BY <1>5, <1>6, <1>n DEF TxIInv, ControlOK
  <2>5. at = "done" => conn' = 0 /\ awaiting' = 0
    BY <1>4 DEF TxIInv, ControlOK
  <2>6. Awaits("WRITE", n)' => Awaits("WRITE", k)'
    BY <1>n DEF Awaits
  <2> QED BY <1>1, <2>1, <2>2, <2>3, <2>5, <2>6 DEF TxIInv, ControlOK
<1>9. durable \in SUBSET Stmts /\ (durable' = durable \/ durable' = Stmts)
  <2>1. durable \in SUBSET Stmts
    BY <1>1 DEF SessionTypeOK
  <2>2. durable' = durable \/ durable' = durable \cup Stmts
    BY <1>4 DEF Commits
  <2> QED BY <2>1, <2>2
<1>10. AnswersOK'
  <2>1. at = "begin" /\ answer' \in Effective => Applied(0)'
    BY <1>5, <1>6 DEF TxIInv, ControlOK, AnswersOK, Tells, Awaits, Effective
  <2>2. at = "stmt" /\ answer' \in Effective => Applied(n)'
    BY <1>5, <1>6, <1>n DEF TxIInv, ControlOK, AnswersOK, Tells, Awaits, Effective
  <2>3. at \in {"begin", "stmt"} /\ answer' \in Effective => Applied(k)'
    BY <2>1, <2>2, <1>1, <1>n DEF TxIInv, ControlOK, Applied
  <2>4. at = "commit" => answer' # "mismatch" /\ (answer' = "ok" => durable' = Stmts)
    BY <1>5, <1>6, <1>9 DEF TxIInv, ControlOK, AnswersOK, Tells, Awaits
  <2>5. reply = "ok" => durable' = Stmts
    BY <1>9 DEF TxIInv, AnswersOK
  <2> QED BY <1>1, <2>3, <2>4, <2>5 DEF AnswersOK
<1>11. CommitIsLast'
  BY <1>1, <1>4 DEF TxIInv, CommitIsLast
<1>12. DurableOK'
  <2>1. at \in {"start", "begin", "stmt", "rollback"} \/ reply \in {"ok", "error"} => ~Commits
    BY DEF TxIInv, ControlOK, CommitIsLast, Commits
  <2>2. at \in {"start", "begin", "stmt"} => durable' = {}
    BY <1>4, <2>1 DEF TxIInv, DurableOK
  <2>3. at = "rollback" \/ reply = "error" => durable' = {} \/ lost'
    BY <1>4, <2>1 DEF TxIInv, DurableOK
  <2>4. ASSUME at = "commit", answer' # "ok" PROVE durable' = {} \/ lost'
    <3>1. CASE durable' = durable
      <4>1. answer # "ok"
        BY <1>6, <2>4 DEF TxIInv, ControlOK, Awaits
      <4> QED BY <1>4, <2>4, <3>1, <4>1 DEF TxIInv, DurableOK
    <3>2. CASE Commits
      <4>1. PICK s \in Sessions :
                /\ CommitNext(sess[s])
                /\ awaiting = s /\ Len(sess[s].queue) = 1 => answer' = "ok" \/ lost'
        BY <3>2 DEF Commits
      <4>2. awaiting = s /\ awaiting # 0
        BY <2>4, <4>1, ZeroIsNoSession DEF TxIInv, ControlOK, CommitIsLast
      <4>3. conn = s /\ Len(sess[s].queue) = 1
        BY <2>4, <4>2 DEF TxIInv, ControlOK, HasAnswer, Awaits
      <4> QED BY <2>4, <4>1, <4>2, <4>3
    <3> QED BY <1>4, <3>1, <3>2
  <2> QED BY <1>1, <1>9, <2>2, <2>3, <2>4 DEF TxIInv, DurableOK, AllOrNothing
<1> QED BY <1>2, <1>3, <1>8, <1>10, <1>11, <1>12 DEF TxIInv

-----------------------------------------------------------------------------
(* The future's steps: each statement finds the session its predecessor    *)
(* left.                                                                   *)

(* What a statement the future sends under its token comes to.             *)
LEMMA Sends ==
    ASSUME TxIInv, NEW c \in 0 .. MaxSessions, NEW op \in Ops, NEW id \in Stmts \cup {NoStatement},
           Execute(c, fired, Statement(op, id, RunToken)),
           UNCHANGED <<engine, fired, creqs, durable, view, lost, checked>>,
           c = 0 \/ sess[c].queue = <<>>,
           c = 0 => op \in {"BEGIN", "ROLLBACK"},
           c # 0 => sess[c].state = "closed" \/ Fits(sess[c], Statement(op, id, RunToken))
    PROVE  /\ SessionTypeOK' /\ PipelinesOK' /\ awaiting' # Aside
           /\ \A r \in Sessions : CommitNext(sess'[r]) =>
                    CommitNext(sess[r]) \/ (awaiting' = r /\ op = "COMMIT")
           /\ Awaits(op, id)' \/ (HasAnswer' /\ answer' \in {"error", "cancelled"})
           /\ answer' \notin Effective
<1>1. SessionTypeOK /\ PipelinesOK /\ fired' \in SUBSET Tokens /\ RunToken \in Tokens
  BY DEF TxIInv, TxTypeOK, SessionTypeOK, Tokens
<1>2. /\ SessionTypeOK' /\ PipelinesOK' /\ awaiting' # Aside
      /\ \A r \in Sessions : CommitNext(sess'[r]) =>
               CommitNext(sess[r]) \/ (awaiting' = r /\ op = "COMMIT")
      /\ Awaits(op, id)' \/ (HasAnswer' /\ answer' \in {"error", "cancelled"})
  BY <1>1, StatementSent
<1>3. answer' \notin Effective
  BY <1>2 DEF Awaits, Effective
<1> QED BY <1>2, <1>3

LEMMA StartStep == TxIInv /\ Start => TxIInv'
<1> SUFFICES ASSUME TxIInv, Start PROVE TxIInv'
  OBVIOUS
<1>1. /\ at = "start" /\ at' = "begin" /\ k = 0 /\ conn = 0 /\ durable = {} /\ reply = "none"
      /\ \A s \in Sessions : sess[s].state = "unopened"
      /\ UNCHANGED <<engine, fired, creqs, durable, view, lost, checked, k, reply>>
      /\ Execute(Opened, fired, Statement("BEGIN", NoStatement, RunToken))
  BY DEF TxIInv, ControlOK, DurableOK, Start
<1>2. Opened \in 0 .. MaxSessions /\ (Opened = 0 \/ Opened \in Sessions)
  BY SessionAssumption DEF Opened, Sessions
<1>3. \A s \in Sessions : /\ sess[s] = Fresh("unopened") /\ sess[s].queue = <<>>
                          /\ sess[s] \in SessionStates /\ sess[s] = Fresh(sess[s].state)
  <2>1. \A s \in Sessions : sess[s] = Fresh("unopened")
    BY <1>1 DEF TxIInv, PipelinesOK, PipelineOK
  <2> QED BY <2>1, FreshType
<1>4. Opened # 0 => Fits(sess[Opened], Statement("BEGIN", NoStatement, RunToken))
  <2>1. RunToken \in Tokens
    BY DEF Tokens
  <2> QED BY <1>2, <1>3, <2>1, StatementFits
<1>5. /\ SessionTypeOK' /\ PipelinesOK' /\ awaiting' # Aside
      /\ \A r \in Sessions : CommitNext(sess'[r]) => CommitNext(sess[r])
      /\ Awaits("BEGIN", NoStatement)' \/ (HasAnswer' /\ answer' \in {"error", "cancelled"})
      /\ answer' \notin Effective
  <2>1. "BEGIN" \in Ops
    BY DEF Ops
  <2> QED BY <1>1, <1>2, <1>3, <1>4, <2>1, Sends
<1>6. TxTypeOK'
  BY <1>1, <1>5 DEF TxIInv, TxTypeOK, Steps
<1>7. ControlOK'
  BY <1>1, <1>5 DEF ControlOK
<1>8. AnswersOK' /\ DurableOK'
  BY <1>1, <1>5 DEF AnswersOK, DurableOK, AllOrNothing
<1>9. CommitIsLast'
  BY <1>1, <1>5 DEF TxIInv, CommitIsLast
<1> QED BY <1>5, <1>6, <1>7, <1>8, <1>9 DEF TxIInv

LEMMA NextStatementStep == TxIInv /\ NextStatement => TxIInv'
<1> SUFFICES ASSUME TxIInv, NextStatement PROVE TxIInv'
  OBVIOUS
<1>1. /\ at \in {"begin", "stmt"} /\ at' = "stmt" /\ k < NStmts /\ k' = k + 1 /\ Succeeded
      /\ Execute(conn, fired, Statement("WRITE", k + 1, RunToken))
      /\ UNCHANGED <<engine, fired, creqs, durable, view, lost, checked, reply>>
  BY DEF NextStatement, Exec
<1>2. k \in Nat /\ k + 1 \in Stmts /\ k + 1 \in 0 .. NStmts /\ k + 1 # 0
  BY <1>1, WriteTxAssumption DEF TxIInv, TxTypeOK
<1>3. SessionTypeOK /\ HasAnswer /\ Applied(k) /\ durable = {} /\ reply = "none"
  <2>1. answer \in Effective
    BY <1>1 DEF Succeeded, Effective
  <2> QED BY <1>1, <2>1 DEF TxIInv, TxTypeOK, ControlOK, AnswersOK, DurableOK, Awaits, Effective
<1>4. /\ conn \in 0 .. MaxSessions /\ conn # 0 /\ sess[conn].queue = <<>>
      /\ sess[conn].state = "closed" \/ Fits(sess[conn], Statement("WRITE", k + 1, RunToken))
  <2>1. RunToken \in Tokens
    BY DEF Tokens
  <2> QED BY <1>2, <1>3, <2>1, NextFits
<1>5. /\ SessionTypeOK' /\ PipelinesOK' /\ awaiting' # Aside
      /\ \A r \in Sessions : CommitNext(sess'[r]) => CommitNext(sess[r])
      /\ Awaits("WRITE", k)' \/ (HasAnswer' /\ answer' \in {"error", "cancelled"})
      /\ answer' \notin Effective
  <2>1. "WRITE" \in Ops
    BY DEF Ops
  <2>2. PICK m : m = k + 1
    OBVIOUS
  <2>3. /\ SessionTypeOK' /\ PipelinesOK' /\ awaiting' # Aside
        /\ \A r \in Sessions : CommitNext(sess'[r]) => CommitNext(sess[r])
        /\ Awaits("WRITE", m)' \/ (HasAnswer' /\ answer' \in {"error", "cancelled"})
        /\ answer' \notin Effective
    BY <1>1, <1>2, <1>4, <2>1, <2>2, Sends
  <2>4. k' = m
    BY <1>1, <2>2
  <2> QED BY <2>3, <2>4 DEF Awaits
<1>6. TxTypeOK'
  BY <1>1, <1>2, <1>5 DEF TxIInv, TxTypeOK, Steps
<1>7. ControlOK'
  BY <1>1, <1>2, <1>3, <1>5 DEF ControlOK
<1>8. AnswersOK' /\ DurableOK'
  BY <1>1, <1>3, <1>5 DEF AnswersOK, DurableOK, AllOrNothing
<1>9. CommitIsLast'
  BY <1>1, <1>3, <1>5 DEF TxIInv, CommitIsLast
<1> QED BY <1>5, <1>6, <1>7, <1>8, <1>9 DEF TxIInv

LEMMA SendCommitStep == TxIInv /\ SendCommit => TxIInv'
<1> SUFFICES ASSUME TxIInv, SendCommit PROVE TxIInv'
  OBVIOUS
<1>1. /\ at = "stmt" /\ at' = "commit" /\ k = NStmts /\ Succeeded
      /\ Execute(conn, fired, Statement("COMMIT", NoStatement, RunToken))
      /\ UNCHANGED <<engine, fired, creqs, durable, view, lost, checked, k, reply>>
  BY DEF SendCommit, Exec
<1>2. k \in Nat /\ 1 .. k = Stmts
  BY <1>1, WriteTxAssumption DEF TxIInv, TxTypeOK
<1>3. SessionTypeOK /\ HasAnswer /\ Applied(k) /\ durable = {} /\ reply = "none"
  <2>1. answer \in Effective
    BY <1>1 DEF Succeeded, Effective
  <2> QED BY <1>1, <2>1 DEF TxIInv, TxTypeOK, ControlOK, AnswersOK, DurableOK, Awaits, Effective
<1>4. /\ conn \in 0 .. MaxSessions /\ conn # 0 /\ sess[conn].queue = <<>>
      /\ sess[conn].state = "closed" \/ Fits(sess[conn], Statement("COMMIT", NoStatement, RunToken))
  <2>1. RunToken \in Tokens
    BY DEF Tokens
  <2> QED BY <1>2, <1>3, <2>1, NextFits
<1>5. /\ SessionTypeOK' /\ PipelinesOK' /\ awaiting' # Aside
      /\ \A r \in Sessions : CommitNext(sess'[r]) => CommitNext(sess[r]) \/ awaiting' = r
      /\ Awaits("COMMIT", NoStatement)' \/ (HasAnswer' /\ answer' \in {"error", "cancelled"})
      /\ answer' \notin Effective
  <2>1. "COMMIT" \in Ops
    BY DEF Ops
  <2> QED BY <1>1, <1>4, <2>1, Sends
<1>6. TxTypeOK'
  BY <1>1, <1>5 DEF TxIInv, TxTypeOK, Steps
<1>7. ControlOK'
  BY <1>1, <1>3, <1>5 DEF ControlOK
<1>8. AnswersOK' /\ DurableOK'
  BY <1>1, <1>3, <1>5 DEF AnswersOK, DurableOK, AllOrNothing, Effective
<1>9. CommitIsLast'
  BY <1>1, <1>3, <1>5 DEF TxIInv, CommitIsLast
<1> QED BY <1>5, <1>6, <1>7, <1>8, <1>9 DEF TxIInv

(* No COMMIT is left in a pipeline once its failure is known.              *)
LEMMA NoCommitLeft ==
    ASSUME TxIInv, at \in {"start", "begin", "stmt", "rollback"} \/ (at = "commit" /\ answer # "none")
    PROVE  \A s \in Sessions : ~CommitNext(sess[s])
<1>1. at = "commit" => awaiting = 0
  BY DEF TxIInv, ControlOK, HasAnswer, Awaits
<1>2. reply = "none" /\ at # "grace"
  BY DEF TxIInv, ControlOK
<1> QED BY <1>1, <1>2, ZeroIsNoSession DEF TxIInv, CommitIsLast

LEMMA FailStep == TxIInv /\ Fail => TxIInv'
<1> SUFFICES ASSUME TxIInv, Fail PROVE TxIInv'
  OBVIOUS
<1>1. /\ at \in {"begin", "stmt", "commit"} /\ at' = "rollback"
      /\ answer \in {"error", "cancelled", "mismatch"}
      /\ Execute(conn, fired, Statement("ROLLBACK", NoStatement, RunToken))
      /\ UNCHANGED <<engine, fired, creqs, durable, view, lost, checked, k, reply>>
  BY DEF Fail, Exec, Mismatch
<1>2. SessionTypeOK /\ HasAnswer /\ reply = "none" /\ (durable = {} \/ lost)
  BY <1>1 DEF TxIInv, TxTypeOK, ControlOK, DurableOK, Awaits
<1>3. conn \in 0 .. MaxSessions /\ (conn = 0 \/ sess[conn].queue = <<>>)
  BY <1>2 DEF SessionTypeOK, HasAnswer
<1>4. conn # 0 => Fits(sess[conn], Statement("ROLLBACK", NoStatement, RunToken))
  <2>1. RunToken \in Tokens
    BY DEF Tokens
  <2> QED BY <1>2, <1>3, <2>1, ConnType, QueueType, StatementFits
<1>5. /\ SessionTypeOK' /\ PipelinesOK' /\ awaiting' # Aside
      /\ \A r \in Sessions : CommitNext(sess'[r]) => CommitNext(sess[r])
      /\ Awaits("ROLLBACK", NoStatement)' \/ (HasAnswer' /\ answer' \in {"error", "cancelled"})
      /\ answer' \notin Effective
  <2>1. "ROLLBACK" \in Ops
    BY DEF Ops
  <2> QED BY <1>1, <1>3, <1>4, <2>1, Sends
<1>6. TxTypeOK'
  BY <1>1, <1>5 DEF TxIInv, TxTypeOK, Steps
<1>7. ControlOK'
  BY <1>1, <1>2, <1>5 DEF ControlOK
<1>8. AnswersOK' /\ DurableOK'
  BY <1>1, <1>2, <1>5 DEF TxIInv, AnswersOK, DurableOK, AllOrNothing
<1>9. CommitIsLast'
  BY <1>1, <1>5, NoCommitLeft DEF CommitIsLast
<1> QED BY <1>5, <1>6, <1>7, <1>8, <1>9 DEF TxIInv

LEMMA ExpireStep == TxIInv /\ Expire => TxIInv'
<1> SUFFICES ASSUME TxIInv, Expire PROVE TxIInv'
  OBVIOUS
<1>1. /\ at \in {"begin", "stmt", "commit", "rollback"} /\ at' = "grace" /\ answer = "none"
      /\ fired' = fired \cup {RunToken}
      /\ Execute(AfterDrop, {}, Statement("ROLLBACK", NoStatement, FreshToken))
      /\ UNCHANGED <<engine, creqs, durable, view, lost, checked, k, reply>>
  BY DEF Expire
<1>2. SessionTypeOK /\ PipelinesOK /\ reply = "none"
  BY <1>1 DEF TxIInv, TxTypeOK, ControlOK
<1>3. conn \in Sessions /\ Len(sess[conn].queue) = 1
  BY <1>1 DEF TxIInv, ControlOK, HasAnswer, Awaits
<1>4. /\ AfterDrop \in 0 .. MaxSessions
      /\ AfterDrop # 0 => Fits(sess[AfterDrop], Statement("ROLLBACK", NoStatement, FreshToken))
  <2>1. 0 \in 0 .. MaxSessions /\ conn \in 0 .. MaxSessions
    BY <1>2, SessionAssumption DEF SessionTypeOK
  <2>2. AfterDrop = conn \/ AfterDrop = 0
    BY DEF AfterDrop
  <2>3. Statement("ROLLBACK", NoStatement, FreshToken).op = "ROLLBACK"
    BY DEF Statement
  <2> QED BY <1>3, <2>1, <2>2, <2>3 DEF Fits
<1>5. SessionTypeOK' /\ PipelinesOK' /\ awaiting' # Aside
  <2>1. "ROLLBACK" \in Ops /\ FreshToken \in Tokens /\ NoStatement \in Stmts \cup {NoStatement}
    BY DEF Ops, Tokens
  <2>2. fired' \in SUBSET Tokens
    BY <1>1, <1>2 DEF SessionTypeOK, Tokens
  <2> QED BY <1>1, <1>2, <1>4, <2>1, <2>2, StatementSent
<1>6. TxTypeOK'
  BY <1>1, <1>5 DEF TxIInv, TxTypeOK, Steps
<1>7. ControlOK'
  BY <1>1, <1>2, <1>5 DEF ControlOK
<1>8. AnswersOK' /\ DurableOK'
  BY <1>1, <1>2 DEF TxIInv, AnswersOK, DurableOK, AllOrNothing
<1>9. CommitIsLast'
  BY <1>1 DEF CommitIsLast
<1> QED BY <1>5, <1>6, <1>7, <1>8, <1>9 DEF TxIInv

(* The future returns: what it says is true, and but for a timeout nothing *)
(* can change it any more.                                                 *)
LEMMA ReturnStep ==
    ASSUME TxIInv, NEW r \in {"ok", "error", "timeout"}, Return(r),
           r = "ok" => durable = Stmts,
           r = "error" => durable = {} \/ lost,
           r # "timeout" => \A s \in Sessions : ~CommitNext(sess[s])
    PROVE  TxIInv'
<1>1. reply' = r /\ at' = "done" /\ UNCHANGED <<checked, k>> /\ DropConnection
  BY DEF Return
<1>2. /\ SessionTypeOK' /\ PipelinesOK'
      /\ conn' = 0 /\ awaiting' = 0 /\ awaiting' # Aside
      /\ UNCHANGED <<sess, durable, lost>>
  BY <1>1, DropTypes DEF TxIInv, TxTypeOK
<1>3. TxTypeOK'
  BY <1>1, <1>2 DEF TxIInv, TxTypeOK, Steps
<1>4. ControlOK'
  BY <1>1, <1>2 DEF ControlOK
<1>5. AnswersOK' /\ DurableOK'
  BY <1>1, <1>2 DEF TxIInv, AnswersOK, DurableOK, AllOrNothing
<1>6. CommitIsLast'
  BY <1>1, <1>2 DEF CommitIsLast
<1> QED BY <1>2, <1>3, <1>4, <1>5, <1>6 DEF TxIInv

LEMMA ReturnsTrue ==
    ASSUME TxIInv
    PROVE  /\ NotOpened => Return("error") /\ durable = {} /\ \A s \in Sessions : ~CommitNext(sess[s])
           /\ Committed => Return("ok") /\ durable = Stmts /\ \A s \in Sessions : ~CommitNext(sess[s])
           /\ RolledBack => /\ Return("error") /\ (durable = {} \/ lost)
                            /\ \A s \in Sessions : ~CommitNext(sess[s])
           /\ GraceAnswered \/ GraceExpires => Return("timeout")
<1>1. NotOpened => Return("error") /\ durable = {} /\ \A s \in Sessions : ~CommitNext(sess[s])
  BY NoCommitLeft DEF TxIInv, DurableOK, NotOpened
<1>2. Committed => Return("ok") /\ durable = Stmts /\ \A s \in Sessions : ~CommitNext(sess[s])
  BY NoCommitLeft DEF TxIInv, AnswersOK, Committed
<1>3. RolledBack => /\ Return("error") /\ (durable = {} \/ lost)
                    /\ \A s \in Sessions : ~CommitNext(sess[s])
  BY NoCommitLeft DEF TxIInv, DurableOK, RolledBack
<1>4. GraceAnswered \/ GraceExpires => Return("timeout")
  BY DEF GraceAnswered, GraceExpires
<1> QED BY <1>1, <1>2, <1>3, <1>4

LEMMA StutterStep == TxIInv /\ UNCHANGED txVars => TxIInv'
<1> SUFFICES ASSUME TxIInv, UNCHANGED txVars PROVE TxIInv'
  OBVIOUS
<1>1. UNCHANGED <<engine, sess, conn, awaiting, answer, fired, creqs, durable, view, lost>>
      /\ UNCHANGED <<checked, at, k, reply>>
  BY DEF txVars, sessionVars, control
<1>2. TxTypeOK'
  BY <1>1 DEF TxIInv, TxTypeOK, SessionTypeOK
<1>3. PipelinesOK'
  BY <1>1 DEF TxIInv, PipelinesOK
<1>4. ControlOK'
  BY <1>1 DEF TxIInv, ControlOK, Awaits, HasAnswer
<1>5. AnswersOK' /\ DurableOK'
  BY <1>1 DEF TxIInv, AnswersOK, DurableOK, AllOrNothing, Applied
<1>6. CommitIsLast'
  BY <1>1 DEF TxIInv, CommitIsLast
<1> QED BY <1>2, <1>3, <1>4, <1>5, <1>6 DEF TxIInv

LEMMA NextStep == TxIInv /\ [TxNext]_txVars => TxIInv'
<1> SUFFICES ASSUME TxIInv, [TxNext]_txVars PROVE TxIInv'
  OBVIOUS
<1>1. CASE NotOpened \/ Committed \/ RolledBack \/ GraceAnswered \/ GraceExpires
  BY <1>1, ReturnsTrue, ReturnStep
<1>2. CASE Start
  BY <1>2, StartStep
<1>3. CASE NextStatement
  BY <1>3, NextStatementStep
<1>4. CASE SendCommit
  BY <1>4, SendCommitStep
<1>5. CASE Fail
  BY <1>5, FailStep
<1>6. CASE Expire
  BY <1>6, ExpireStep
<1>7. CASE Server /\ UNCHANGED control
  BY <1>7, ServerStep
<1>8. CASE UNCHANGED txVars
  BY <1>8, StutterStep
<1> QED BY <1>1, <1>2, <1>3, <1>4, <1>5, <1>6, <1>7, <1>8 DEF TxNext, Client, Timers, Quiet

-----------------------------------------------------------------------------
(* Theorems *)

(* Types, and that the database never holds a part of the batch, whatever  *)
(* the engine does after an error, wherever the timeout or the lost link   *)
(* strikes.                                                                *)
THEOREM NeverSplit == TxSpec => []Inv
<1>1. TxIInv => Inv
  BY DEF TxIInv, DurableOK, Inv
<1> QED BY <1>1, InitOK, NextStep, PTL DEF TxSpec

(* The batch implements AtomicApply: it takes effect at one instant, "ok"  *)
(* is said only after it, "error" only if it has not taken effect and      *)
(* never will, unless the link was lost.                                   *)
THEOREM AppliesAtOnce == TxSpec => AppliesAtomically
<1> DEFINE applied == durable = Stmts
           told == IF reply = "error" /\ lost THEN "timeout" ELSE reply
<1>0. Stmts # {}
  <2>1. 1 \in 1 .. NStmts
    BY WriteTxAssumption
  <2> QED BY <2>1, WriteTxAssumption
<1>1. TxInit => Atomic!AbsInit
  BY <1>0 DEF TxInit, SessionInit, Atomic!AbsInit
<1>2. ASSUME TxIInv, TxIInv', [TxNext]_txVars
      PROVE  [Atomic!AbsNext]_<<applied, told>>
  <2>1. ASSUME UNCHANGED <<durable, lost, reply>>
        PROVE  UNCHANGED <<applied, told>>
    BY <2>1
  <2>2. CASE Server /\ UNCHANGED control
    <3>1. SessionTypeOK /\ PipelinesOK /\ awaiting # Aside /\ reply' = reply /\ AllOrNothing
      BY <1>2, <2>2 DEF TxIInv, TxTypeOK, ControlOK, DurableOK, control
    <3>2. /\ conn = 0 /\ awaiting = 0 => lost' = lost
          /\ durable' = durable \/ Commits
      BY <2>2, <3>1, ServerCommits
    <3>3. reply # "none" => lost' = lost
      BY <1>2, <3>2 DEF TxIInv, ControlOK
    <3>4. told' = told
      BY <3>1, <3>3
    <3>5. CASE durable' = durable
      BY <3>4, <3>5
    <3>6. CASE durable' # durable
      <4>1. Commits /\ durable' = Stmts /\ durable = {}
        BY <3>1, <3>2, <3>6 DEF Commits, SessionTypeOK, AllOrNothing
      <4>2. reply \in {"none", "timeout"}
        BY <1>2, <4>1 DEF TxIInv, ControlOK, CommitIsLast, Commits
      <4> QED BY <1>0, <3>4, <4>1, <4>2 DEF Atomic!AbsNext, Atomic!TakeEffect
    <3> QED BY <3>5, <3>6
  <2>3. CASE NotOpened \/ Committed \/ RolledBack \/ GraceAnswered \/ GraceExpires
    <3>1. PICK r \in {"ok", "error", "timeout"} :
              /\ Return(r)
              /\ r = "ok" => durable = Stmts
              /\ r = "error" => durable = {} \/ lost
      BY <1>2, <2>3, ReturnsTrue
    <3>2. reply' = r /\ UNCHANGED <<durable, lost>>
      BY <3>1 DEF Return, DropConnection
    <3>3. reply = "none"
      BY <1>2, <2>3 DEF TxIInv, ControlOK, NotOpened, Committed, RolledBack, GraceAnswered, GraceExpires
    <3> QED BY <1>0, <3>1, <3>2, <3>3 DEF Atomic!AbsNext, Atomic!Answer
  <2>4. CASE Start \/ NextStatement \/ SendCommit \/ Fail \/ Expire
    <3>1. UNCHANGED <<durable, lost, reply>>
      BY <2>4 DEF Start, NextStatement, SendCommit, Fail, Expire, Exec
    <3> QED BY <2>1, <3>1
  <2>5. CASE UNCHANGED txVars
    BY <2>1, <2>5 DEF txVars, sessionVars, control
  <2> QED BY <1>2, <2>2, <2>3, <2>4, <2>5 DEF TxNext, Client, Timers, Quiet
<1> QED BY <1>1, <1>2, InitOK, NextStep, PTL DEF TxSpec, AppliesAtomically, Atomic!AbsSpec
=============================================================================
