----------------------------- MODULE RunTargets -----------------------------
(***************************************************************************)
(* dbc-connect/src/fanout.rs: one body run over N targets, with bounded    *)
(* parallelism, one bounded event channel and a cancel token.              *)
(*                                                                         *)
(* Processes: the admission loop (run_targets itself), one task per        *)
(* admitted target, its body (the caller's closure: the environment), its  *)
(* forwarder, and the consumer at the far end of the channel.  A step is   *)
(* what happens between two await points; the permit and the token are     *)
(* shared.  The events a body emits are numbered, so that loss,            *)
(* duplication and reordering are visible.  The panic of a body is its own *)
(* result.  Elapsed times are left out.                                    *)
(***************************************************************************)
EXTENDS Integers, Sequences, FiniteSets

CONSTANTS
    N,            \* number of targets
    MaxParallel,  \* the max_parallel argument; 0 is treated as 1
    ChanCap,      \* capacity of the event channel tx
    InnerCap,     \* capacity of each body's own channel
    MaxEvents     \* bound: events one body emits

ASSUME RunTargetsAssumption ==
    /\ N \in Nat
    /\ MaxParallel \in Nat
    /\ ChanCap \in Nat \ {0}
    /\ InnerCap \in Nat \ {0}
    /\ MaxEvents \in Nat

VARIABLES
    cancel,   \* the token has been cancelled
    cutoff,   \* history: the targets without a slot when the token fired
    loop,     \* where the admission loop is
    next,     \* the index it is at
    permits,  \* free permits of the semaphore
    task,     \* per target: where its task is
    body,     \* per target: "none", "running", or the result of the body
    made,     \* per target: events its body has emitted
    inner,    \* per target: the body's own channel
    fwd,      \* per target: where its forwarder is
    held,     \* per target: the event the forwarder is sending
    chan,     \* the event channel tx
    rxOpen,   \* the consumer still holds the receiver
    seen      \* per target: what the consumer has received

admission == <<loop, next, permits>>
perTask   == <<body, made, inner, fwd, held>>
channel   == <<chan, rxOpen, seen>>
token     == <<cancel, cutoff>>
vars == <<cancel, cutoff, loop, next, permits, task, body, made, inner, fwd,
          held, chan, rxOpen, seen>>

Targets == 0 .. N - 1

(* max_parallel.max(1) *)
Slots == IF MaxParallel = 0 THEN 1 ELSE MaxParallel

Outcomes == {"Ok", "Failed", "Cancelled"}
Results  == {"ok", "failed", "panic"}

Started(i)     == [kind |-> "Started",  ix |-> i, arg |-> "none"]
Inner(i, k)    == [kind |-> "Inner",    ix |-> i, arg |-> k]
Finished(i, o) == [kind |-> "Finished", ix |-> i, arg |-> o]

Events == {Started(i) : i \in Targets}
          \cup {Inner(i, k) : i \in Targets, k \in 1 .. MaxEvents}
          \cup {Finished(i, o) : i \in Targets, o \in Outcomes}

TypeOK ==
    /\ cancel \in BOOLEAN
    /\ cutoff \in SUBSET Targets
    /\ loop \in {"select", "poll", "recheck", "report", "join", "returned"}
    /\ next \in 0 .. N
    /\ loop \in {"join", "returned"} <=> next = N
    /\ permits \in 0 .. Slots
    /\ task \in [Targets -> {"queued", "starting", "body", "finish",
                             "release", "done", "refused"}]
    /\ body \in [Targets -> {"none", "running"} \cup Results]
    /\ made \in [Targets -> 0 .. MaxEvents]
    /\ inner \in [Targets -> Seq(1 .. MaxEvents)]
    /\ fwd \in [Targets -> {"none", "recv", "send", "ended"}]
    /\ held \in [Targets -> 0 .. MaxEvents]
    /\ chan \in Seq(Events)
    /\ rxOpen \in BOOLEAN
    /\ seen \in [Targets -> Seq(Events)]

Init ==
    /\ cancel = FALSE
    /\ cutoff = {}
    /\ loop = IF N = 0 THEN "join" ELSE "select"
    /\ next = 0
    /\ permits = Slots
    /\ task = [i \in Targets |-> "queued"]
    /\ body = [i \in Targets |-> "none"]
    /\ made = [i \in Targets |-> 0]
    /\ inner = [i \in Targets |-> <<>>]
    /\ fwd = [i \in Targets |-> "none"]
    /\ held = [i \in Targets |-> 0]
    /\ chan = <<>>
    /\ rxOpen = TRUE
    /\ seen = [i \in Targets |-> <<>>]

-----------------------------------------------------------------------------
(* A send on tx waits for room while the receiver is held; once it is      *)
(* dropped the send fails at once and the event is lost (the result is     *)
(* ignored).                                                               *)
Send(e) ==
    IF rxOpen
    THEN Len(chan) < ChanCap /\ chan' = Append(chan, e)
    ELSE UNCHANGED chan

(* The targets whose task holds a permit.                                  *)
Admitted == {i \in Targets : task[i] \in {"starting", "body", "finish", "release"}}

(* The loop itself holds a permit between acquiring it and the re-check.   *)
LoopHolds == IF loop = "recheck" THEN 1 ELSE 0

Advance ==
    /\ next' = next + 1
    /\ loop' = IF next + 1 = N THEN "join" ELSE "select"

-----------------------------------------------------------------------------
(* The admission loop *)

(* Mutant: the select is not biased, a ready poll may hide the token.      *)
SelectNotCancelled_Unbiased ==
    /\ loop = "select"
    /\ loop' = "poll"
    /\ UNCHANGED <<token, next, permits, task, perTask, channel>>

(* The biased select looks at the token first ...                          *)
SelectCancelled ==
    /\ loop = "select"
    /\ cancel
    /\ loop' = "report"
    /\ UNCHANGED <<token, next, permits, task, perTask, channel>>

SelectNotCancelled ==
    /\ loop = "select"
    /\ ~cancel
    /\ loop' = "poll"
    /\ UNCHANGED <<token, next, permits, task, perTask, channel>>

(* Mutant: the permit is not kept while the target is admitted.            *)
Acquire_NotKept ==
    /\ loop = "poll"
    /\ permits > 0
    /\ loop' = "recheck"
    /\ UNCHANGED <<token, next, permits, task, perTask, channel>>

(* ... and only then at the semaphore; the token may fire in between.      *)
Acquire ==
    /\ loop = "poll"
    /\ permits > 0
    /\ permits' = permits - 1
    /\ loop' = "recheck"
    /\ UNCHANGED <<token, next, task, perTask, channel>>

(* No permit: both branches are pending; a cancel or a permit wakes it.    *)
Pending ==
    /\ loop = "poll"
    /\ permits = 0
    /\ loop' = "select"
    /\ UNCHANGED <<token, next, permits, task, perTask, channel>>

(* Mutant: the permit is not dropped when the re-check refuses.            *)
RecheckCancelled_Leak ==
    /\ loop = "recheck"
    /\ cancel
    /\ loop' = "report"
    /\ UNCHANGED <<token, next, permits, task, perTask, channel>>

RecheckCancelled ==
    /\ loop = "recheck"
    /\ cancel
    /\ permits' = permits + 1
    /\ loop' = "report"
    /\ UNCHANGED <<token, next, task, perTask, channel>>

(* Mutant: a permit admits whatever the token says by then.                *)
Admit_NoRecheck ==
    /\ loop = "recheck"
    /\ task' = [task EXCEPT ![next] = "starting"]
    /\ Advance
    /\ UNCHANGED <<token, permits, perTask, channel>>

Admit ==
    /\ loop = "recheck"
    /\ ~cancel
    /\ task' = [task EXCEPT ![next] = "starting"]
    /\ Advance
    /\ UNCHANGED <<token, permits, perTask, channel>>

ReportCancelled ==
    /\ loop = "report"
    /\ Send(Finished(next, "Cancelled"))
    /\ task' = [task EXCEPT ![next] = "refused"]
    /\ Advance
    /\ UNCHANGED <<token, permits, perTask, rxOpen, seen>>

(* Every spawned task has been joined.                                     *)
Join ==
    /\ loop = "join"
    /\ \A i \in Targets : task[i] \in {"done", "refused"}
    /\ loop' = "returned"
    /\ UNCHANGED <<token, next, permits, task, perTask, channel>>

AdmissionLoop ==
    \/ SelectCancelled \/ SelectNotCancelled \/ Acquire \/ Pending
    \/ RecheckCancelled \/ Admit \/ ReportCancelled \/ Join

-----------------------------------------------------------------------------
(* The task of target i *)

TaskStart(i) ==
    /\ task[i] = "starting"
    /\ Send(Started(i))
    /\ task' = [task EXCEPT ![i] = "body"]
    /\ body' = [body EXCEPT ![i] = "running"]
    /\ fwd' = [fwd EXCEPT ![i] = "recv"]
    /\ UNCHANGED <<token, admission, made, inner, held, rxOpen, seen>>

(* Mutant: the forwarder is not awaited before Finished is sent.           *)
TaskAwaited_BodyOnly(i) ==
    /\ task[i] = "body"
    /\ body[i] \in Results
    /\ task' = [task EXCEPT ![i] = "finish"]
    /\ UNCHANGED <<token, admission, perTask, channel>>

(* The body's handle, then the forwarder's handle, have been awaited.      *)
TaskAwaited(i) ==
    /\ task[i] = "body"
    /\ body[i] \in Results
    /\ fwd[i] = "ended"
    /\ task' = [task EXCEPT ![i] = "finish"]
    /\ UNCHANGED <<token, admission, perTask, channel>>

(* Mutant: a panic is not told from a normal return.                       *)
OutcomeOf_PanicOk(r) == IF r = "failed" THEN "Failed" ELSE "Ok"

OutcomeOf(r) == IF r = "ok" THEN "Ok" ELSE "Failed"

TaskFinish(i) ==
    /\ task[i] = "finish"
    /\ Send(Finished(i, OutcomeOf(body[i])))
    /\ task' = [task EXCEPT ![i] = "release"]
    /\ UNCHANGED <<token, admission, perTask, rxOpen, seen>>

(* Mutant: the permit outlives the task.                                   *)
TaskRelease_Leak(i) ==
    /\ task[i] = "release"
    /\ task' = [task EXCEPT ![i] = "done"]
    /\ UNCHANGED <<token, admission, perTask, channel>>

TaskRelease(i) ==
    /\ task[i] = "release"
    /\ task' = [task EXCEPT ![i] = "done"]
    /\ permits' = permits + 1
    /\ UNCHANGED <<token, loop, next, perTask, channel>>

Task(i) == TaskStart(i) \/ TaskAwaited(i) \/ TaskFinish(i) \/ TaskRelease(i)

-----------------------------------------------------------------------------
(* The body (the caller's closure) and the forwarder of target i *)

BodyEmit(i) ==
    /\ body[i] = "running"
    /\ made[i] < MaxEvents
    /\ made' = [made EXCEPT ![i] = @ + 1]
    /\ IF fwd[i] = "ended"
       THEN UNCHANGED inner
       ELSE /\ Len(inner[i]) < InnerCap
            /\ inner' = [inner EXCEPT ![i] = Append(@, made[i] + 1)]
    /\ UNCHANGED <<token, admission, task, body, fwd, held, channel>>

BodyEnd(i) ==
    /\ body[i] = "running"
    /\ \E r \in Results : body' = [body EXCEPT ![i] = r]
    /\ UNCHANGED <<token, admission, task, made, inner, fwd, held, channel>>

ForwardRecv(i) ==
    /\ fwd[i] = "recv"
    /\ inner[i] # <<>>
    /\ held' = [held EXCEPT ![i] = Head(inner[i])]
    /\ inner' = [inner EXCEPT ![i] = Tail(@)]
    /\ fwd' = [fwd EXCEPT ![i] = "send"]
    /\ UNCHANGED <<token, admission, task, body, made, channel>>

(* A failed send ends the forwarder, whose receiver is dropped with what   *)
(* it still held.                                                          *)
ForwardSend(i) ==
    /\ fwd[i] = "send"
    /\ Send(Inner(i, held[i]))
    /\ fwd' = [fwd EXCEPT ![i] = IF rxOpen THEN "recv" ELSE "ended"]
    /\ inner' = [inner EXCEPT ![i] = IF rxOpen THEN @ ELSE <<>>]
    /\ held' = [held EXCEPT ![i] = 0]
    /\ UNCHANGED <<token, admission, task, body, made, rxOpen, seen>>

(* recv() returns None: the channel is empty and the body's sender gone.   *)
ForwardEnd(i) ==
    /\ fwd[i] = "recv"
    /\ inner[i] = <<>>
    /\ body[i] \in Results
    /\ fwd' = [fwd EXCEPT ![i] = "ended"]
    /\ UNCHANGED <<token, admission, task, body, made, inner, held, channel>>

Forwarder(i) == ForwardRecv(i) \/ ForwardSend(i) \/ ForwardEnd(i)

-----------------------------------------------------------------------------
(* The consumer and the user *)

Receive ==
    /\ rxOpen
    /\ chan # <<>>
    /\ seen' = [seen EXCEPT ![Head(chan).ix] = Append(@, Head(chan))]
    /\ chan' = Tail(chan)
    /\ UNCHANGED <<token, admission, task, perTask, rxOpen>>

(* The consumer goes away: what is queued is dropped, senders fail.        *)
DropReceiver ==
    /\ rxOpen
    /\ rxOpen' = FALSE
    /\ chan' = <<>>
    /\ UNCHANGED <<token, admission, task, perTask, seen>>

HasSlot(i) == i \in Admitted \/ (loop = "recheck" /\ i = next)

Cancel ==
    /\ ~cancel
    /\ cancel' = TRUE
    /\ cutoff' = {i \in Targets : task[i] = "queued" /\ ~HasSlot(i)}
    /\ UNCHANGED <<admission, task, perTask, channel>>

(* The run is over.                                                        *)
Over ==
    /\ loop = "returned"
    /\ chan = <<>>
    /\ UNCHANGED vars

Next ==
    \/ AdmissionLoop
    \/ \E i \in Targets : Task(i) \/ BodyEmit(i) \/ BodyEnd(i) \/ Forwarder(i)
    \/ Receive \/ DropReceiver \/ Cancel \/ Over

Spec == Init /\ [][Next]_vars

(* The runtime polls every ready task, and the consumer keeps receiving;   *)
(* nothing makes a body emit or end, nobody has to cancel.                 *)
RuntimeFairness ==
    /\ WF_vars(AdmissionLoop)
    /\ \A i \in Targets : WF_vars(Task(i)) /\ WF_vars(Forwarder(i))
    /\ WF_vars(Receive)

FairSpec == Spec /\ RuntimeFairness

(* No body hangs for ever: an assumption of one property only.             *)
BodiesEnd == \A i \in Targets : WF_vars(BodyEnd(i))

-----------------------------------------------------------------------------
(* Properties *)

(* No permit is lost or minted: free permits, the one the loop holds while *)
(* it re-checks the token and those of the admitted targets are always the *)
(* semaphore's size, so no path (cancel in the window, panic, dropped      *)
(* consumer) leaks a slot and at most Slots bodies are ever connected.     *)
PermitsConserved == permits + LoopHolds + Cardinality(Admitted) = Slots

(* At most max_parallel bodies run at once.                                *)
AtMostSlotsRun == Cardinality({i \in Targets : body[i] = "running"}) <= Slots

(* A target that had no slot when the token fired never runs its body: the *)
(* re-check after the select closes the window in which the permit lands   *)
(* together with the cancel.                                               *)
CancelledNeverRuns ==
    \A i \in cutoff : task[i] \in {"queued", "refused"} /\ body[i] = "none"

(* When run_targets has returned to a consumer that stayed and drained the *)
(* channel, every target has got: Finished{Cancelled} alone, or Started,   *)
(* every event of its body once and in order, and one Finished with the    *)
(* body's outcome (Failed for a panic) at the very end.                    *)
Transcript(i) ==
    IF task[i] = "refused"
    THEN <<Finished(i, "Cancelled")>>
    ELSE <<Started(i)>> \o [k \in 1 .. made[i] |-> Inner(i, k)]
         \o <<Finished(i, IF body[i] = "ok" THEN "Ok" ELSE "Failed")>>

CompleteOnReturn ==
    loop = "returned" /\ rxOpen /\ chan = <<>> => \A i \in Targets : seen[i] = Transcript(i)

(* Once the token fires, every target still waiting for a slot is reported *)
(* even if no running body ever ends.                                      *)
CancelDrainsQueue == cancel ~> (loop = "join" \/ loop = "returned")

(* If every body ends, run_targets returns, whether or not the token fires *)
(* and whether or not the consumer stays.                                  *)
Returns == BodiesEnd => <>(loop = "returned")

-----------------------------------------------------------------------------
(* What the consumer may rely on *)

PhaseOf(s) ==
    IF s = <<>> THEN "pending"
    ELSE LET last == s[Len(s)] IN
         IF last.kind = "Finished" THEN last.arg ELSE "running"

CountOf(s) ==
    LET inners == {j \in 1 .. Len(s) : s[j].kind = "Inner"} IN
    IF inners = {} THEN 0
    ELSE s[CHOOSE j \in inners : \A k \in inners : k <= j].arg

Protocol == INSTANCE TargetProtocol WITH
    phase <- [i \in Targets |-> PhaseOf(seen[i])],
    count <- [i \in Targets |-> CountOf(seen[i])]

(* The stream a consumer sees, through the bounded channel, the forwarders *)
(* and the tasks of several targets, implements TargetProtocol: no event   *)
(* before Started, none lost, repeated or reordered, none after Finished,  *)
(* exactly one Finished.                                                   *)
ImplementsProtocol == Protocol!AbsSpec
=============================================================================
