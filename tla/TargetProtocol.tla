--------------------------- MODULE TargetProtocol ---------------------------
(***************************************************************************)
(* What a consumer of a multi-target run may rely on, target by target: it *)
(* hears Started, then the events of the body in the order they were       *)
(* emitted, then exactly one Finished; or Finished{Cancelled} alone.       *)
(* Nothing is said about how targets interleave.                           *)
(***************************************************************************)
EXTENDS Integers

CONSTANTS N, MaxEvents

VARIABLES
    phase,  \* per target: "pending", "running" or the outcome reported
    count   \* per target: events of the body received so far

absVars == <<phase, count>>

AbsTargets == 0 .. N - 1

AbsInit ==
    /\ phase = [i \in AbsTargets |-> "pending"]
    /\ count = [i \in AbsTargets |-> 0]

HearStarted(i) ==
    /\ phase[i] = "pending"
    /\ phase' = [phase EXCEPT ![i] = "running"]
    /\ UNCHANGED count

HearInner(i) ==
    /\ phase[i] = "running"
    /\ count[i] < MaxEvents
    /\ count' = [count EXCEPT ![i] = @ + 1]
    /\ UNCHANGED phase

HearFinished(i) ==
    /\ \/ phase[i] = "running" /\ \E o \in {"Ok", "Failed"} :
                                     phase' = [phase EXCEPT ![i] = o]
       \/ phase[i] = "pending" /\ phase' = [phase EXCEPT ![i] = "Cancelled"]
    /\ UNCHANGED count

AbsNext == \E i \in AbsTargets : HearStarted(i) \/ HearInner(i) \/ HearFinished(i)

AbsSpec == AbsInit /\ [][AbsNext]_absVars
=============================================================================
