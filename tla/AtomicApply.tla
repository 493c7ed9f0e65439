----------------------------- MODULE AtomicApply -----------------------------
(***************************************************************************)
(* What the Apply dialog promises about a batch of writes: all of it takes *)
(* effect at one instant or none of it ever does; "ok" is said only after  *)
(* it has, "error" only if it has not and never will.  After "timeout" the *)
(* batch may still take effect.                                            *)
(***************************************************************************)
VARIABLES
    applied,  \* the batch has taken effect
    reply     \* what the user was told: "none", "ok", "error", "timeout"

AbsInit == applied = FALSE /\ reply = "none"

TakeEffect ==
    /\ ~applied
    /\ reply \in {"none", "timeout"}
    /\ applied' = TRUE
    /\ UNCHANGED reply

Answer ==
    /\ reply = "none"
    /\ \/ reply' = "ok" /\ applied
       \/ reply' = "error" /\ ~applied
       \/ reply' = "timeout"
    /\ UNCHANGED applied

AbsNext == TakeEffect \/ Answer

AbsSpec == AbsInit /\ [][AbsNext]_<<applied, reply>>
=============================================================================
