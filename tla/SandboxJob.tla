----------------------------- MODULE SandboxJob -----------------------------
(***************************************************************************)
(* What a sandbox promises to the service that calls it, without saying    *)
(* how: it is answered, once, with a reply the service can classify; a     *)
(* strategy is called good, or charged with a failure of its own code,     *)
(* only after it ran.  A resource limit is charged from outside and may    *)
(* come before that.                                                       *)
(***************************************************************************)
EXTENDS SandboxReplies

VARIABLES
    phase,  \* "submitted", "running" or "answered"
    reply   \* what the caller got; "none" before

vars == <<phase, reply>>

Earned == {"ok"} \cup (SAFE_SMOKE_ERRORS \ {"STRATEGY_RESOURCE_LIMIT"})

Init ==
    /\ phase = "submitted"
    /\ reply = "none"

Run ==
    /\ phase = "submitted"
    /\ phase' = "running"
    /\ UNCHANGED reply

Answer ==
    /\ \/ phase = "submitted" /\ reply' \in SmokeReplies \ Earned
       \/ phase = "running" /\ reply' \in SmokeReplies
    /\ phase' = "answered"

Next == Run \/ Answer

Spec == Init /\ [][Next]_vars /\ WF_vars(Answer)
=============================================================================
