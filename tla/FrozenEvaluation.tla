-------------------------- MODULE FrozenEvaluation --------------------------
(***************************************************************************)
(* What Strategy Lab promises of every run, without saying how: a strategy *)
(* is rewritten only while no held-out data has been seen, at most         *)
(* MaxVersions times; one version is then frozen, the held-out period is   *)
(* revealed once, and only the frozen version is scored on it.             *)
(***************************************************************************)
EXTENDS Naturals

CONSTANTS Runs, MaxVersions

VARIABLES
    phase,    \* "developing", "frozen", "revealed", "scored" or "failed"
    version,  \* versions written so far
    subject   \* the frozen version; 0 before the freeze

vars == <<phase, version, subject>>

Init ==
    /\ phase = [r \in Runs |-> "developing"]
    /\ version = [r \in Runs |-> 0]
    /\ subject = [r \in Runs |-> 0]

Write(r) ==
    /\ phase[r] = "developing"
    /\ version[r] < MaxVersions
    /\ version' = [version EXCEPT ![r] = @ + 1]
    /\ UNCHANGED <<phase, subject>>

Freeze(r) ==
    /\ phase[r] = "developing"
    /\ version[r] > 0
    /\ subject' = [subject EXCEPT ![r] = version[r]]
    /\ phase' = [phase EXCEPT ![r] = "frozen"]
    /\ UNCHANGED version

Reveal(r) ==
    /\ phase[r] = "frozen"
    /\ phase' = [phase EXCEPT ![r] = "revealed"]
    /\ UNCHANGED <<version, subject>>

Score(r) ==
    /\ phase[r] = "revealed"
    /\ phase' = [phase EXCEPT ![r] = "scored"]
    /\ UNCHANGED <<version, subject>>

Fail(r) ==
    /\ phase[r] \in {"developing", "frozen", "revealed"}
    /\ phase' = [phase EXCEPT ![r] = "failed"]
    /\ UNCHANGED <<version, subject>>

Next == \E r \in Runs : Write(r) \/ Freeze(r) \/ Reveal(r) \/ Score(r) \/ Fail(r)

Spec == Init /\ [][Next]_vars
=============================================================================
