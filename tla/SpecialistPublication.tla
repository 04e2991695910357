------------------------ MODULE SpecialistPublication ------------------------
(***************************************************************************)
(* What publication promises, without supervisor, threads, restores or     *)
(* crashes: of each mission at most one result is chosen, once; it becomes *)
(* visible only after the journal holds it; a mission that is closed shows *)
(* nothing, and what is visible or closed stays so.                        *)
(***************************************************************************)
CONSTANTS Missions, Attempts, NoAttempt

VARIABLES
    phase,    \* of each mission: open, chosen, visible or closed
    chosen,   \* the attempt whose result was chosen
    verdict,  \* accepted or stale, chosen with it
    ledger    \* the results the journal holds
vars == <<phase, chosen, verdict, ledger>>

Init ==
    /\ phase = [m \in Missions |-> "open"]
    /\ chosen = [m \in Missions |-> NoAttempt]
    /\ verdict = [m \in Missions |-> "none"]
    /\ ledger = {}

Choose(m, a, v) ==
    /\ phase[m] = "open"
    /\ phase' = [phase EXCEPT ![m] = "chosen"]
    /\ chosen' = [chosen EXCEPT ![m] = a]
    /\ verdict' = [verdict EXCEPT ![m] = v]
    /\ UNCHANGED ledger

\* Late is allowed: a result chosen before its mission was closed may still be
\* written down.
Record(m) ==
    /\ chosen[m] # NoAttempt
    /\ ledger' = ledger \cup {<<m, chosen[m], verdict[m]>>}
    /\ UNCHANGED <<phase, chosen, verdict>>

Show(m) ==
    /\ phase[m] = "chosen"
    /\ <<m, chosen[m], verdict[m]>> \in ledger
    /\ phase' = [phase EXCEPT ![m] = "visible"]
    /\ UNCHANGED <<chosen, verdict, ledger>>

Close(m) ==
    /\ phase[m] \in {"open", "chosen"}
    /\ phase' = [phase EXCEPT ![m] = "closed"]
    /\ UNCHANGED <<chosen, verdict, ledger>>

Next == \E m \in Missions :
    \/ \E a \in Attempts, v \in {"accepted", "stale"} : Choose(m, a, v)
    \/ Record(m) \/ Show(m) \/ Close(m)

Spec == Init /\ [][Next]_vars
=============================================================================
