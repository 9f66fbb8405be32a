---------------------------- MODULE SeedContract ---------------------------
(***************************************************************************)
(* What the user phase of a seed run promises to whoever started it        *)
(* (docstrings of run() in db_setup.py and of run_user_batches): users     *)
(* become visible only while a run is going on and never disappear, and a  *)
(* run that reports success made exactly Count new users visible.          *)
(***************************************************************************)
EXTENDS Integers, FiniteSets

CONSTANTS Users, Count

VARIABLES
    visible,   \* users the API can find
    base,      \* those that were visible before the current run
    outcome    \* "none" | "running" | "success" | "failure" | "killed"

vars == <<visible, base, outcome>>

Init == visible = {} /\ base = {} /\ outcome = "none"

Begin ==
    /\ outcome # "running"
    /\ outcome' = "running" /\ base' = visible
    /\ UNCHANGED visible

Publish(S) ==
    /\ outcome = "running"
    /\ visible' = visible \cup S
    /\ UNCHANGED <<base, outcome>>

Succeed ==
    /\ outcome = "running" /\ Cardinality(visible \ base) = Count
    /\ outcome' = "success"
    /\ UNCHANGED <<visible, base>>

GiveUp ==
    /\ outcome = "running"
    /\ outcome' \in {"failure", "killed"}
    /\ UNCHANGED <<visible, base>>

Next ==
    \/ Begin
    \/ \E S \in SUBSET (Users \ visible) : Publish(S)
    \/ Succeed
    \/ GiveUp

Spec == Init /\ [][Next]_vars
=============================================================================
