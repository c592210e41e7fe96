------------------------------- MODULE TurnSlot -------------------------------
(***************************************************************************)
(* What the coordinator promises of its single execution slot, without the *)
(* tasks that keep the promise: calls enter one at a time, a call sends at *)
(* most one turn, its slot is given on only once that turn can no longer   *)
(* be executing, and once the bridge refuses work no other call enters.    *)
(***************************************************************************)
CONSTANT Runs

VARIABLES
    phase,      \* of each call: new, open, executing, ended, left
    refusing    \* the bridge refuses work until it is restarted

vars == <<phase, refusing>>

\* The call that has the slot, if any, is in one of these phases.
Holding == {"open", "executing", "ended"}
Phases == Holding \cup {"new", "left"}

Init == phase = [r \in Runs |-> "new"] /\ refusing = FALSE

Enter(r) ==
    /\ phase[r] = "new" /\ ~refusing
    /\ \A q \in Runs : phase[q] \notin Holding
    /\ phase' = [phase EXCEPT ![r] = "open"]
    /\ UNCHANGED refusing

\* A call that has the slot may still send its turn when the bridge gives up.
Execute(r) ==
    /\ phase[r] = "open"
    /\ phase' = [phase EXCEPT ![r] = "executing"]
    /\ UNCHANGED refusing

\* The turn has ended, or the runtime that executed it is gone.
End(r) ==
    /\ phase[r] = "executing"
    /\ phase' = [phase EXCEPT ![r] = "ended"]
    /\ UNCHANGED refusing

\* The slot is free again; an unconfirmed stop met on the way is remembered.
Leave(r) ==
    /\ phase[r] \in {"open", "ended"}
    /\ phase' = [phase EXCEPT ![r] = "left"]
    /\ refusing' \in {refusing, TRUE}

GiveUp == refusing' = TRUE /\ UNCHANGED phase

Next == GiveUp \/ \E r \in Runs : Enter(r) \/ Execute(r) \/ End(r) \/ Leave(r)

Spec == Init /\ [][Next]_vars

-----------------------------------------------------------------------------

TypeOK == phase \in [Runs -> Phases] /\ refusing \in BOOLEAN

\* At most one call has the slot, and so at most one turn executes.
OneHolder == \A r, q \in Runs :
    phase[r] \in Holding /\ phase[q] \in Holding => r = q

=============================================================================
