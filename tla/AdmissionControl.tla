-------------------------- MODULE AdmissionControl --------------------------
(***************************************************************************)
(* What an admission guard promises, whatever it counts with: no more than *)
(* MaxRunning requests run at once, no more than MaxQueued wait, and every *)
(* request is in the end served or refused.                                *)
(***************************************************************************)
EXTENDS Naturals, FiniteSets

CONSTANTS Requests, MaxRunning, MaxQueued

VARIABLE status

Statuses == {"arriving", "queued", "running", "served", "refused"}

In(s) == {r \in Requests : status[r] = s}

Move(r, s) == status' = [status EXCEPT ![r] = s]

Init == status = [r \in Requests |-> "arriving"]

Queue(r) ==
    /\ status[r] = "arriving"
    /\ Cardinality(In("queued")) < MaxQueued
    /\ Move(r, "queued")

Admit(r) ==
    /\ status[r] \in {"arriving", "queued"}
    /\ Cardinality(In("running")) < MaxRunning
    /\ Move(r, "running")

Refuse(r) == status[r] \in {"arriving", "queued"} /\ Move(r, "refused")

Serve(r) == status[r] = "running" /\ Move(r, "served")

Next == \E r \in Requests : Queue(r) \/ Admit(r) \/ Refuse(r) \/ Serve(r)

\* Every request is served or refused.
Decided == \A r \in Requests : <>(status[r] \in {"served", "refused"})

Safety == Init /\ [][Next]_status

Spec == Safety /\ Decided

=============================================================================
