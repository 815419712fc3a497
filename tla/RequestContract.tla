--------------------------- MODULE RequestContract ---------------------------
(***************************************************************************)
(* What the workflow promises the caller of one request, with no stage, no *)
(* clock and no tool in it: the request is admitted once, worked on for a  *)
(* bounded number of rounds, given a verdict, and then either released     *)
(* with a verdict no better than the one it was given, or failed.          *)
(***************************************************************************)
EXTENDS Integers

CONSTANT MaxRounds

VARIABLES phase, rounds, verdict

vars == <<phase, rounds, verdict>>

Verdicts == {"validated", "degraded", "rejected"}

Init == phase = "received" /\ rounds = 1 /\ verdict = "none"

Admit == phase = "received" /\ phase' = "working" /\ UNCHANGED <<rounds, verdict>>

\* The one loop: the work is started over, a bounded number of times.
Redo ==
    /\ phase = "working"
    /\ rounds < MaxRounds
    /\ rounds' = rounds + 1
    /\ UNCHANGED <<phase, verdict>>

Judge ==
    /\ phase = "working"
    /\ phase' = "judged"
    /\ verdict' \in Verdicts
    /\ UNCHANGED rounds

\* Filtering the output can only cost the answer its verdict.
Release ==
    /\ phase = "judged"
    /\ phase' = "released"
    /\ verdict' \in {verdict, "degraded"}
    /\ UNCHANGED rounds

Fail ==
    /\ phase \in {"received", "working", "judged"}
    /\ phase' = "failed"
    /\ UNCHANGED <<rounds, verdict>>

Next == Admit \/ Redo \/ Judge \/ Release \/ Fail

Safety == Init /\ [][Next]_vars

\* Every request ends.
Ends == <>(phase \in {"released", "failed"})

Spec == Safety /\ Ends

=============================================================================
