--------------------------- MODULE ApprovalLedger ---------------------------
(***************************************************************************)
(* What an approval is for: a grant of one call to one actor that is       *)
(* asked for, given, and then spent at most once or lost.                  *)
(***************************************************************************)
CONSTANTS Tokens, Grants, NoGrant

VARIABLES state, grant

vars == <<state, grant>>

Init ==
    /\ state = [t \in Tokens |-> "unused"]
    /\ grant = [t \in Tokens |-> NoGrant]

Ask(t) ==
    /\ state[t] = "unused"
    /\ state' = [state EXCEPT ![t] = "pending"]
    /\ \E g \in Grants : grant' = [grant EXCEPT ![t] = g]

Becomes(t, from, to) ==
    /\ state[t] \in from
    /\ state' = [state EXCEPT ![t] = to]
    /\ UNCHANGED grant

Give(t) == Becomes(t, {"pending"}, "approved")

Spend(t) == Becomes(t, {"approved"}, "spent")

Lapse(t) == Becomes(t, {"pending", "approved"}, "lapsed")

\* One step may lapse a token and ask for its successor.
Renew(t, u) ==
    /\ t # u
    /\ state[t] \in {"pending", "approved"}
    /\ state[u] = "unused"
    /\ state' = [state EXCEPT ![t] = "lapsed", ![u] = "pending"]
    /\ grant' = [grant EXCEPT ![u] = grant[t]]

Next ==
    \/ \E t \in Tokens : Ask(t) \/ Give(t) \/ Spend(t) \/ Lapse(t)
    \/ \E t, u \in Tokens : Renew(t, u)

Spec == Init /\ [][Next]_vars

=============================================================================
