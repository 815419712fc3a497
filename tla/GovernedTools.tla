---------------------------- MODULE GovernedTools ----------------------------
(***************************************************************************)
(* The governed tool boundary: ToolAgentService's loop                     *)
(* (app/agents/tool/service.py), ToolRegistry.invoke (app/mcp/registry.py) *)
(* and the approval store (app/mcp/approvals.py), shared by the requests   *)
(* of one process.                                                         *)
(*                                                                         *)
(* Everything runs on one event loop, so an action is what the code does   *)
(* between two awaits: the selector's model call and the executor are the  *)
(* places where other requests, confirmations and the clock get in.        *)
(***************************************************************************)
EXTENDS Naturals, Sequences, FiniteSets

CONSTANTS
    Sessions,      \* requests that reach the tool stage
    Actors,
    Nobody,        \* the actor of a session not yet opened
    Calls,         \* exact calls: a tool and its arguments
    Guarded,       \* those whose operation is write, delete, send or charge
    MaxSteps,      \* TOOL_MAX_STEPS
    MaxRounds,     \* times the workflow runs the tool stage
    MaxTokens      \* bound: approvals created

ASSUME ToolsAssumption ==
    /\ Nobody \notin Actors
    /\ Guarded \subseteq Calls
    /\ MaxSteps \in Nat \ {0} /\ MaxRounds \in Nat \ {0} /\ MaxTokens \in Nat

VARIABLES
    at,         \* where each session's tool stage is
    actor,      \* the authenticated user of each session
    round,      \* times the stage was entered
    resume,     \* the request's approval_token, 0 for none
    attempted,  \* fingerprints of this round's calls
    results,    \* statuses of this round's results
    approvals,  \* ApprovalStore._requests; a token is an index
    starts,     \* executor starts (history)
    owing       \* this round's invocation has no record in AuditLog.records

stage == <<at, actor, round, resume, attempted, results>>
vars == <<stage, approvals, starts, owing>>

NoToken == 0

Tokens == 1..Len(approvals)

Init ==
    /\ at = [s \in Sessions |-> "unopened"]
    /\ actor = [s \in Sessions |-> Nobody]
    /\ round = [s \in Sessions |-> 0]
    /\ resume = [s \in Sessions |-> NoToken]
    /\ attempted = [s \in Sessions |-> {}]
    /\ results = [s \in Sessions |-> << >>]
    /\ approvals = << >>
    /\ starts = {}
    /\ owing = [s \in Sessions |-> FALSE]

Valid(t) == LET a == approvals[t] IN a.approved /\ ~a.consumed /\ ~a.expired

\* The tool stage runs: with the request's token, or from a fresh selection.
Enter(s, t) ==
    /\ round' = [round EXCEPT ![s] = @ + 1]
    /\ resume' = [resume EXCEPT ![s] = t]
    /\ attempted' = [attempted EXCEPT ![s] = {}]
    /\ results' = [results EXCEPT ![s] = << >>]
    /\ at' = [at EXCEPT ![s] = IF t = NoToken THEN "selecting" ELSE "replaying"]
    /\ owing' = [owing EXCEPT ![s] = FALSE]
    /\ UNCHANGED <<approvals, starts>>

Open(s) ==
    /\ at[s] = "unopened"
    /\ \E a \in Actors : actor' = [actor EXCEPT ![s] = a]
    /\ \E t \in Tokens \cup {NoToken} : Enter(s, t)

\* The verifier's retry runs the stage again, with the same token.
Again(s) ==
    /\ at[s] = "done"
    /\ round[s] < MaxRounds
    /\ Enter(s, resume[s])
    /\ UNCHANGED actor

-----------------------------------------------------------------------------
(* ToolRegistry.invoke                                                     *)

\* Mutant: a resume goes on to select once its call has succeeded.
GoesOnResumed(s) == Len(results[s]) + 1 < MaxSteps

\* Another hop is left; a resume runs its one call and no more.
GoesOn(s) == resume[s] = NoToken /\ Len(results[s]) + 1 < MaxSteps

\* Mutant: the loop goes on from a result that is not a success.
Plods(s, status) ==
    /\ at' = [at EXCEPT ![s] = IF GoesOn(s) THEN "selecting" ELSE "done"]
    /\ results' = [results EXCEPT ![s] = Append(@, status)]

Ends(s, status) ==
    /\ at' = [at EXCEPT ![s] = "done"]
    /\ results' = [results EXCEPT ![s] = Append(@, status)]

\* _finish appends the record an invocation owes.
Audits(s) == owing' = [owing EXCEPT ![s] = FALSE]

Starts(s, c, t) ==
    /\ at' = [at EXCEPT ![s] = "executing"]
    /\ starts' = starts \cup {[session |-> s, round |-> round[s], call |-> c, token |-> t]}
    /\ owing' = [owing EXCEPT ![s] = TRUE]
    /\ UNCHANGED results

\* Scope denied, or arguments that do not fit the schema: refused and
\* audited at once, before any approval is looked at.
Refused(s) ==
    /\ Ends(s, "failed")
    /\ UNCHANGED <<approvals, starts, owing>>

NewApproval(s, c) ==
    [actor |-> actor[s], call |-> c, approved |-> FALSE, consumed |-> FALSE, expired |-> FALSE]

\* A guarded call with no approval to spend leaves a pending one.
AsksApproval(s, c, store) ==
    /\ Len(approvals) < MaxTokens
    /\ approvals' = Append(store, NewApproval(s, c))
    /\ Ends(s, "approval_required")
    /\ UNCHANGED <<starts, owing>>

\* Mutant: the approval is checked but not marked as spent.
Borrows(s, t) ==
    /\ Valid(t)
    /\ approvals' = approvals
    /\ Starts(s, approvals[t].call, t)

Spends(s, t) ==
    /\ Valid(t)
    /\ approvals' = [approvals EXCEPT ![t].consumed = TRUE]
    /\ Starts(s, approvals[t].call, t)

\* A call the selector chose carries no token.
Invoke(s, c) ==
    \/ Refused(s)
    \/ c \in Guarded /\ AsksApproval(s, c, approvals)
    \/ c \notin Guarded /\ Starts(s, c, NoToken) /\ UNCHANGED approvals

-----------------------------------------------------------------------------
(* ToolAgentService                                                        *)

\* The selector answers: nothing to do, a repetition, or a call to invoke.
Select(s) ==
    /\ at[s] = "selecting"
    /\ \/ /\ IF results[s] = << >> THEN Ends(s, "skipped")
             ELSE at' = [at EXCEPT ![s] = "done"] /\ UNCHANGED results
          /\ UNCHANGED <<attempted, approvals, starts, owing>>
       \/ /\ attempted[s] # {}
          /\ at' = [at EXCEPT ![s] = "done"]
          /\ UNCHANGED <<results, attempted, approvals, starts, owing>>
       \/ \E c \in Calls \ attempted[s] :
          /\ attempted' = [attempted EXCEPT ![s] = @ \cup {c}]
          /\ Invoke(s, c)
    /\ UNCHANGED <<actor, round, resume>>

\* approved_call, and invoke with what it rebuilt: no await between them,
\* but the clock may pass the expiry between the two checks.
Replay(s) ==
    /\ at[s] = "replaying"
    /\ LET t == resume[s] IN
         IF approvals[t].actor # actor[s] \/ ~Valid(t)
           THEN Ends(s, "failed") /\ UNCHANGED <<approvals, starts, owing>>
           ELSE \/ Refused(s)
                \/ Spends(s, t)
                \/ AsksApproval(s, approvals[t].call, [approvals EXCEPT ![t].expired = TRUE])
    /\ UNCHANGED <<actor, round, resume, attempted>>

\* Mutant: an executor that raises or times out is not audited.
ExecutorEndsQuietly(s) ==
    /\ at[s] = "executing"
    /\ \/ Ends(s, "failed") /\ UNCHANGED owing
       \/ Ends(s, "succeeded") /\ Audits(s)
    /\ UNCHANGED <<actor, round, resume, attempted, approvals, starts>>

\* The executor returns, raises or times out; only a clean success of the
\* loop goes on to another selection.
ExecutorEnds(s) ==
    /\ at[s] = "executing"
    /\ \/ Ends(s, "failed") /\ Audits(s)
       \/ /\ Audits(s)
          /\ IF GoesOn(s)
               THEN /\ at' = [at EXCEPT ![s] = "selecting"]
                    /\ results' = [results EXCEPT ![s] = Append(@, "succeeded")]
               ELSE Ends(s, "succeeded")
    /\ UNCHANGED <<actor, round, resume, attempted, approvals, starts>>

\* The stage's ceiling cancels the stage: no audit record, no result.
CutShort(s) ==
    /\ at[s] \in {"selecting", "executing"}
    /\ at' = [at EXCEPT ![s] = "done"]
    /\ results' = [results EXCEPT ![s] = << >>]
    /\ UNCHANGED <<actor, round, resume, attempted, approvals, starts, owing>>

-----------------------------------------------------------------------------
(* The user and the clock                                                  *)

\* Mutant: a spent approval can be given again.
ApproveAnew(t, a) ==
    /\ approvals[t].actor = a
    /\ ~approvals[t].expired
    /\ approvals' = [approvals EXCEPT ![t].approved = TRUE, ![t].consumed = FALSE]
    /\ UNCHANGED <<stage, starts, owing>>

\* confirm_approval: by the actor the token is bound to, while it is valid.
Approve(t, a) ==
    /\ approvals[t].actor = a
    /\ ~approvals[t].consumed
    /\ ~approvals[t].expired
    /\ approvals' = [approvals EXCEPT ![t].approved = TRUE]
    /\ UNCHANGED <<stage, starts, owing>>

Expire(t) ==
    /\ ~approvals[t].expired
    /\ approvals' = [approvals EXCEPT ![t].expired = TRUE]
    /\ UNCHANGED <<stage, starts, owing>>

SessionStep(s) ==
    Open(s) \/ Again(s) \/ Select(s) \/ Replay(s) \/ ExecutorEnds(s) \/ CutShort(s)

Ended == (\A s \in Sessions : at[s] = "done") /\ UNCHANGED vars

Next ==
    \/ \E s \in Sessions : SessionStep(s)
    \/ \E t \in Tokens : Expire(t) \/ \E a \in Actors : Approve(t, a)
    \/ Ended

Spec == Init /\ [][Next]_vars

-----------------------------------------------------------------------------
Approvals ==
    [actor : Actors, call : Guarded, approved : BOOLEAN, consumed : BOOLEAN, expired : BOOLEAN]

Statuses == {"succeeded", "failed", "skipped", "approval_required"}

TypeOK ==
    /\ at \in [Sessions -> {"unopened", "selecting", "replaying", "executing", "done"}]
    /\ actor \in [Sessions -> Actors \cup {Nobody}]
    /\ round \in [Sessions -> 0..MaxRounds]
    /\ attempted \in [Sessions -> SUBSET Calls]
    /\ approvals \in Seq(Approvals)
    /\ resume \in [Sessions -> Tokens \cup {NoToken}]
    /\ results \in [Sessions -> Seq(Statuses)]
    /\ starts \subseteq [session : Sessions, round : 1..MaxRounds, call : Calls, token : Tokens \cup {NoToken}]
    /\ owing \in [Sessions -> BOOLEAN]

\* "Invoke tools only after authorization, approval, and auditable policy
\* checks": every run of a guarded call rests on an approval its own actor
\* gave for that very call, whatever sessions, retries, confirmations and
\* expiries came between, and no approval carries two runs.
ActionsAreApproved ==
    \A x \in starts : x.call \in Guarded =>
        /\ x.token \in Tokens
        /\ LET a == approvals[x.token] IN
             /\ a.approved /\ a.consumed
             /\ a.call = x.call
             /\ a.actor = actor[x.session]
        /\ \A y \in starts : y.token = x.token => y = x

\* "A resume runs only the approved call": over all its rounds, a request
\* that carries a token starts nothing else, and that at most once.
ResumeRunsOnlyTheApproved ==
    \A x \in starts : resume[x.session] # NoToken => x.token = resume[x.session]

\* "Stops on anything other than a clean success": every result before the
\* last of a round is a success, so nothing was done on a false premise.
OnlySuccessLeadsOn ==
    \A s \in Sessions : \A i \in 1..Len(results[s]) - 1 : results[s][i] = "succeeded"

\* "Auditable policy checks": a round that reports its results has left a
\* record of every executor it started, however that ended; only one still
\* running, or one the stage's ceiling cancelled, owes its record.
InvocationsAreAudited ==
    \A s \in Sessions : owing[s] =>
        at[s] = "executing" \/ (at[s] = "done" /\ results[s] = << >>)

\* The store's records as the abstract ledger.
StateOf(a) ==
    IF a.consumed THEN "spent" ELSE IF a.expired THEN "lapsed"
    ELSE IF a.approved THEN "approved" ELSE "pending"

GrantOf(a) == <<a.actor, a.call>>

NoGrant == <<Nobody, "none">>

LedgerState ==
    [t \in 1..MaxTokens |-> IF t \in Tokens THEN StateOf(approvals[t]) ELSE "unused"]

LedgerGrant ==
    [t \in 1..MaxTokens |-> IF t \in Tokens THEN GrantOf(approvals[t]) ELSE NoGrant]

Ledger == INSTANCE ApprovalLedger WITH
    Tokens <- 1..MaxTokens,
    Grants <- Actors \X Guarded,
    state <- LedgerState,
    grant <- LedgerGrant

\* A confirmation, a run and an expiry that race leave the ledger in order:
\* what is spent or lapsed stays so, and only what was given is spent.
KeepsLedger == Ledger!Spec

=============================================================================
