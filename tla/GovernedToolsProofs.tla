------------------------ MODULE GovernedToolsProofs ------------------------
(***************************************************************************)
(* The governed tool boundary, for any number of requests, actors, calls,  *)
(* rounds and approvals.                                                   *)
(***************************************************************************)
EXTENDS GovernedTools, TLAPS

USE ToolsAssumption

Stages == {"unopened", "selecting", "replaying", "executing", "done"}

Runs == [session : Sessions, round : 1..MaxRounds, call : Calls, token : Nat]

\* TypeOK with the tokens' range loosened to Nat, so that a longer list of
\* approvals disturbs nothing; the range itself is the last two conjuncts.
Typed ==
    /\ at \in [Sessions -> Stages]
    /\ actor \in [Sessions -> Actors \cup {Nobody}]
    /\ round \in [Sessions -> 0..MaxRounds]
    /\ attempted \in [Sessions -> SUBSET Calls]
    /\ approvals \in Seq(Approvals)
    /\ resume \in [Sessions -> Nat]
    /\ results \in [Sessions -> Seq(Statuses)]
    /\ starts \subseteq Runs
    /\ owing \in [Sessions -> BOOLEAN]
    /\ \A s \in Sessions : resume[s] <= Len(approvals)
    /\ \A x \in starts : x.token <= Len(approvals)

\* Before it is opened a request has no round and no actor; afterwards both.
Opened ==
    \A s \in Sessions : at[s] # "unopened" => actor[s] \in Actors /\ round[s] \in 1..MaxRounds

LEMMA ApprovalFields ==
    ASSUME NEW a \in Approvals
    PROVE  /\ a.actor \in Actors /\ a.call \in Guarded
           /\ a.approved \in BOOLEAN /\ a.consumed \in BOOLEAN /\ a.expired \in BOOLEAN
           /\ [a EXCEPT !.approved = TRUE] \in Approvals
           /\ [a EXCEPT !.consumed = TRUE] \in Approvals
           /\ [a EXCEPT !.expired = TRUE] \in Approvals
BY DEF Approvals

LEMMA EntryOf ==
    ASSUME Typed, NEW t \in Tokens
    PROVE  approvals[t] \in Approvals
BY DEF Typed, Tokens

LEMMA TypedGives == Typed => TypeOK
<1> SUFFICES ASSUME Typed PROVE TypeOK OBVIOUS
<1>1. resume \in [Sessions -> Tokens \cup {NoToken}]
  BY DEF Typed, Tokens, NoToken
<1>2. starts \subseteq [session : Sessions, round : 1..MaxRounds, call : Calls, token : Tokens \cup {NoToken}]
  BY DEF Typed, Runs, Tokens, NoToken
<1>3. QED BY <1>1, <1>2 DEF Typed, TypeOK, Stages

\* What an update of one approval, or one more approval, leaves of the list.
LEMMA Updates ==
    ASSUME Typed, NEW t \in Tokens, NEW a \in Approvals
    PROVE  /\ [approvals EXCEPT ![t] = a] \in Seq(Approvals)
           /\ Len([approvals EXCEPT ![t] = a]) = Len(approvals)
           /\ \A u \in Tokens : [approvals EXCEPT ![t] = a][u] = IF u = t THEN a ELSE approvals[u]
BY DEF Typed, Tokens

LEMMA Appends ==
    ASSUME NEW q \in Seq(Approvals), NEW a \in Approvals
    PROVE  /\ Append(q, a) \in Seq(Approvals)
           /\ Len(Append(q, a)) = Len(q) + 1
           /\ \A u \in 1..Len(q) : Append(q, a)[u] = q[u]
           /\ Append(q, a)[Len(q) + 1] = a
OBVIOUS

-----------------------------------------------------------------------------
(* Types, one lemma per piece a step is made of.                           *)

\* The part of Typed that speaks of one request's own stage.
StageTyped ==
    /\ at \in [Sessions -> Stages]
    /\ actor \in [Sessions -> Actors \cup {Nobody}]
    /\ round \in [Sessions -> 0..MaxRounds]
    /\ attempted \in [Sessions -> SUBSET Calls]
    /\ results \in [Sessions -> Seq(Statuses)]
    /\ owing \in [Sessions -> BOOLEAN]

\* The part that speaks of tokens.
StoreTyped ==
    /\ approvals \in Seq(Approvals)
    /\ resume \in [Sessions -> Nat]
    /\ starts \subseteq Runs
    /\ \A s \in Sessions : resume[s] <= Len(approvals)
    /\ \A x \in starts : x.token <= Len(approvals)

LEMMA TypedParts == Typed <=> StageTyped /\ StoreTyped
BY DEF Typed, StageTyped, StoreTyped

LEMMA StoreGrows ==
    ASSUME Typed, NEW q, approvals' = q, q \in Seq(Approvals), Len(q) \in Nat, Len(approvals) <= Len(q),
           UNCHANGED <<resume, starts>>
    PROVE  StoreTyped'
<1>1. Len(approvals) \in Nat BY DEF Typed
<1>2. \A x \in starts : x.token \in Nat BY DEF Typed, Runs
<1>3. \A x \in starts : x.token <= Len(q) BY <1>1, <1>2 DEF Typed
<1>4. \A s \in Sessions : resume[s] <= Len(q) BY <1>1 DEF Typed
<1>5. QED BY <1>3, <1>4 DEF Typed, StoreTyped

LEMMA StartTyped ==
    ASSUME Typed, Opened, NEW s \in Sessions, NEW c \in Calls, NEW t \in Tokens \cup {NoToken},
           at[s] # "unopened", Starts(s, c, t), NEW q, approvals' = q, q \in Seq(Approvals),
           Len(q) = Len(approvals), UNCHANGED <<actor, round, resume>>, attempted' \in [Sessions -> SUBSET Calls]
    PROVE  Typed'
<1> DEFINE x == [session |-> s, round |-> round[s], call |-> c, token |-> t]
<1>1. Len(approvals) \in Nat /\ t \in Nat /\ t <= Len(approvals) BY DEF Typed, Tokens, NoToken
<1>2. x \in Runs BY <1>1 DEF Opened, Runs
<1>3. starts' = starts \cup {x} BY DEF Starts
<1>4. \A y \in starts' : y \in Runs /\ y.token <= Len(q) BY <1>1, <1>2, <1>3 DEF Typed
<1>5. StoreTyped' BY <1>4 DEF Typed, StoreTyped
<1>6. StageTyped' BY DEF Typed, StageTyped, Starts, Stages
<1>7. QED BY <1>5, <1>6, TypedParts DEF Typed, StageTyped, StoreTyped

LEMMA EndsTyped ==
    ASSUME Typed, NEW s \in Sessions, NEW status \in Statuses, Ends(s, status)
    PROVE  at' \in [Sessions -> Stages] /\ results' \in [Sessions -> Seq(Statuses)]
BY DEF Typed, Ends, Stages

LEMMA EnterTyped ==
    ASSUME Typed, NEW s \in Sessions, NEW t \in Tokens \cup {NoToken}, Enter(s, t),
           round[s] \in 0..MaxRounds-1, actor' \in [Sessions -> Actors \cup {Nobody}]
    PROVE  Typed'
<1>1. Len(approvals) \in Nat /\ t \in Nat /\ t <= Len(approvals) BY DEF Typed, Tokens, NoToken
<1>2. resume' \in [Sessions -> Nat] /\ \A u \in Sessions : resume'[u] <= Len(approvals)
  BY <1>1 DEF Typed, Enter
<1>3. StoreTyped' BY <1>2 DEF Typed, StoreTyped, Enter
<1>4. round' \in [Sessions -> 0..MaxRounds] BY DEF Typed, Enter
<1>5. results' \in [Sessions -> Seq(Statuses)] /\ attempted' \in [Sessions -> SUBSET Calls]
  BY DEF Typed, Enter
<1>6. at' \in [Sessions -> Stages] /\ owing' \in [Sessions -> BOOLEAN] BY DEF Typed, Enter, Stages
<1>7. StageTyped' BY <1>4, <1>5, <1>6 DEF StageTyped
<1>8. QED BY <1>3, <1>7 DEF Typed, StageTyped, StoreTyped

LEMMA AsksTyped ==
    ASSUME Typed, NEW s \in Sessions, NEW c \in Guarded, actor[s] \in Actors,
           NEW q \in Seq(Approvals), Len(q) = Len(approvals), AsksApproval(s, c, q),
           UNCHANGED <<actor, round, resume>>, attempted' \in [Sessions -> SUBSET Calls]
    PROVE  Typed'
<1>1. NewApproval(s, c) \in Approvals BY DEF NewApproval, Approvals
<1>2. Append(q, NewApproval(s, c)) \in Seq(Approvals) /\ Len(Append(q, NewApproval(s, c))) = Len(q) + 1
  BY <1>1, Appends
<1>3. Len(q) \in Nat OBVIOUS
<1>4. approvals' = Append(q, NewApproval(s, c)) /\ UNCHANGED starts BY DEF AsksApproval
<1>5. StoreTyped' BY <1>2, <1>3, <1>4, StoreGrows
<1>6. at' \in [Sessions -> Stages] /\ results' \in [Sessions -> Seq(Statuses)]
  BY EndsTyped DEF AsksApproval, Statuses
<1>7. StageTyped' BY <1>6 DEF Typed, StageTyped, AsksApproval
<1>8. QED BY <1>5, <1>7 DEF Typed, StageTyped, StoreTyped

LEMMA InvokeTyped ==
    ASSUME Typed, Opened, NEW s \in Sessions, at[s] = "selecting", NEW c \in Calls, Invoke(s, c),
           UNCHANGED <<actor, round, resume>>, attempted' \in [Sessions -> SUBSET Calls]
    PROVE  Typed'
<1>0. actor[s] \in Actors BY DEF Opened
<1>1. CASE Refused(s)
  <2>1. at' \in [Sessions -> Stages] /\ results' \in [Sessions -> Seq(Statuses)]
    BY <1>1, EndsTyped DEF Refused, Statuses
  <2>2. QED BY <1>1, <2>1 DEF Refused, Typed
<1>2. CASE c \in Guarded /\ AsksApproval(s, c, approvals)
  BY <1>0, <1>2, AsksTyped DEF Typed
<1>3. CASE c \notin Guarded /\ Starts(s, c, NoToken) /\ UNCHANGED approvals
  BY <1>3, StartTyped DEF Typed
<1>4. QED BY <1>1, <1>2, <1>3 DEF Invoke

LEMMA ReplayTyped ==
    ASSUME Typed, Opened, NEW s \in Sessions, resume[s] # NoToken, Replay(s)
    PROVE  Typed'
<1> DEFINE t == resume[s]
<1>0. t \in Tokens /\ actor[s] \in Actors /\ attempted' \in [Sessions -> SUBSET Calls]
  BY DEF Typed, Tokens, NoToken, Opened, Replay
<1>1. approvals[t] \in Approvals /\ approvals[t].call \in Guarded /\ approvals[t].call \in Calls
  BY <1>0, EntryOf, ApprovalFields
<1>2. CASE Ends(s, "failed") /\ UNCHANGED <<approvals, starts, owing>>
  <2>1. at' \in [Sessions -> Stages] /\ results' \in [Sessions -> Seq(Statuses)]
    BY <1>2, EndsTyped DEF Statuses
  <2>2. QED BY <1>2, <2>1 DEF Replay, Typed
<1>3. CASE Spends(s, t)
  <2>1. approvals' = [approvals EXCEPT ![t] = [approvals[t] EXCEPT !.consumed = TRUE]] BY <1>3 DEF Spends
  <2>2. approvals' \in Seq(Approvals) /\ Len(approvals') = Len(approvals)
    BY <1>0, <1>1, <2>1, ApprovalFields, Updates
  <2>3. at[s] # "unopened" /\ UNCHANGED <<actor, round, resume>> BY DEF Replay
  <2>4. Starts(s, approvals[t].call, t) BY <1>3 DEF Spends
  <2>5. QED BY <1>0, <1>1, <2>2, <2>3, <2>4, StartTyped
<1>4. CASE AsksApproval(s, approvals[t].call, [approvals EXCEPT ![t].expired = TRUE])
  <2>1. DEFINE q == [approvals EXCEPT ![t] = [approvals[t] EXCEPT !.expired = TRUE]]
  <2>2. q \in Seq(Approvals) /\ Len(q) = Len(approvals) BY <1>0, <1>1, ApprovalFields, Updates
  <2>3. AsksApproval(s, approvals[t].call, q) BY <1>4
  <2>4. UNCHANGED <<actor, round, resume>> BY DEF Replay
  <2> HIDE DEF q
  <2>5. QED BY <1>0, <1>1, <2>2, <2>3, <2>4, AsksTyped
<1>5. QED BY <1>2, <1>3, <1>4 DEF Replay, Refused

\* An update of one approval by the user or the clock.
LEMMA StoreStepTyped ==
    ASSUME Typed, NEW t \in Tokens, NEW a \in Approvals, approvals' = [approvals EXCEPT ![t] = a],
           UNCHANGED <<stage, starts, owing>>
    PROVE  Typed'
<1>1. approvals' \in Seq(Approvals) /\ Len(approvals') = Len(approvals) BY Updates
<1>2. QED BY <1>1 DEF Typed, stage

\* A request that presents a token replays, and one that selects has none.
TokenDecides ==
    \A s \in Sessions : /\ at[s] = "replaying" => resume[s] # NoToken /\ results[s] = << >>
                        /\ at[s] = "selecting" => resume[s] = NoToken
                        /\ at[s] = "unopened" => round[s] = 0

TypeInv == Typed /\ Opened /\ TokenDecides

LEMMA TypeStep == TypeInv /\ [Next]_vars => Typed'
<1> SUFFICES ASSUME TypeInv, [Next]_vars PROVE Typed' OBVIOUS
<1> USE DEF TypeInv
<1>1. CASE UNCHANGED vars BY <1>1 DEF vars, stage, Typed
<1>2. ASSUME NEW s \in Sessions, SessionStep(s) PROVE Typed'
  <2>1. CASE Open(s)
    <3>1. PICK a \in Actors : actor' = [actor EXCEPT ![s] = a] BY <2>1 DEF Open
    <3>2. actor' \in [Sessions -> Actors \cup {Nobody}] BY <3>1 DEF Typed
    <3>3. PICK t \in Tokens \cup {NoToken} : Enter(s, t) BY <2>1 DEF Open
    <3>4. round[s] \in 0..MaxRounds-1 BY <2>1 DEF Open, TokenDecides
    <3>5. QED BY <3>2, <3>3, <3>4, EnterTyped
  <2>2. CASE Again(s)
    <3>1. Enter(s, resume[s]) /\ UNCHANGED actor BY <2>2 DEF Again
    <3>2. resume[s] \in Tokens \cup {NoToken} BY DEF Typed, Tokens, NoToken
    <3>3. round[s] \in 0..MaxRounds-1 BY <2>2 DEF Again, Typed
    <3>4. actor' \in [Sessions -> Actors \cup {Nobody}] BY <3>1 DEF Typed
    <3>5. QED BY <3>1, <3>2, <3>3, <3>4, EnterTyped
  <2>3. CASE Select(s)
    <3>0. at[s] = "selecting" /\ UNCHANGED <<actor, round, resume>> BY <2>3 DEF Select
    <3>1. CASE UNCHANGED <<attempted, approvals, starts, owing>>
      <4>1. at' \in [Sessions -> Stages] /\ results' \in [Sessions -> Seq(Statuses)]
        <5>1. CASE Ends(s, "skipped") BY <5>1, EndsTyped DEF Statuses
        <5>2. CASE at' = [at EXCEPT ![s] = "done"] /\ UNCHANGED results BY <5>2 DEF Typed, Stages
        <5>3. CASE \E c \in Calls \ attempted[s] : attempted' = [attempted EXCEPT ![s] = @ \cup {c}]
          BY <5>3, <3>1 DEF Typed
        <5>4. QED BY <2>3, <5>1, <5>2, <5>3 DEF Select
      <4>2. QED BY <3>0, <3>1, <4>1 DEF Typed
    <3>2. ASSUME NEW c \in Calls \ attempted[s], attempted' = [attempted EXCEPT ![s] = @ \cup {c}], Invoke(s, c)
          PROVE  Typed'
      <4>1. attempted' \in [Sessions -> SUBSET Calls] BY <3>2 DEF Typed
      <4>2. QED BY <3>0, <3>2, <4>1, InvokeTyped
    <3>3. QED BY <2>3, <3>1, <3>2 DEF Select
  <2>4. CASE Replay(s) BY <2>4, ReplayTyped DEF Replay, TokenDecides
  <2>5. CASE ExecutorEnds(s)
    <3>1. at' \in [Sessions -> Stages] /\ results' \in [Sessions -> Seq(Statuses)]
      <4>1. CASE Ends(s, "failed") \/ Ends(s, "succeeded") BY <4>1, EndsTyped DEF Statuses
      <4>2. CASE at' = [at EXCEPT ![s] = "selecting"] /\ results' = [results EXCEPT ![s] = Append(@, "succeeded")]
        BY <4>2 DEF Typed, Stages, Statuses
      <4>3. QED BY <2>5, <4>1, <4>2 DEF ExecutorEnds
    <3>2. owing' \in [Sessions -> BOOLEAN] BY <2>5 DEF ExecutorEnds, Audits, Typed
    <3>3. QED BY <2>5, <3>1, <3>2 DEF ExecutorEnds, Typed
  <2>6. CASE CutShort(s)
    <3>1. at' \in [Sessions -> Stages] /\ results' \in [Sessions -> Seq(Statuses)]
      BY <2>6 DEF CutShort, Typed, Stages
    <3>2. QED BY <2>6, <3>1 DEF CutShort, Typed
  <2>7. QED BY <1>2, <2>1, <2>2, <2>3, <2>4, <2>5, <2>6 DEF SessionStep
<1>3. ASSUME NEW t \in Tokens, Expire(t) PROVE Typed'
  <2>1. approvals' = [approvals EXCEPT ![t] = [approvals[t] EXCEPT !.expired = TRUE]] BY <1>3 DEF Expire
  <2>2. QED BY <1>3, <2>1, EntryOf, ApprovalFields, StoreStepTyped DEF Expire
<1>4. ASSUME NEW t \in Tokens, NEW a \in Actors, Approve(t, a) PROVE Typed'
  <2>1. approvals' = [approvals EXCEPT ![t] = [approvals[t] EXCEPT !.approved = TRUE]] BY <1>4 DEF Approve
  <2>2. QED BY <1>4, <2>1, EntryOf, ApprovalFields, StoreStepTyped DEF Approve
<1>5. QED BY <1>1, <1>2, <1>3, <1>4 DEF Next, Ended

\* Only a session's own step moves it, and only along the loop.
LEMMA OpenedStep == TypeInv /\ [Next]_vars => Opened' /\ TokenDecides'
<1> SUFFICES ASSUME TypeInv, [Next]_vars PROVE Opened' /\ TokenDecides' OBVIOUS
<1> USE DEF TypeInv, Opened, TokenDecides
<1>0. /\ at \in [Sessions -> Stages] /\ actor \in [Sessions -> Actors \cup {Nobody}]
      /\ round \in [Sessions -> 0..MaxRounds] /\ resume \in [Sessions -> Nat]
      /\ results \in [Sessions -> Seq(Statuses)]
  BY DEF Typed
<1>1. CASE UNCHANGED stage BY <1>1 DEF stage
<1>2. ASSUME NEW s \in Sessions, SessionStep(s) PROVE Opened' /\ TokenDecides'
  \* A step within a round goes to "done", "executing", or back to a selection.
  <2>1. ASSUME UNCHANGED <<actor, round, resume>>, at[s] # "unopened",
               NEW w, at' = [at EXCEPT ![s] = w], NEW r, results' = [results EXCEPT ![s] = r],
               w \in {"done", "executing"} \/ (w = "selecting" /\ resume[s] = NoToken)
        PROVE  Opened' /\ TokenDecides'
    BY <1>0, <2>1
  <2>2. ASSUME NEW t \in Tokens \cup {NoToken}, Enter(s, t), actor'[s] \in Actors, round[s] < MaxRounds,
               \A u \in Sessions \ {s} : actor'[u] = actor[u]
        PROVE  Opened' /\ TokenDecides'
    <3>1. round'[s] \in 1..MaxRounds BY <1>0, <2>2 DEF Enter
    <3>2. QED BY <1>0, <2>2, <3>1 DEF Enter
  <2>3. results = [results EXCEPT ![s] = results[s]] BY <1>0
  <2>4. ASSUME UNCHANGED <<actor, round, resume>>, at[s] # "unopened", NEW status, Ends(s, status)
        PROVE  Opened' /\ TokenDecides'
    BY <2>1, <2>4 DEF Ends
  <2>5. ASSUME UNCHANGED <<actor, round, resume>>, at[s] # "unopened", NEW c, NEW t, Starts(s, c, t)
        PROVE  Opened' /\ TokenDecides'
    BY <2>1, <2>3, <2>5 DEF Starts
  <2>6. CASE Open(s)
    <3>1. PICK a \in Actors : actor' = [actor EXCEPT ![s] = a] BY <2>6 DEF Open
    <3>2. PICK t \in Tokens \cup {NoToken} : Enter(s, t) BY <2>6 DEF Open
    <3>3. actor'[s] \in Actors /\ \A u \in Sessions \ {s} : actor'[u] = actor[u] BY <1>0, <3>1
    <3>4. round[s] < MaxRounds BY <2>6 DEF Open
    <3>5. QED BY <2>2, <3>2, <3>3, <3>4
  <2>7. CASE Again(s)
    <3>1. Enter(s, resume[s]) /\ UNCHANGED actor /\ actor[s] \in Actors /\ round[s] < MaxRounds
      BY <2>7 DEF Again
    <3>2. resume[s] \in Tokens \cup {NoToken} BY DEF Typed, Tokens, NoToken
    <3>3. QED BY <2>2, <3>1, <3>2
  <2>8. CASE Select(s)
    <3>0. at[s] # "unopened" /\ UNCHANGED <<actor, round, resume>> BY <2>8 DEF Select
    <3>1. CASE Ends(s, "skipped") BY <2>4, <3>0, <3>1
    <3>2. CASE at' = [at EXCEPT ![s] = "done"] /\ UNCHANGED results BY <2>1, <2>3, <3>0, <3>2
    <3>3. ASSUME NEW c, Invoke(s, c) PROVE Opened' /\ TokenDecides'
      BY <2>4, <2>5, <3>0, <3>3 DEF Invoke, Refused, AsksApproval
    <3>4. QED BY <2>8, <3>1, <3>2, <3>3 DEF Select
  <2>9. CASE Replay(s)
    <3>0. at[s] # "unopened" /\ UNCHANGED <<actor, round, resume>> BY <2>9 DEF Replay
    <3>1. CASE Ends(s, "failed") \/ Ends(s, "approval_required") BY <2>4, <3>0, <3>1
    <3>2. ASSUME NEW t, Spends(s, t) PROVE Opened' /\ TokenDecides' BY <2>5, <3>0, <3>2 DEF Spends
    <3>3. QED BY <2>9, <3>1, <3>2 DEF Replay, Refused, AsksApproval
  <2>10. CASE ExecutorEnds(s)
    <3>0. at[s] # "unopened" /\ UNCHANGED <<actor, round, resume>> BY <2>10 DEF ExecutorEnds
    <3>1. CASE Ends(s, "failed") \/ Ends(s, "succeeded") BY <2>4, <3>0, <3>1
    <3>2. CASE GoesOn(s) /\ at' = [at EXCEPT ![s] = "selecting"]
               /\ results' = [results EXCEPT ![s] = Append(@, "succeeded")]
      BY <2>1, <3>0, <3>2 DEF GoesOn
    <3>3. QED BY <2>10, <3>1, <3>2 DEF ExecutorEnds
  <2>11. CASE CutShort(s) BY <2>1, <2>11 DEF CutShort
  <2>12. QED BY <1>2, <2>6, <2>7, <2>8, <2>9, <2>10, <2>11 DEF SessionStep
<1>3. QED BY <1>1, <1>2 DEF Next, Expire, Approve, Ended, vars

LEMMA TypeInit == Init => TypeInv
<1> SUFFICES ASSUME Init PROVE TypeInv OBVIOUS
<1>1. StageTyped BY DEF Init, StageTyped, Stages
<1>2. StoreTyped BY DEF Init, StoreTyped, NoToken
<1>3. QED BY <1>1, <1>2, TypedParts DEF Init, TypeInv, Opened, TokenDecides

LEMMA TypeInvariant == Spec => []TypeInv
<1>1. TypeInv /\ [Next]_vars => TypeInv' BY TypeStep, OpenedStep DEF TypeInv
<1>2. QED BY <1>1, TypeInit, PTL DEF Spec

\* Every reachable state is well typed: a token a request carries or an
\* executor spent is one the store has issued, and only guarded calls wait
\* for an approval.
THEOREM TypeCorrect == Spec => []TypeOK
<1>1. TypeInv => TypeOK BY TypedGives DEF TypeInv
<1>2. QED BY <1>1, TypeInvariant, PTL

-----------------------------------------------------------------------------
(* What a step may do to a request, to an approval and to the runs.        *)

\* Once opened, a request keeps its actor and its token.
LEMMA OnceOpened ==
    ASSUME TypeInv, [Next]_vars, NEW u \in Sessions, at[u] # "unopened"
    PROVE  at'[u] # "unopened" /\ actor'[u] = actor[u] /\ resume'[u] = resume[u]
<1>0. at \in [Sessions -> Stages] /\ resume \in [Sessions -> Nat] BY DEF TypeInv, Typed
<1>1. CASE UNCHANGED stage BY <1>1 DEF stage
<1>2. ASSUME NEW s \in Sessions, SessionStep(s)
      PROVE  at'[u] # "unopened" /\ actor'[u] = actor[u] /\ resume'[u] = resume[u]
  <2>1. CASE Open(s)
    <3>1. PICK a \in Actors : actor' = [actor EXCEPT ![s] = a] BY <2>1 DEF Open
    <3>2. u # s /\ actor \in [Sessions -> Actors \cup {Nobody}] BY <2>1 DEF Open, TypeInv, Typed
    <3>3. PICK t \in Tokens \cup {NoToken} : Enter(s, t) BY <2>1 DEF Open
    <3>4. QED BY <1>0, <3>1, <3>2, <3>3 DEF Enter
  <2>2. CASE Again(s) BY <1>0, <2>2 DEF Again, Enter
  <2>3. CASE Select(s) BY <1>0, <2>3 DEF Select, Ends, Invoke, Refused, AsksApproval, Starts
  <2>4. CASE Replay(s) BY <1>0, <2>4 DEF Replay, Ends, Spends, Refused, AsksApproval, Starts
  <2>5. CASE ExecutorEnds(s) BY <1>0, <2>5 DEF ExecutorEnds, Ends
  <2>6. CASE CutShort(s) BY <1>0, <2>6 DEF CutShort
  <2>7. QED BY <1>2, <2>1, <2>2, <2>3, <2>4, <2>5, <2>6 DEF SessionStep
<1>3. QED BY <1>1, <1>2 DEF Next, Expire, Approve, Ended, vars

\* An issued approval keeps its actor and its call, and is never taken back.
Grows(a, b) ==
    /\ b.actor = a.actor /\ b.call = a.call
    /\ a.approved => b.approved
    /\ a.consumed => b.consumed

LEMMA GrowsByUpdate ==
    ASSUME NEW a \in Approvals
    PROVE  /\ Grows(a, a)
           /\ Grows(a, [a EXCEPT !.approved = TRUE])
           /\ Grows(a, [a EXCEPT !.consumed = TRUE])
           /\ Grows(a, [a EXCEPT !.expired = TRUE])
BY DEF Grows, Approvals

LEMMA UpdateGrows ==
    ASSUME Typed, NEW t \in Tokens, NEW a \in Approvals, Grows(approvals[t], a),
           approvals' = [approvals EXCEPT ![t] = a], NEW u \in Tokens
    PROVE  u \in Tokens' /\ Grows(approvals[u], approvals'[u])
<1>1. Len(approvals') = Len(approvals) /\ approvals'[u] = IF u = t THEN a ELSE approvals[u]
  BY Updates
<1>2. Grows(approvals[u], approvals[u]) BY EntryOf, GrowsByUpdate
<1>3. QED BY <1>1, <1>2 DEF Tokens

LEMMA AsksGrows ==
    ASSUME Typed, NEW s \in Sessions, NEW c \in Guarded, actor[s] \in Actors, NEW q \in Seq(Approvals),
           Len(q) = Len(approvals), AsksApproval(s, c, q), NEW u \in Tokens, Grows(approvals[u], q[u])
    PROVE  u \in Tokens' /\ Grows(approvals[u], approvals'[u])
<1>1. NewApproval(s, c) \in Approvals BY DEF NewApproval, Approvals
<1>2. approvals' = Append(q, NewApproval(s, c)) BY DEF AsksApproval
<1>3. Len(approvals') = Len(q) + 1 /\ approvals'[u] = q[u] BY <1>1, <1>2, Appends DEF Tokens
<1>4. Len(q) \in Nat OBVIOUS
<1>5. QED BY <1>3, <1>4 DEF Tokens

LEMMA ApprovalsOnlyGrow ==
    ASSUME TypeInv, [Next]_vars, NEW u \in Tokens
    PROVE  u \in Tokens' /\ Grows(approvals[u], approvals'[u])
<1> USE DEF TypeInv
<1>1. CASE UNCHANGED approvals BY <1>1, EntryOf, GrowsByUpdate DEF Tokens
<1>2. ASSUME NEW s \in Sessions, SessionStep(s) PROVE u \in Tokens' /\ Grows(approvals[u], approvals'[u])
  <2>1. CASE Open(s) BY <1>1, <2>1 DEF Open, Enter
  <2>2. CASE Again(s) BY <1>1, <2>2 DEF Again, Enter
  <2>3. CASE Select(s)
    <3>1. ASSUME NEW c \in Guarded, AsksApproval(s, c, approvals)
          PROVE  u \in Tokens' /\ Grows(approvals[u], approvals'[u])
      <4>1. actor[s] \in Actors /\ approvals \in Seq(Approvals) BY <2>3 DEF Select, Opened, Typed
      <4>2. Grows(approvals[u], approvals[u]) BY EntryOf, GrowsByUpdate
      <4>3. QED BY <3>1, <4>1, <4>2, AsksGrows
    <3>2. QED BY <1>1, <2>3, <3>1 DEF Select, Invoke, Refused
  <2>4. CASE Replay(s)
    <3> DEFINE t == resume[s]
    <3>1. t \in Tokens /\ actor[s] \in Actors
      BY <2>4 DEF Replay, Opened, TokenDecides, Typed, Tokens, NoToken
    <3>2. approvals[t] \in Approvals /\ approvals[t].call \in Guarded BY <3>1, EntryOf, ApprovalFields
    <3>3. CASE Spends(s, t)
      <4>1. approvals' = [approvals EXCEPT ![t] = [approvals[t] EXCEPT !.consumed = TRUE]]
        BY <3>3 DEF Spends
      <4>2. QED BY <3>1, <3>2, <4>1, ApprovalFields, GrowsByUpdate, UpdateGrows
    <3>4. CASE AsksApproval(s, approvals[t].call, [approvals EXCEPT ![t].expired = TRUE])
      <4> DEFINE q == [approvals EXCEPT ![t] = [approvals[t] EXCEPT !.expired = TRUE]]
      <4>0. [approvals[t] EXCEPT !.expired = TRUE] \in Approvals BY <3>2, ApprovalFields
      <4>1. q \in Seq(Approvals) /\ Len(q) = Len(approvals)
            /\ q[u] = IF u = t THEN [approvals[t] EXCEPT !.expired = TRUE] ELSE approvals[u]
        BY <3>1, <4>0, Updates
      <4>2. Grows(approvals[u], q[u]) BY <3>2, <4>1, EntryOf, GrowsByUpdate
      <4>3. AsksApproval(s, approvals[t].call, q) BY <3>4
      <4> HIDE DEF q
      <4>4. QED BY <3>1, <3>2, <4>1, <4>2, <4>3, AsksGrows
    <3>5. QED BY <1>1, <2>4, <3>3, <3>4 DEF Replay, Refused
  <2>5. CASE ExecutorEnds(s) BY <1>1, <2>5 DEF ExecutorEnds
  <2>6. CASE CutShort(s) BY <1>1, <2>6 DEF CutShort
  <2>7. QED BY <1>2, <2>1, <2>2, <2>3, <2>4, <2>5, <2>6 DEF SessionStep
<1>3. ASSUME NEW t \in Tokens, Expire(t) PROVE u \in Tokens' /\ Grows(approvals[u], approvals'[u])
  <2>1. approvals' = [approvals EXCEPT ![t] = [approvals[t] EXCEPT !.expired = TRUE]] BY <1>3 DEF Expire
  <2>2. QED BY <2>1, EntryOf, ApprovalFields, GrowsByUpdate, UpdateGrows
<1>4. ASSUME NEW t \in Tokens, NEW a \in Actors, Approve(t, a)
      PROVE  u \in Tokens' /\ Grows(approvals[u], approvals'[u])
  <2>1. approvals' = [approvals EXCEPT ![t] = [approvals[t] EXCEPT !.approved = TRUE]] BY <1>4 DEF Approve
  <2>2. QED BY <2>1, EntryOf, ApprovalFields, GrowsByUpdate, UpdateGrows
<1>5. QED BY <1>1, <1>2, <1>3, <1>4 DEF Next, Ended, vars

\* A step starts at most one executor: of an unguarded call a request without
\* a token chose, or of the approved call of the request's own token.
Chosen(x) == x.token = NoToken /\ x.call \notin Guarded /\ resume[x.session] = NoToken

Approved(x) ==
    LET t == x.token IN
      /\ t \in Tokens /\ t = resume[x.session]
      /\ Valid(t) /\ approvals'[t].consumed
      /\ approvals[t].call = x.call
      /\ approvals[t].actor = actor[x.session]

LEMMA StartsStep ==
    ASSUME TypeInv, [Next]_vars
    PROVE  \/ UNCHANGED starts
           \/ \E x \in Runs : /\ starts' = starts \cup {x}
                              /\ at[x.session] # "unopened"
                              /\ Chosen(x) \/ Approved(x)
<1> DEFINE P == \/ UNCHANGED starts
                \/ \E x \in Runs : /\ starts' = starts \cup {x}
                                   /\ at[x.session] # "unopened"
                                   /\ Chosen(x) \/ Approved(x)
<1> USE DEF TypeInv
<1>1. ASSUME NEW s \in Sessions, SessionStep(s) PROVE P
  <2>1. CASE Open(s) BY <2>1 DEF Open, Enter
  <2>2. CASE Again(s) BY <2>2 DEF Again, Enter
  <2>3. CASE Select(s)
    <3>1. ASSUME NEW c \in Calls, c \notin Guarded, Starts(s, c, NoToken) PROVE P
      <4> DEFINE x == [session |-> s, round |-> round[s], call |-> c, token |-> NoToken]
      <4>1. at[s] = "selecting" /\ round[s] \in 1..MaxRounds /\ resume[s] = NoToken
        BY <2>3 DEF Select, Opened, TokenDecides
      <4>2. x \in Runs BY <4>1 DEF Runs, NoToken
      <4>3. Chosen(x) /\ at[x.session] # "unopened" BY <3>1, <4>1 DEF Chosen
      <4>4. starts' = starts \cup {x} BY <3>1 DEF Starts
      <4>5. QED BY <4>2, <4>3, <4>4
    <3>2. QED BY <2>3, <3>1 DEF Select, Invoke, Refused, AsksApproval
  <2>4. CASE Replay(s)
    <3> DEFINE t == resume[s]
    <3>1. t \in Tokens /\ at[s] = "replaying" /\ round[s] \in 1..MaxRounds
      BY <2>4 DEF Replay, Opened, TokenDecides, Typed, Tokens, NoToken
    <3>2. approvals[t] \in Approvals /\ approvals[t].call \in Calls BY <3>1, EntryOf, ApprovalFields
    <3>3. CASE approvals[t].actor = actor[s] /\ Spends(s, t)
      <4> DEFINE x == [session |-> s, round |-> round[s], call |-> approvals[t].call, token |-> t]
      <4>1. x \in Runs BY <3>1, <3>2 DEF Runs, Typed
      <4>2. starts' = starts \cup {x} BY <3>3 DEF Spends, Starts
      <4>3. approvals' = [approvals EXCEPT ![t] = [approvals[t] EXCEPT !.consumed = TRUE]]
        BY <3>3 DEF Spends
      <4>4. [approvals[t] EXCEPT !.consumed = TRUE] \in Approvals
            /\ [approvals[t] EXCEPT !.consumed = TRUE].consumed
        BY <3>2, ApprovalFields DEF Approvals
      <4>5. approvals'[t].consumed BY <3>1, <4>3, <4>4, Updates
      <4>6. Valid(t) BY <3>3 DEF Spends
      <4>7. Approved(x) BY <3>1, <3>3, <4>5, <4>6 DEF Approved
      <4>8. QED BY <3>1, <4>1, <4>2, <4>7
    <3>4. QED BY <2>4, <3>3 DEF Replay, Refused, AsksApproval
  <2>5. CASE ExecutorEnds(s) BY <2>5 DEF ExecutorEnds
  <2>6. CASE CutShort(s) BY <2>6 DEF CutShort
  <2>7. QED BY <1>1, <2>1, <2>2, <2>3, <2>4, <2>5, <2>6 DEF SessionStep
<1>2. QED BY <1>1 DEF Next, Expire, Approve, Ended, vars

-----------------------------------------------------------------------------
(* The invariant of the runs.                                              *)

RunsInv ==
    /\ \A x \in starts : at[x.session] # "unopened"
    /\ \A x \in starts : resume[x.session] # NoToken => x.token = resume[x.session]
    /\ \A x \in starts : x.call \in Guarded => x.token # NoToken
    /\ \A x \in starts : x.token # NoToken =>
          LET a == approvals[x.token] IN
            /\ a.approved /\ a.consumed
            /\ a.call = x.call
            /\ a.actor = actor[x.session]
    /\ \A x, y \in starts : x.token # NoToken /\ y.token = x.token => y = x

Inv == TypeInv /\ RunsInv

\* What RunsInv says of one run, but for its being the only one of its token.
Rests(x) ==
    /\ at[x.session] # "unopened"
    /\ resume[x.session] # NoToken => x.token = resume[x.session]
    /\ x.call \in Guarded => x.token # NoToken
    /\ x.token # NoToken =>
          LET a == approvals[x.token] IN
            /\ a.approved /\ a.consumed
            /\ a.call = x.call
            /\ a.actor = actor[x.session]

LEMMA RunsStep == Inv /\ [Next]_vars => RunsInv'
<1> SUFFICES ASSUME Inv, [Next]_vars PROVE RunsInv' OBVIOUS
<1> USE DEF Inv
<1>1. \A x \in starts : /\ x \in Runs /\ x.session \in Sessions
                        /\ x.token # NoToken => x.token \in Tokens
  BY DEF TypeInv, Typed, Runs, Tokens, NoToken
<1>2. ASSUME NEW x \in starts PROVE Rests(x)'
  <2>1. at'[x.session] # "unopened" /\ actor'[x.session] = actor[x.session] /\ resume'[x.session] = resume[x.session]
    BY <1>1, OnceOpened DEF RunsInv
  <2>2. x.token # NoToken => Grows(approvals[x.token], approvals'[x.token])
    BY <1>1, ApprovalsOnlyGrow
  <2>3. QED BY <2>1, <2>2 DEF RunsInv, Rests, Grows
<1>3. CASE UNCHANGED starts
  <2>1. \A x \in starts' : Rests(x)' BY <1>2, <1>3
  <2>2. QED BY <1>3, <2>1 DEF RunsInv, Rests
<1>4. ASSUME NEW x \in Runs, starts' = starts \cup {x}, at[x.session] # "unopened", Chosen(x) \/ Approved(x)
      PROVE  RunsInv'
  <2>0. x.session \in Sessions BY DEF Runs
  <2>1. at'[x.session] # "unopened" /\ actor'[x.session] = actor[x.session] /\ resume'[x.session] = resume[x.session]
    BY <1>4, <2>0, OnceOpened
  <2>2. CASE Chosen(x)
    <3>1. Rests(x)' BY <2>1, <2>2 DEF Chosen, Rests
    <3>2. \A y \in starts' : Rests(y)' BY <1>2, <1>4, <3>1
    <3>3. QED BY <1>4, <2>2, <3>2 DEF RunsInv, Rests, Chosen
  <2>3. CASE Approved(x)
    <3>1. x.token \in Tokens /\ ~approvals[x.token].consumed /\ approvals[x.token].approved
          /\ approvals[x.token].call = x.call /\ approvals[x.token].actor = actor[x.session]
          /\ x.token = resume[x.session] /\ approvals'[x.token].consumed
      BY <2>3 DEF Approved, Valid
    <3>2. Grows(approvals[x.token], approvals'[x.token]) BY <3>1, ApprovalsOnlyGrow
    <3>3. x.token # NoToken BY <3>1 DEF Tokens, NoToken
    <3>4. Rests(x)' BY <2>1, <3>1, <3>2, <3>3 DEF Rests, Grows
    <3>5. \A y \in starts' : Rests(y)' BY <1>2, <1>4, <3>4
    <3>6. \A y \in starts : y.token # x.token BY <3>1, <3>3 DEF RunsInv
    <3>7. QED BY <1>4, <3>5, <3>6 DEF RunsInv, Rests
  <2>4. QED BY <1>4, <2>2, <2>3
<1>5. QED BY <1>3, <1>4, StartsStep

LEMMA Invariant == Spec => []Inv
<1>1. Init => RunsInv BY DEF Init, RunsInv
<1>2. Inv /\ [Next]_vars => Inv' BY RunsStep, TypeStep, OpenedStep DEF Inv, TypeInv
<1>3. QED BY <1>1, <1>2, TypeInit, PTL DEF Spec, Inv

\* "Invoke tools only after authorization, approval, and auditable policy
\* checks": every run of a guarded call rests on an approval its own actor
\* gave for that very call, and no approval carries two runs.
THEOREM OnlyApprovedActions == Spec => []ActionsAreApproved
<1>1. Inv => ActionsAreApproved
  <2> SUFFICES ASSUME Inv, NEW x \in starts, x.call \in Guarded
               PROVE  /\ x.token \in Tokens
                      /\ LET a == approvals[x.token] IN
                           /\ a.approved /\ a.consumed
                           /\ a.call = x.call
                           /\ a.actor = actor[x.session]
                      /\ \A y \in starts : y.token = x.token => y = x
    BY DEF ActionsAreApproved
  <2>1. x.token # NoToken BY DEF Inv, RunsInv
  <2>2. x.token \in Tokens BY <2>1 DEF Inv, TypeInv, Typed, Runs, Tokens, NoToken
  <2>3. QED BY <2>1, <2>2 DEF Inv, RunsInv
<1>2. QED BY <1>1, Invariant, PTL

\* "A resume runs only the approved call": over all its rounds a request that
\* carries a token starts nothing but the call of that token.
THEOREM ResumesStayApproved == Spec => []ResumeRunsOnlyTheApproved
<1>1. Inv => ResumeRunsOnlyTheApproved BY DEF Inv, RunsInv, ResumeRunsOnlyTheApproved
<1>2. QED BY <1>1, Invariant, PTL

-----------------------------------------------------------------------------
(* What a round reports.                                                   *)

ReportInv ==
    /\ \A s \in Sessions : at[s] \in {"unopened", "replaying"} => results[s] = << >>
    /\ \A s \in Sessions : at[s] \in {"selecting", "executing"} =>
          \A i \in 1..Len(results[s]) : results[s][i] = "succeeded"
    /\ OnlySuccessLeadsOn
    /\ InvocationsAreAudited

\* Appending one status to results that are all successes.
LEMMA OneMore ==
    ASSUME NEW q \in Seq(Statuses), NEW status \in Statuses,
           \A i \in 1..Len(q) : q[i] = "succeeded"
    PROVE  /\ \A i \in 1..Len(Append(q, status)) - 1 : Append(q, status)[i] = "succeeded"
           /\ status = "succeeded" => \A i \in 1..Len(Append(q, status)) : Append(q, status)[i] = "succeeded"
           /\ Append(q, status) # << >>
OBVIOUS

LEMMA ReportStep == TypeInv /\ ReportInv /\ [Next]_vars => ReportInv'
<1> SUFFICES ASSUME TypeInv, ReportInv, [Next]_vars PROVE ReportInv' OBVIOUS
<1> USE DEF ReportInv, OnlySuccessLeadsOn, InvocationsAreAudited
<1>0. /\ at \in [Sessions -> Stages] /\ results \in [Sessions -> Seq(Statuses)]
      /\ owing \in [Sessions -> BOOLEAN]
  BY DEF TypeInv, Typed
<1>1. CASE UNCHANGED <<stage, owing>> BY <1>1 DEF stage
<1>2. ASSUME NEW s \in Sessions, SessionStep(s) PROVE ReportInv'
  \* The round ends with a status after successes alone, all of it audited.
  <2>1. ASSUME NEW status \in Statuses, Ends(s, status), at[s] \notin {"unopened", "done"},
               UNCHANGED owing \/ Audits(s), at[s] = "executing" => Audits(s)
        PROVE  ReportInv'
    <3>1. \A i \in 1..Len(results[s]) : results[s][i] = "succeeded" BY <1>0, <2>1 DEF Stages
    <3>2. results'[s] = Append(results[s], status) BY <1>0, <2>1 DEF Ends
    <3>3. \A i \in 1..Len(results'[s]) - 1 : results'[s][i] = "succeeded"
      BY <1>0, <3>1, <3>2, OneMore
    <3>4. owing'[s] = FALSE BY <1>0, <2>1 DEF Audits, Stages
    <3>5. \A u \in Sessions \ {s} : at'[u] = at[u] /\ results'[u] = results[u] /\ owing'[u] = owing[u]
      BY <1>0, <2>1 DEF Ends, Audits
    <3>6. at'[s] = "done" BY <1>0, <2>1 DEF Ends
    <3>7. QED BY <3>3, <3>4, <3>5, <3>6
  \* An executor starts after successes alone.
  <2>2. ASSUME NEW c, NEW t, Starts(s, c, t), at[s] \in {"selecting", "replaying"}
        PROVE  ReportInv'
    <3>1. \A i \in 1..Len(results[s]) : results[s][i] = "succeeded" BY <2>2
    <3>2. QED BY <1>0, <2>2, <3>1 DEF Starts
  <2>3. ASSUME NEW t, Enter(s, t) PROVE ReportInv' BY <1>0, <2>3 DEF Enter
  <2>4. CASE Open(s) \/ Again(s) BY <2>3, <2>4 DEF Open, Again
  <2>5. CASE Select(s)
    <3>0. at[s] = "selecting" BY <2>5 DEF Select
    <3>1. CASE at' = [at EXCEPT ![s] = "done"] /\ UNCHANGED <<results, owing>> BY <1>0, <3>0, <3>1
    <3>2. CASE (Ends(s, "skipped") \/ Ends(s, "failed") \/ Ends(s, "approval_required")) /\ UNCHANGED owing
      BY <2>1, <3>0, <3>2 DEF Statuses
    <3>3. QED BY <2>2, <2>5, <3>0, <3>1, <3>2 DEF Select, Invoke, Refused, AsksApproval
  <2>6. CASE Replay(s)
    <3>0. at[s] = "replaying" BY <2>6 DEF Replay
    <3>1. CASE (Ends(s, "failed") \/ Ends(s, "approval_required")) /\ UNCHANGED owing
      BY <2>1, <3>0, <3>1 DEF Statuses
    <3>2. QED BY <2>2, <2>6, <3>0, <3>1 DEF Replay, Refused, Spends, AsksApproval
  <2>7. CASE ExecutorEnds(s)
    <3>0. at[s] = "executing" /\ Audits(s) BY <2>7 DEF ExecutorEnds
    <3>1. CASE Ends(s, "failed") \/ Ends(s, "succeeded") BY <2>1, <3>0, <3>1 DEF Statuses
    <3>2. CASE at' = [at EXCEPT ![s] = "selecting"] /\ results' = [results EXCEPT ![s] = Append(@, "succeeded")]
      <4>1. results'[s] = Append(results[s], "succeeded") /\ at'[s] = "selecting" BY <1>0, <3>2
      <4>2. \A i \in 1..Len(results'[s]) : results'[s][i] = "succeeded"
        BY <1>0, <3>0, <4>1, OneMore DEF Statuses
      <4>3. \A i \in 1..Len(results'[s]) - 1 : results'[s][i] = "succeeded"
        BY <1>0, <3>0, <4>1, OneMore DEF Statuses
      <4>4. owing'[s] = FALSE BY <1>0, <3>0 DEF Audits
      <4>5. \A u \in Sessions \ {s} : at'[u] = at[u] /\ results'[u] = results[u] /\ owing'[u] = owing[u]
        BY <1>0, <3>0, <3>2 DEF Audits
      <4>6. at'[s] = "selecting" BY <4>1
      <4>7. OnlySuccessLeadsOn' BY <4>3, <4>5
      <4>8. InvocationsAreAudited' BY <4>4, <4>5
      <4>9. QED BY <4>2, <4>5, <4>6, <4>7, <4>8
    <3>3. QED BY <2>7, <3>1, <3>2 DEF ExecutorEnds
  <2>8. CASE CutShort(s)
    <3>1. at'[s] = "done" /\ results'[s] = << >> BY <1>0, <2>8 DEF CutShort
    <3>2. QED BY <1>0, <2>8, <3>1 DEF CutShort
  <2>9. QED BY <1>2, <2>4, <2>5, <2>6, <2>7, <2>8 DEF SessionStep
<1>3. QED BY <1>1, <1>2 DEF Next, Expire, Approve, Ended, vars

LEMMA ReportInvariant == Spec => []ReportInv
<1>1. Init => ReportInv
  BY DEF Init, ReportInv, OnlySuccessLeadsOn, InvocationsAreAudited
<1>2. QED BY <1>1, ReportStep, TypeInvariant, PTL DEF Spec

\* "Stops on anything other than a clean success", in every round.
THEOREM SuccessLeadsOn == Spec => []OnlySuccessLeadsOn
<1>1. ReportInv => OnlySuccessLeadsOn BY DEF ReportInv
<1>2. QED BY <1>1, ReportInvariant, PTL

\* "Auditable policy checks": only an executor still running, or one the
\* stage's ceiling cancelled, has no audit record.
THEOREM EveryRunIsAudited == Spec => []InvocationsAreAudited
<1>1. ReportInv => InvocationsAreAudited BY DEF ReportInv
<1>2. QED BY <1>1, ReportInvariant, PTL

-----------------------------------------------------------------------------
(* The store implements the abstract ledger.                               *)

Bounded == Len(approvals) <= MaxTokens

\* Replacing one approval moves the ledger at that token alone.
LEMMA LedgerMoves ==
    ASSUME Typed, Bounded, NEW t \in Tokens, NEW a \in Approvals, Grows(approvals[t], a),
           approvals' = [approvals EXCEPT ![t] = a]
    PROVE  /\ t \in 1..MaxTokens
           /\ LedgerState[t] = StateOf(approvals[t])
           /\ LedgerState' = [LedgerState EXCEPT ![t] = StateOf(a)]
           /\ LedgerGrant' = LedgerGrant
           /\ Bounded'
<1>1. /\ Len(approvals') = Len(approvals)
      /\ \A u \in Tokens : approvals'[u] = IF u = t THEN a ELSE approvals[u]
  BY Updates
<1>2. Tokens' = Tokens /\ t \in 1..MaxTokens BY <1>1 DEF Tokens, Bounded, Typed
<1>3. GrantOf(a) = GrantOf(approvals[t]) BY DEF Grows, GrantOf
<1>4. \A u \in 1..MaxTokens : LedgerGrant'[u] = LedgerGrant[u]
  <2>1. \A u \in Tokens : GrantOf(approvals'[u]) = GrantOf(approvals[u]) BY <1>1, <1>3
  <2>2. QED BY <1>2, <2>1 DEF LedgerGrant
<1>5. LedgerGrant' = LedgerGrant BY <1>4 DEF LedgerGrant
<1>6. \A u \in 1..MaxTokens : LedgerState'[u] = IF u = t THEN StateOf(a) ELSE LedgerState[u]
  BY <1>1, <1>2 DEF LedgerState
<1>7. LedgerState' = [LedgerState EXCEPT ![t] = StateOf(a)]
  BY <1>2, <1>6 DEF LedgerState
<1>8. QED BY <1>1, <1>2, <1>5, <1>7 DEF LedgerState, Bounded

\* One more approval takes the next unused token.
LEMMA LedgerAsks ==
    ASSUME Typed, Bounded, Len(approvals) < MaxTokens, NEW q \in Seq(Approvals), Len(q) = Len(approvals),
           NEW a \in Approvals, approvals' = Append(q, a),
           \A u \in Tokens : GrantOf(q[u]) = GrantOf(approvals[u])
    PROVE  LET n == Len(approvals) + 1 IN
             /\ n \in 1..MaxTokens /\ n \notin Tokens
             /\ LedgerState[n] = "unused"
             /\ LedgerGrant' = [LedgerGrant EXCEPT ![n] = GrantOf(a)]
             /\ \A u \in 1..MaxTokens :
                  LedgerState'[u] = IF u = n THEN StateOf(a)
                                    ELSE IF u \in Tokens THEN StateOf(q[u]) ELSE "unused"
             /\ Bounded'
<1> DEFINE n == Len(approvals) + 1
<1>0. Len(approvals) \in Nat BY DEF Typed
<1>1. n \in 1..MaxTokens /\ n \notin Tokens BY <1>0 DEF Tokens
<1>2. Len(approvals') = n /\ approvals'[n] = a /\ \A u \in Tokens : approvals'[u] = q[u]
  BY Appends DEF Tokens
<1>3. Tokens' = Tokens \cup {n} BY <1>0, <1>2 DEF Tokens
<1> HIDE DEF n
<1>4. \A u \in 1..MaxTokens :
        LedgerState'[u] = IF u = n THEN StateOf(a)
                          ELSE IF u \in Tokens THEN StateOf(q[u]) ELSE "unused"
  BY <1>1, <1>2, <1>3 DEF LedgerState
<1>5. \A u \in 1..MaxTokens : LedgerGrant'[u] = IF u = n THEN GrantOf(a) ELSE LedgerGrant[u]
  BY <1>1, <1>2, <1>3 DEF LedgerGrant
<1>6. LedgerGrant' = [LedgerGrant EXCEPT ![n] = GrantOf(a)] BY <1>1, <1>5 DEF LedgerGrant
<1>7. LedgerState[n] = "unused" BY <1>1 DEF LedgerState
<1>8. Bounded' BY <1>1, <1>2 DEF Bounded
<1>9. QED BY <1>1, <1>4, <1>6, <1>7, <1>8 DEF n

LEMMA LedgerStep ==
    TypeInv /\ Bounded /\ [Next]_vars => [Ledger!Next]_Ledger!vars /\ Bounded'
<1> DEFINE P == [Ledger!Next]_Ledger!vars /\ Bounded'
<1> SUFFICES ASSUME TypeInv, Bounded, [Next]_vars PROVE P OBVIOUS
<1> USE DEF TypeInv
<1>1. CASE UNCHANGED approvals
  <2>1. LedgerState' = LedgerState /\ LedgerGrant' = LedgerGrant BY <1>1 DEF LedgerState, LedgerGrant, Tokens
  <2>2. QED BY <1>1, <2>1 DEF Ledger!vars, Bounded
<1>2. ASSUME NEW t \in Tokens, NEW a \in Approvals, Grows(approvals[t], a),
             approvals' = [approvals EXCEPT ![t] = a],
             \/ StateOf(a) = StateOf(approvals[t])
             \/ StateOf(approvals[t]) = "pending" /\ StateOf(a) = "approved"
             \/ StateOf(approvals[t]) = "approved" /\ StateOf(a) = "spent"
             \/ StateOf(approvals[t]) \in {"pending", "approved"} /\ StateOf(a) = "lapsed"
      PROVE  P
  <2>1. /\ t \in 1..MaxTokens
        /\ LedgerState[t] = StateOf(approvals[t])
        /\ LedgerState' = [LedgerState EXCEPT ![t] = StateOf(a)]
        /\ LedgerGrant' = LedgerGrant
        /\ Bounded'
    BY <1>2, LedgerMoves
  <2>2. CASE StateOf(a) = StateOf(approvals[t])
    <3>1. LedgerState' = LedgerState BY <2>1, <2>2 DEF LedgerState
    <3>2. QED BY <2>1, <3>1 DEF Ledger!vars
  <2>3. CASE StateOf(approvals[t]) = "pending" /\ StateOf(a) = "approved"
    <3>1. Ledger!Give(t) BY <2>1, <2>3 DEF Ledger!Give, Ledger!Becomes
    <3>2. QED BY <2>1, <3>1 DEF Ledger!Next
  <2>4. CASE StateOf(approvals[t]) = "approved" /\ StateOf(a) = "spent"
    <3>1. Ledger!Spend(t) BY <2>1, <2>4 DEF Ledger!Spend, Ledger!Becomes
    <3>2. QED BY <2>1, <3>1 DEF Ledger!Next
  <2>5. CASE StateOf(approvals[t]) \in {"pending", "approved"} /\ StateOf(a) = "lapsed"
    <3>1. Ledger!Lapse(t) BY <2>1, <2>5 DEF Ledger!Lapse, Ledger!Becomes
    <3>2. QED BY <2>1, <3>1 DEF Ledger!Next
  <2>6. QED BY <1>2, <2>2, <2>3, <2>4, <2>5
<1>3. ASSUME NEW s \in Sessions, SessionStep(s) PROVE P
  <2>1. CASE UNCHANGED approvals BY <1>1, <2>1
  <2>2. ASSUME at[s] = "selecting", NEW c \in Guarded, AsksApproval(s, c, approvals) PROVE P
    <3> DEFINE a == NewApproval(s, c)
               n == Len(approvals) + 1
    <3>1. a \in Approvals /\ StateOf(a) = "pending" /\ GrantOf(a) \in Actors \X Guarded
      BY <2>2 DEF NewApproval, Approvals, StateOf, GrantOf, Opened
    <3>2. Len(approvals) < MaxTokens /\ approvals' = Append(approvals, a) BY <2>2 DEF AsksApproval
    <3> HIDE DEF a
    <3>3. /\ n \in 1..MaxTokens /\ n \notin Tokens
          /\ LedgerState[n] = "unused"
          /\ LedgerGrant' = [LedgerGrant EXCEPT ![n] = GrantOf(a)]
          /\ \A u \in 1..MaxTokens :
               LedgerState'[u] = IF u = n THEN StateOf(a)
                                 ELSE IF u \in Tokens THEN StateOf(approvals[u]) ELSE "unused"
          /\ Bounded'
      BY <3>1, <3>2, LedgerAsks DEF Typed
    <3> HIDE DEF n
    <3>4. LedgerState' = [LedgerState EXCEPT ![n] = "pending"] BY <3>1, <3>3 DEF LedgerState
    <3>5. Ledger!Ask(n) BY <3>1, <3>3, <3>4 DEF Ledger!Ask
    <3>6. QED BY <3>3, <3>5 DEF Ledger!Next
  <2>3. CASE Replay(s)
    <3> DEFINE t == resume[s]
    <3>1. t \in Tokens /\ actor[s] \in Actors
      BY <2>3 DEF Replay, Opened, TokenDecides, Typed, Tokens, NoToken
    <3>2. approvals[t] \in Approvals /\ approvals[t].call \in Guarded BY <3>1, EntryOf, ApprovalFields
    <3>3. CASE Spends(s, t)
      <4> DEFINE a == [approvals[t] EXCEPT !.consumed = TRUE]
      <4>1. approvals' = [approvals EXCEPT ![t] = a] BY <3>3 DEF Spends
      <4>2. a \in Approvals /\ Grows(approvals[t], a) BY <3>2, ApprovalFields, GrowsByUpdate
      <4>3. StateOf(approvals[t]) = "approved" BY <3>3 DEF Spends, Valid, StateOf
      <4>4. StateOf(a) = "spent" BY <3>2 DEF StateOf, Approvals
      <4> HIDE DEF a
      <4>5. QED BY <1>2, <3>1, <4>1, <4>2, <4>3, <4>4
    <3>4. CASE approvals[t].actor = actor[s] /\ Valid(t)
               /\ AsksApproval(s, approvals[t].call, [approvals EXCEPT ![t].expired = TRUE])
      <4> DEFINE b == [approvals[t] EXCEPT !.expired = TRUE]
                 q == [approvals EXCEPT ![t] = b]
                 a == NewApproval(s, approvals[t].call)
                 n == Len(approvals) + 1
      <4>0. b \in Approvals /\ GrantOf(b) = GrantOf(approvals[t]) BY <3>2 DEF Approvals, GrantOf
      <4>00. StateOf(b) = "lapsed" BY <3>2, <3>4 DEF Approvals, StateOf, Valid
      <4>1. a \in Approvals /\ StateOf(a) = "pending" /\ GrantOf(a) = GrantOf(approvals[t])
        BY <3>1, <3>2, <3>4 DEF NewApproval, Approvals, StateOf, GrantOf
      <4>2. Len(approvals) < MaxTokens /\ approvals' = Append(q, a) BY <3>4 DEF AsksApproval
      <4> HIDE DEF a, b
      <4>3. q \in Seq(Approvals) /\ Len(q) = Len(approvals)
            /\ \A u \in Tokens : q[u] = IF u = t THEN b ELSE approvals[u]
        BY <3>1, <4>0, Updates
      <4>4. \A u \in Tokens : GrantOf(q[u]) = GrantOf(approvals[u]) BY <4>0, <4>3
      <4> HIDE DEF q
      <4>5. /\ n \in 1..MaxTokens /\ n \notin Tokens
            /\ LedgerState[n] = "unused"
            /\ LedgerGrant' = [LedgerGrant EXCEPT ![n] = GrantOf(a)]
            /\ \A u \in 1..MaxTokens :
                 LedgerState'[u] = IF u = n THEN StateOf(a)
                                   ELSE IF u \in Tokens THEN StateOf(q[u]) ELSE "unused"
            /\ Bounded'
        BY <4>1, <4>2, <4>3, <4>4, LedgerAsks
      <4> HIDE DEF n
      <4>6. t \in 1..MaxTokens /\ t # n BY <3>1, <4>5 DEF Bounded, Tokens, Typed
      <4>7. LedgerState[t] = "approved" /\ LedgerGrant[t] = GrantOf(approvals[t])
        BY <3>1, <3>4, <4>6 DEF LedgerState, LedgerGrant, StateOf, Valid
      <4>8. \A u \in 1..MaxTokens :
              LedgerState'[u] = IF u = n THEN "pending" ELSE IF u = t THEN "lapsed" ELSE LedgerState[u]
        BY <3>1, <4>00, <4>1, <4>3, <4>5 DEF LedgerState
      <4>9. LedgerState' = [LedgerState EXCEPT ![t] = "lapsed", ![n] = "pending"]
        BY <4>5, <4>6, <4>8 DEF LedgerState
      <4>10. LedgerGrant' = [LedgerGrant EXCEPT ![n] = LedgerGrant[t]] BY <4>1, <4>5, <4>7
      <4>11. Ledger!Renew(t, n) BY <4>5, <4>6, <4>7, <4>9, <4>10 DEF Ledger!Renew
      <4>12. QED BY <4>5, <4>6, <4>11 DEF Ledger!Next
    <3>5. QED BY <2>1, <2>3, <3>3, <3>4 DEF Replay, Refused
  <2>4. CASE Select(s) BY <2>1, <2>2, <2>4 DEF Select, Invoke, Refused
  <2>5. QED
    BY <1>3, <2>1, <2>3, <2>4 DEF SessionStep, Open, Again, Enter, ExecutorEnds, CutShort
<1>4. ASSUME NEW t \in Tokens, Expire(t) PROVE P
  <2> DEFINE a == [approvals[t] EXCEPT !.expired = TRUE]
  <2>0. approvals[t] \in Approvals BY EntryOf
  <2>1. approvals' = [approvals EXCEPT ![t] = a] BY <1>4 DEF Expire
  <2>2. a \in Approvals /\ Grows(approvals[t], a) BY <2>0, ApprovalFields, GrowsByUpdate
  <2>3. \/ StateOf(a) = StateOf(approvals[t])
        \/ StateOf(approvals[t]) \in {"pending", "approved"} /\ StateOf(a) = "lapsed"
    BY <1>4, <2>0 DEF Expire, StateOf, Approvals
  <2> HIDE DEF a
  <2>4. QED BY <1>2, <2>1, <2>2, <2>3
<1>5. ASSUME NEW t \in Tokens, NEW u \in Actors, Approve(t, u) PROVE P
  <2> DEFINE a == [approvals[t] EXCEPT !.approved = TRUE]
  <2>0. approvals[t] \in Approvals BY EntryOf
  <2>1. approvals' = [approvals EXCEPT ![t] = a] BY <1>5 DEF Approve
  <2>2. a \in Approvals /\ Grows(approvals[t], a) BY <2>0, ApprovalFields, GrowsByUpdate
  <2>3. \/ StateOf(a) = StateOf(approvals[t])
        \/ StateOf(approvals[t]) = "pending" /\ StateOf(a) = "approved"
    BY <1>5, <2>0 DEF Approve, StateOf, Approvals
  <2> HIDE DEF a
  <2>4. QED BY <1>2, <2>1, <2>2, <2>3
<1>6. QED BY <1>1, <1>3, <1>4, <1>5 DEF Next, Ended, vars

\* The approval store, whatever confirmations, runs and expiries race,
\* implements the abstract ledger: a grant is asked for, given, and then
\* spent once or lost, and never changes hands.
THEOREM StoreIsLedger == Spec => KeepsLedger
<1>1. Init => Ledger!Init /\ Bounded
  BY DEF Init, Ledger!Init, LedgerState, LedgerGrant, Tokens, Bounded
<1>2. QED BY <1>1, LedgerStep, TypeInvariant, PTL DEF Spec, KeepsLedger, Ledger!Spec

=============================================================================
