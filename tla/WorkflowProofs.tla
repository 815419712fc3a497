--------------------------- MODULE WorkflowProofs ---------------------------
(***************************************************************************)
(* Proofs about Workflow, for every value of the ceilings, the deadlines,  *)
(* MaxRetries and ToolMaxSteps its assumptions allow.                      *)
(***************************************************************************)
EXTENDS Workflow, TLAPS

USE TimeoutsAssumption, DeadlinesAssumption, MaxRetriesAssumption, ToolMaxStepsAssumption

-----------------------------------------------------------------------------
(* The budget. *)

\* What is left is a natural number, at most what the total leaves.
LEMMA RemainingType ==
    ASSUME NEW t \in Int, deadline \in Int
    PROVE  RemainingAt(t) \in Nat
BY DEF RemainingAt, Greater, Lesser

\* Every stage has a natural ceiling, and is given no more than it.
LEMMA StageTimeoutType ==
    ASSUME NEW stage \in Stages, elapsed \in Nat, deadline \in Int
    PROVE  /\ Ceiling(stage) \in Nat
           /\ StageTimeout(stage) \in Nat
           /\ StageTimeout(stage) <= Ceiling(stage)
<1>1. Ceiling(stage) \in Nat
    BY DEF Ceiling, Stages
<1>2. Remaining \in Nat
    BY RemainingType DEF Remaining
<1>. QED  BY <1>1, <1>2 DEF StageTimeout, Lesser

\* A single result is a possible outcome of the tool loop.
LEMMA SingleRun ==
    ASSUME NEW s \in ToolStatuses
    PROVE  <<s>> \in ToolRuns
<1>1. <<s>> \in [1..1 -> ToolStatuses]
    OBVIOUS
<1>2. <<s>> \in UNION {[1..n -> ToolStatuses] : n \in 1..ToolMaxSteps}
    BY <1>1
<1>. QED  BY <1>2 DEF ToolRuns

\* Tool results are nonempty sequences.
LEMMA RunsAreSequences ==
    ASSUME NEW runs \in ToolRuns
    PROVE  runs \in Seq(ToolStatuses) /\ Len(runs) \in Nat \ {0}
<1>1. PICK n \in 1..ToolMaxSteps : runs \in [1..n -> ToolStatuses]
    BY DEF ToolRuns
<1>. QED  BY <1>1

-----------------------------------------------------------------------------
(* Type correctness. *)

LEMMA InitTypeOK == Init => TypeOK
<1>. SUFFICES ASSUME Init PROVE TypeOK
    OBVIOUS
<1>1. deadline \in Int /\ 0 \in Rounds
    BY DEF Init, Rounds
<1>2. route \in Routes /\ plan \in Plans
    BY DEF Init, Routes, SafeRoute, Plans
<1>3. evidence \in Evidence /\ candidate \in Candidates /\ verification \in Verifications
    BY <1>1 DEF Init, Evidence, Candidates, Verifications
<1>4. answer \in Answers /\ failure \in Failures
    BY DEF Init, Answers, Failures
<1>5. pc \in Stages \cup {"returned", "failed"} /\ timedOut \subseteq Stages
    BY DEF Init, Stages
<1>6. approval \in {"none", "approved", "unusable", "consumed"}
    BY DEF Init
<1>7. /\ elapsed \in Nat /\ retryCount \in 0..MaxRetries
      /\ performed \in Nat /\ succeededRuns \in Nat /\ minted \in Nat
    BY DEF Init
<1>8. resume \in BOOLEAN /\ scope \in BOOLEAN /\ toolResults \in {<< >>} \cup ToolRuns
    BY DEF Init
<1>. QED  BY <1>1, <1>2, <1>3, <1>4, <1>5, <1>6, <1>7, <1>8 DEF TypeOK

\* A stage that ends leaves a natural clock.
LEMMA StageClock ==
    ASSUME TypeOK, NEW stage \in Stages
    PROVE  /\ Completes(stage) => elapsed' \in Nat /\ timedOut' \subseteq Stages
           /\ Degrades(stage)  => elapsed' \in Nat /\ timedOut' \subseteq Stages
<1>1. StageTimeout(stage) \in Nat
    BY StageTimeoutType DEF TypeOK
<1>. QED  BY <1>1 DEF TypeOK, Completes, Degrades

LEMMA FailsTypeOK ==
    ASSUME TypeOK, elapsed' \in Nat,
           NEW stage \in Stages,
           NEW kind \in {"error", "timeout", "unsupported_route"},
           Fails(kind, stage)
    PROVE  TypeOK'
BY DEF TypeOK, Fails, Failures, reqVars, toolVars

LEMMA StageRaisesTypeOK == TypeOK /\ StageRaises => TypeOK'
<1>. SUFFICES ASSUME TypeOK, NEW stage \in Stages, NEW d \in 0..StageTimeout(stage),
                     elapsed' = elapsed + d, Fails("error", stage)
              PROVE  TypeOK'
    BY DEF StageRaises
<1>1. elapsed' \in Nat
    BY StageTimeoutType DEF TypeOK
<1>. QED  BY <1>1, FailsTypeOK

LEMMA MandatoryStageExpiresTypeOK == TypeOK /\ MandatoryStageExpires => TypeOK'
<1>. SUFFICES ASSUME TypeOK, NEW stage \in MandatoryStages,
                     elapsed' = elapsed + StageTimeout(stage), Fails("timeout", stage)
              PROVE  TypeOK'
    BY DEF MandatoryStageExpires
<1>1. stage \in Stages
    BY DEF MandatoryStages, Stages
<1>2. elapsed' \in Nat
    BY <1>1, StageTimeoutType DEF TypeOK
<1>. QED  BY <1>1, <1>2, FailsTypeOK

LEMMA UnsupportedRouteTypeOK == TypeOK /\ UnsupportedRoute => TypeOK'
<1>. SUFFICES ASSUME TypeOK, NEW d \in 0..StageTimeout("route"),
                     elapsed' = elapsed + d, Fails("unsupported_route", "route")
              PROVE  TypeOK'
    BY DEF UnsupportedRoute
<1>1. elapsed' \in Nat /\ "route" \in Stages
    BY StageTimeoutType DEF TypeOK, Stages
<1>. QED  BY <1>1, FailsTypeOK

\* The variables a completed or degraded stage never touches.
LEMMA ToolTypeOK == TypeOK /\ Tool => TypeOK'
<1>. SUFFICES ASSUME TypeOK, Tool PROVE TypeOK'
    OBVIOUS
<1>1. elapsed' \in Nat /\ timedOut' \subseteq Stages /\ failure' = failure
    BY StageClock DEF Tool, Stages, Completes, Degrades
<1>2. /\ toolResults' \in {<< >>} \cup ToolRuns
      /\ approval' \in {"none", "approved", "unusable", "consumed"}
      /\ performed' \in Nat /\ succeededRuns' \in Nat /\ minted' \in Nat
    <2>1. CASE resume /\ ReplayApproved
        <3>1. <<"succeeded">> \in ToolRuns /\ <<"failed">> \in ToolRuns
            BY SingleRun DEF ToolStatuses
        <3>. QED  BY <2>1, <3>1 DEF ReplayApproved, TypeOK, toolVars
    <2>2. CASE ~resume /\ RunSteps
        <3>1. PICK runs \in ToolRuns :
                 /\ toolResults' = runs
                 /\ minted' = minted + (IF runs[Len(runs)] = "approval_required" THEN 1 ELSE 0)
                 /\ succeededRuns' = succeededRuns + SucceededIn(runs)
                 /\ UNCHANGED <<approval, performed>>
            BY <2>2 DEF RunSteps
        <3>2. SucceededIn(runs) \in Nat
            BY RunsAreSequences DEF SucceededIn
        <3>. QED  BY <3>1, <3>2 DEF TypeOK
    <2>3. CASE ToolStageCut
        BY <2>3 DEF ToolStageCut, TypeOK, toolVars
    <2>. QED  BY <2>1, <2>2, <2>3 DEF Tool
<1>3. pc' \in Stages
    BY DEF Tool, Stages
<1>. QED  BY <1>1, <1>2, <1>3 DEF TypeOK, Tool, reqVars

\* The verdict of a round, and the retry it may start.
LEMMA VerifierTypeOK == TypeOK /\ Verifier => TypeOK'
<1>. SUFFICES ASSUME TypeOK, Verifier PROVE TypeOK'
    OBVIOUS
<1>1. elapsed' \in Nat /\ timedOut' \subseteq Stages /\ failure' = failure
    BY StageClock DEF Verifier, Stages, Completes, Degrades
<1>2. retryCount + 1 \in Rounds
    BY DEF Rounds, TypeOK
<1>3. /\ verification' \in Verifications
      /\ verification'.status = "retry_retrieval" => retryCount < MaxRetries
    <2>1. CASE verification' = [status |-> "degraded", ran |-> FALSE, round |-> retryCount + 1]
        BY <1>2, <2>1 DEF Verifications
    <2>2. CASE \E status \in VerifierStatuses :
                  verification' = [status |-> Downgraded(status), ran |-> TRUE,
                                   round |-> retryCount + 1]
        <3>1. PICK status \in VerifierStatuses :
                  verification' = [status |-> Downgraded(status), ran |-> TRUE,
                                   round |-> retryCount + 1]
            BY <2>2
        <3>2. /\ Downgraded(status) \in {"approved", "retry_retrieval", "rejected", "degraded"}
              /\ Downgraded(status) = "retry_retrieval" => retryCount < MaxRetries
            BY <3>1 DEF VerifierStatuses, Downgraded, TypeOK
        <3>. QED  BY <1>2, <3>1, <3>2 DEF Verifications
    <2>. QED  BY <2>1, <2>2 DEF Verifier
<1>4. retryCount' \in 0..MaxRetries
    BY <1>3 DEF Verifier, TypeOK
<1>5. answer' \in Answers
    <2>1. ValidationState(verification'.status) \in {"validated", "rejected", "degraded"}
        BY DEF ValidationState
    <2>2. [validation |-> ValidationState(verification'.status), filtered |-> FALSE] \in Answers
        BY <2>1 DEF Answers
    <2>. QED  BY <2>2 DEF Verifier, TypeOK
<1>6. pc' \in Stages
    BY DEF Verifier, Stages
<1>. QED  BY <1>1, <1>3, <1>4, <1>5, <1>6 DEF TypeOK, Verifier, reqVars, toolVars

LEMMA SynthesizerTypeOK == TypeOK /\ Synthesizer => TypeOK'
<1>. SUFFICES ASSUME TypeOK, Synthesizer PROVE TypeOK'
    OBVIOUS
<1>1. elapsed' \in Nat /\ timedOut' \subseteq Stages /\ failure' = failure
    BY StageClock DEF Synthesizer, Stages, Completes, Degrades
<1>2. candidate' \in Candidates
    <2>1. retryCount + 1 \in Rounds /\ evidence.items \in BOOLEAN
        BY DEF Rounds, TypeOK, Evidence
    <2>2. Fallback(retryCount + 1) \in Candidates
        BY <2>1 DEF Fallback, Candidates
    <2>3. ASSUME NEW c \in BOOLEAN, NEW u \in BOOLEAN
          PROVE  [text |-> "answer", cited |-> c, unresolved |-> u, round |-> retryCount + 1]
                   \in Candidates
        BY <2>1 DEF Candidates
    <2>4. ASSUME NEW c \in CandidatesFrom(evidence, toolResults, retryCount + 1)
          PROVE  c \in Candidates
        <3>1. CASE c = Fallback(retryCount + 1)
            BY <2>2, <3>1
        <3>2. CASE \E b \in BOOLEAN :
                     c = [text |-> "answer", cited |-> b, unresolved |-> evidence.items /\ ~b,
                          round |-> retryCount + 1]
            BY <2>3, <3>2
        <3>. QED  BY <3>1, <3>2 DEF CandidatesFrom
    <2>. QED  BY <2>2, <2>4 DEF Synthesizer
<1>. QED  BY <1>1, <1>2 DEF TypeOK, Synthesizer, Stages, reqVars, toolVars

\* The stages that change nothing but their own result.
LEMMA OtherStagesTypeOK ==
    ASSUME TypeOK,
           \/ PrivacyPermission \/ Router \/ Planner \/ KnowledgeStrategy
           \/ Knowledge \/ Finalize \/ OutputFilter
    PROVE  TypeOK'
<1>1. elapsed' \in Nat /\ timedOut' \subseteq Stages /\ failure' = failure
    BY StageClock DEF PrivacyPermission, Router, Planner, KnowledgeStrategy, Knowledge,
       Finalize, OutputFilter, Stages, Completes, Degrades
<1>2. CASE PrivacyPermission
    BY <1>1, <1>2 DEF PrivacyPermission, TypeOK, Stages, reqVars, toolVars
<1>3. CASE Router
    <2>1. route' \in Routes
        <3>1. SafeRoute \in Routes
            BY DEF SafeRoute, Routes
        <3>. QED  BY <1>3, <3>1 DEF Router
    <2>2. pc' \in Stages
        BY <1>3 DEF Router, AfterRouter, Stages
    <2>. QED  BY <1>1, <1>3, <2>1, <2>2 DEF Router, TypeOK, reqVars, toolVars
<1>4. CASE Planner
    BY <1>1, <1>4 DEF Planner, Plans, TypeOK, Stages, reqVars, toolVars
<1>5. CASE KnowledgeStrategy
    BY <1>1, <1>5 DEF KnowledgeStrategy, TypeOK, Stages, reqVars, toolVars
<1>6. CASE Knowledge
    <2>1. retryCount + 1 \in Rounds
        BY DEF Rounds, TypeOK
    <2>2. evidence' \in Evidence
        <3>1. ASSUME NEW found \in BOOLEAN
              PROVE  [items |-> found, round |-> retryCount + 1] \in Evidence
            BY <2>1 DEF Evidence
        <3>. QED  BY <1>6, <3>1 DEF Knowledge
    <2>3. pc' \in Stages
        BY <1>6 DEF Knowledge, Stages
    <2>. QED  BY <1>1, <1>6, <2>2, <2>3 DEF Knowledge, TypeOK, reqVars, toolVars
<1>7. CASE Finalize
    BY <1>1, <1>7 DEF Finalize, TypeOK, Stages, reqVars, toolVars
<1>8. CASE OutputFilter
    BY <1>1, <1>8 DEF OutputFilter, Answers, TypeOK, Stages, reqVars, toolVars
<1>. QED  BY <1>2, <1>3, <1>4, <1>5, <1>6, <1>7, <1>8

LEMMA NextTypeOK == TypeOK /\ [Next]_vars => TypeOK'
<1>1. CASE UNCHANGED vars
    BY <1>1 DEF vars, TypeOK
<1>. QED  BY <1>1, StageRaisesTypeOK, MandatoryStageExpiresTypeOK, UnsupportedRouteTypeOK,
             ToolTypeOK, VerifierTypeOK, SynthesizerTypeOK, OtherStagesTypeOK
          DEF Next, Ended

\* Every variable keeps its type: the round never exceeds the clamp on
\* retries, a tool result is always one the tool loop can return.
THEOREM TypeCorrect == Spec => []TypeOK
<1>. QED  BY InitTypeOK, NextTypeOK, PTL DEF Spec

-----------------------------------------------------------------------------
(* Time.  Between stages the clock never passes the budget, except that    *)
(* scope resolution keeps its own ceiling; the last stage may add its own. *)

LatencyInv ==
    /\ pc = "privacy_permission" => elapsed = 0
    /\ pc \in Stages => elapsed <= Greater(Budget, FinalizationTimeout)
    /\ LatencyBound

\* How far one stage can move the clock.
LEMMA StageAdvance ==
    ASSUME TypeOK, NEW stage \in Stages, NEW d \in 0..StageTimeout(stage)
    PROVE  /\ elapsed + d \in Nat
           /\ stage \notin MandatoryStages => elapsed + d <= Greater(elapsed, Budget)
           /\ stage \in MandatoryStages => elapsed + d <= elapsed + FinalizationTimeout
<1>1. StageTimeout(stage) \in Nat /\ Ceiling(stage) \in Nat
    BY StageTimeoutType DEF TypeOK
<1>2. ASSUME stage \notin MandatoryStages
      PROVE  elapsed + d <= Greater(elapsed, Budget)
    <2>1. StageTimeout(stage) <= Remaining
        BY <1>1, <1>2, RemainingType DEF StageTimeout, Lesser, Remaining, TypeOK
    <2>. QED  BY <1>1, <2>1 DEF Remaining, RemainingAt, Greater, Lesser, Budget, TypeOK
<1>3. ASSUME stage \in MandatoryStages
      PROVE  elapsed + d <= elapsed + FinalizationTimeout
    BY <1>1, <1>3 DEF StageTimeout, Ceiling, MandatoryStages, TypeOK
<1>. QED  BY <1>1, <1>2, <1>3 DEF TypeOK

\* Every step but a stutter is the end of one stage, or follows from one.
LEMMA StepAdvance ==
    ASSUME TypeOK, Next, ~UNCHANGED vars
    PROVE  \E stage \in Stages : \E d \in 0..StageTimeout(stage) :
              /\ pc = stage
              /\ elapsed' = elapsed + d
              /\ deadline' = deadline
              /\ pc' # "privacy_permission"
              /\ pc' \in Stages => stage # "output_filter"
<1>1. ASSUME NEW stage \in Stages, Completes(stage) \/ Degrades(stage)
      PROVE  \E d \in 0..StageTimeout(stage) : pc = stage /\ elapsed' = elapsed + d
    BY <1>1, StageTimeoutType DEF Completes, Degrades, TypeOK
<1>2. CASE PrivacyPermission
    BY <1>1, <1>2 DEF PrivacyPermission, reqVars, Stages
<1>3. CASE Router
    BY <1>1, <1>3 DEF Router, AfterRouter, reqVars, Stages
<1>4. CASE Planner
    BY <1>1, <1>4 DEF Planner, reqVars, Stages
<1>5. CASE KnowledgeStrategy
    BY <1>1, <1>5 DEF KnowledgeStrategy, reqVars, Stages
<1>6. CASE Knowledge
    BY <1>1, <1>6 DEF Knowledge, reqVars, Stages
<1>7. CASE Tool
    BY <1>1, <1>7 DEF Tool, reqVars, Stages
<1>8. CASE Synthesizer
    BY <1>1, <1>8 DEF Synthesizer, reqVars, Stages
<1>9. CASE Verifier
    BY <1>1, <1>9 DEF Verifier, reqVars, Stages
<1>10. CASE Finalize
    BY <1>1, <1>10 DEF Finalize, reqVars, Stages
<1>11. CASE OutputFilter
    BY <1>1, <1>11 DEF OutputFilter, reqVars, Stages
<1>12. CASE StageRaises
    BY <1>12 DEF StageRaises, Fails, reqVars, Stages
<1>13. CASE MandatoryStageExpires
    <2>1. PICK stage \in MandatoryStages :
              pc = stage /\ elapsed' = elapsed + StageTimeout(stage) /\ Fails("timeout", stage)
        BY <1>13 DEF MandatoryStageExpires
    <2>2. stage \in Stages
        BY DEF MandatoryStages, Stages
    <2>3. StageTimeout(stage) \in 0..StageTimeout(stage)
        BY <2>2, StageTimeoutType DEF TypeOK
    <2>. QED  BY <2>1, <2>2, <2>3 DEF Fails, reqVars, Stages
<1>14. CASE UnsupportedRoute
    BY <1>14 DEF UnsupportedRoute, Fails, reqVars, Stages
<1>. QED  BY <1>2, <1>3, <1>4, <1>5, <1>6, <1>7, <1>8, <1>9, <1>10, <1>11, <1>12,
             <1>13, <1>14 DEF Next, Ended

LEMMA LatencyStep == TypeOK /\ LatencyInv /\ [Next]_vars => LatencyInv'
<1>1. CASE UNCHANGED vars
    BY <1>1 DEF vars, LatencyInv, LatencyBound, Budget
<1>2. ASSUME TypeOK, LatencyInv, Next, ~UNCHANGED vars
      PROVE  LatencyInv'
    <2>0. PICK stage \in Stages : \E d \in 0..StageTimeout(stage) :
              /\ pc = stage
              /\ elapsed' = elapsed + d
              /\ deadline' = deadline
              /\ pc' # "privacy_permission"
              /\ pc' \in Stages => stage # "output_filter"
        BY <1>2, StepAdvance
    <2>1. PICK d \in 0..StageTimeout(stage) :
              /\ pc = stage
              /\ elapsed' = elapsed + d
              /\ deadline' = deadline
              /\ pc' # "privacy_permission"
              /\ pc' \in Stages => stage # "output_filter"
        BY <2>0
    <2>2. Budget' = Budget /\ Budget \in Int
        BY <1>2, <2>1 DEF Budget, Lesser, TypeOK
    <2>3. CASE stage \notin MandatoryStages
        BY <1>2, <2>1, <2>2, <2>3, StageAdvance DEF LatencyInv, LatencyBound, Greater, TypeOK
    <2>4. CASE stage = "privacy_permission"
        BY <1>2, <2>1, <2>2, <2>4, StageAdvance
        DEF LatencyInv, LatencyBound, Greater, MandatoryStages, TypeOK
    <2>5. CASE stage = "output_filter"
        BY <1>2, <2>1, <2>2, <2>5, StageAdvance
        DEF LatencyInv, LatencyBound, Greater, MandatoryStages, TypeOK
    <2>. QED  BY <2>3, <2>4, <2>5 DEF MandatoryStages
<1>. QED  BY <1>1, <1>2

\* Whatever the ceilings and the caller's deadline, a request ends within the
\* budget (or the ceiling of scope resolution, if that is more) plus the
\* ceiling of the output filter.
THEOREM BoundedLatency == Spec => []LatencyBound
<1>1. Init => LatencyInv
    BY DEF Init, LatencyInv, LatencyBound, Budget, Greater, Lesser
<1>. QED  BY <1>1, InitTypeOK, NextTypeOK, LatencyStep, PTL DEF Spec, LatencyInv

-----------------------------------------------------------------------------
(* Tools and approvals. *)

LEMMA ApprovalStep == TypeOK /\ ApprovalSpentOnce /\ [Next]_vars => ApprovalSpentOnce'
<1>. SUFFICES ASSUME TypeOK, ApprovalSpentOnce, [Next]_vars PROVE ApprovalSpentOnce'
    OBVIOUS
<1>1. CASE Tool
    <2>1. CASE ReplayApproved
        BY <2>1 DEF ReplayApproved, ApprovalSpentOnce, TypeOK, toolVars
    <2>2. CASE RunSteps
        BY <2>2 DEF RunSteps, ApprovalSpentOnce
    <2>3. CASE ToolStageCut
        BY <2>3 DEF ToolStageCut, ApprovalSpentOnce, TypeOK, toolVars
    <2>. QED  BY <1>1, <2>1, <2>2, <2>3 DEF Tool
<1>2. CASE UNCHANGED toolVars
    BY <1>2 DEF toolVars, ApprovalSpentOnce
<1>3. CASE UNCHANGED vars
    BY <1>3 DEF vars, ApprovalSpentOnce
<1>. QED  BY <1>1, <1>2, <1>3
          DEF Next, PrivacyPermission, Router, UnsupportedRoute, Planner, KnowledgeStrategy,
              Knowledge, Synthesizer, Verifier, Finalize, OutputFilter, StageRaises,
              MandatoryStageExpires, Fails, Ended

\* One approval is spent at most once, and nothing is carried out without it,
\* however often the verifier sends the request round the loop.
THEOREM ApprovalIsSpentOnce == Spec => []ApprovalSpentOnce
<1>1. Init => ApprovalSpentOnce
    BY DEF Init, ApprovalSpentOnce
<1>. QED  BY <1>1, InitTypeOK, NextTypeOK, ApprovalStep, PTL DEF Spec

\* Until it is planned, a request has used no tool; once its router or planner
\* has timed out, should_run_tools is false for good.
Untouched == performed = 0 /\ succeededRuns = 0 /\ minted = 0

ToolGate ==
    /\ pc \in {"privacy_permission", "route", "plan"} =>
          Untouched /\ plan = "none" /\ timedOut = {}
    /\ timedOut \cap {"route", "plan"} # {} => Untouched /\ ~ShouldRunTools
    /\ pc = "tool" => ShouldRunTools

LEMMA ToolGateStep == TypeOK /\ ToolGate /\ [Next]_vars => ToolGate'
<1>. SUFFICES ASSUME TypeOK, ToolGate, [Next]_vars PROVE ToolGate'
    OBVIOUS
<1>. USE DEF ToolGate, Untouched, ShouldRunTools, reqVars, toolVars
<1>1. CASE UNCHANGED vars
    BY <1>1 DEF vars
<1>2. CASE PrivacyPermission
    BY <1>2 DEF PrivacyPermission, Completes
<1>3. CASE Router
    BY <1>3 DEF Router, AfterRouter, Completes, Degrades, SafeRoute
<1>4. CASE Planner
    BY <1>4 DEF Planner, Completes, Degrades
<1>5. CASE KnowledgeStrategy
    BY <1>5 DEF KnowledgeStrategy, Completes, Degrades
<1>6. CASE Knowledge
    BY <1>6 DEF Knowledge, Completes, Degrades
<1>7. CASE Tool
    <2>1. pc = "tool" /\ pc' = "synthesize" /\ plan' = plan /\ route' = route
        BY <1>7 DEF Tool, Completes, Degrades
    <2>2. timedOut' \cap {"route", "plan"} = timedOut \cap {"route", "plan"}
        BY <1>7 DEF Tool, Completes, Degrades
    <2>. QED  BY <2>1, <2>2
<1>8. CASE Synthesizer
    BY <1>8 DEF Synthesizer, Completes, Degrades
<1>9. CASE Verifier
    <2>1. pc = "verifier" /\ pc' \in {"knowledge_strategy", "finalize"}
        BY <1>9 DEF Verifier, Completes, Degrades
    <2>2. timedOut' \cap {"route", "plan"} = timedOut \cap {"route", "plan"}
        BY <1>9 DEF Verifier, Completes, Degrades
    <2>. QED  BY <1>9, <2>1, <2>2 DEF Verifier
<1>10. CASE Finalize
    BY <1>10 DEF Finalize, Completes, Degrades
<1>11. CASE OutputFilter
    BY <1>11 DEF OutputFilter, Completes
<1>12. CASE StageRaises \/ MandatoryStageExpires \/ UnsupportedRoute
    BY <1>12 DEF StageRaises, MandatoryStageExpires, UnsupportedRoute, Fails
<1>. QED  BY <1>1, <1>2, <1>3, <1>4, <1>5, <1>6, <1>7, <1>8, <1>9, <1>10, <1>11, <1>12
          DEF Next, Ended

\* A request whose router or planner timed out never touches a tool.
THEOREM DegradedPlanningDisablesTools == Spec => []UnplannedNeverActs
<1>1. Init => ToolGate
    BY DEF Init, ToolGate, Untouched
<1>2. ToolGate => UnplannedNeverActs
    BY DEF ToolGate, Untouched, UnplannedNeverActs
<1>. QED  BY <1>1, <1>2, InitTypeOK, NextTypeOK, ToolGateStep, PTL DEF Spec

-----------------------------------------------------------------------------
(* What a retry round can count on. *)

\* The retry loop is entered only at the strategy stage.
RetryInv ==
    /\ retryCount > 0 => pc \notin {"privacy_permission", "route", "plan"}
    /\ RetryFunding

LEMMA LesserLosesAtMost ==
    ASSUME NEW a \in Int, NEW b \in Int, NEW a1 \in Int, NEW b1 \in Int, NEW k \in Nat,
           a1 >= a - k, b1 >= b - k
    PROVE  /\ Greater(0, Lesser(a, b)) \in Nat /\ Greater(0, Lesser(a1, b1)) \in Nat
           /\ Greater(0, Lesser(a1, b1)) >= Greater(0, Lesser(a, b)) - k
BY DEF Greater, Lesser

\* What is left when a stage has used at most its ceiling.
LEMMA RemainingAfter ==
    ASSUME TypeOK, NEW stage \in Stages \ MandatoryStages,
           Completes(stage) \/ Degrades(stage), deadline' = deadline
    PROVE  /\ Remaining \in Nat /\ Remaining' \in Nat
           /\ Remaining' >= Remaining - Ceiling(stage)
<1>1. /\ Ceiling(stage) \in Nat
      /\ StageTimeout(stage) \in Nat /\ StageTimeout(stage) <= Ceiling(stage)
    BY StageTimeoutType DEF TypeOK
<1>2. elapsed' \in Nat /\ elapsed' <= elapsed + StageTimeout(stage)
    BY <1>1 DEF Completes, Degrades, TypeOK
<1>3. /\ Remaining = Greater(0, Lesser(TotalTimeout - elapsed, deadline - elapsed))
      /\ Remaining' = Greater(0, Lesser(TotalTimeout - elapsed', deadline - elapsed'))
    BY DEF Remaining, RemainingAt
<1>4. elapsed \in Nat /\ deadline \in Int
    BY DEF TypeOK
<1>5. /\ TotalTimeout - elapsed' >= TotalTimeout - elapsed - Ceiling(stage)
      /\ deadline - elapsed' >= deadline - elapsed - Ceiling(stage)
    BY <1>1, <1>2, <1>4
<1>6. /\ TotalTimeout - elapsed \in Int /\ TotalTimeout - elapsed' \in Int
      /\ deadline - elapsed \in Int /\ deadline' - elapsed' \in Int
    BY <1>2, <1>4
<1>. QED  BY <1>1, <1>3, <1>5, <1>6, LesserLosesAtMost

LEMMA RetryStep == TypeOK /\ RetryInv /\ [Next]_vars => RetryInv'
<1>. SUFFICES ASSUME TypeOK, RetryInv, [Next]_vars PROVE RetryInv'
    OBVIOUS
<1>. USE DEF RetryInv, RetryFunding, RetryRound, reqVars
<1>1. CASE UNCHANGED vars
    BY <1>1 DEF vars, Remaining, RemainingAt
<1>2. CASE PrivacyPermission \/ Router \/ Planner
    BY <1>2 DEF PrivacyPermission, Router, Planner, AfterRouter, Completes, Degrades, TypeOK
<1>3. CASE KnowledgeStrategy
    <2>1. Remaining' >= Remaining - PlanTimeout /\ Remaining \in Nat /\ Remaining' \in Nat
        BY <1>3, RemainingAfter DEF KnowledgeStrategy, Stages, MandatoryStages, Ceiling
    <2>. QED  BY <1>3, <2>1 DEF KnowledgeStrategy, Completes, Degrades
<1>4. CASE Knowledge
    <2>1. Remaining' >= Remaining - RetrievalTimeout /\ Remaining \in Nat /\ Remaining' \in Nat
        BY <1>4, RemainingAfter DEF Knowledge, Stages, MandatoryStages, Ceiling
    <2>. QED  BY <1>4, <2>1 DEF Knowledge, Completes, Degrades
<1>5. CASE Tool
    <2>1. Remaining' >= Remaining - ToolTimeout /\ Remaining \in Nat /\ Remaining' \in Nat
        BY <1>5, RemainingAfter DEF Tool, Stages, MandatoryStages, Ceiling
    <2>2. pc = "tool" /\ pc' = "synthesize" /\ retryCount' = retryCount
        BY <1>5 DEF Tool, Completes, Degrades
    <2>. QED  BY <2>1, <2>2
<1>6. CASE Synthesizer
    <2>1. Remaining' >= Remaining - SynthesisTimeout /\ Remaining \in Nat /\ Remaining' \in Nat
        BY <1>6, RemainingAfter DEF Synthesizer, Stages, MandatoryStages, Ceiling
    <2>2. pc = "synthesize" /\ pc' = "verifier" /\ retryCount' = retryCount
        BY <1>6 DEF Synthesizer, Completes, Degrades
    <2>. QED  BY <2>1, <2>2
<1>7. CASE Verifier
    <2>1. CASE pc' = "knowledge_strategy"
        <3>1. verification'.status = "retry_retrieval" /\ deadline' = deadline
            BY <1>7, <2>1 DEF Verifier
        <3>2. PICK status \in VerifierStatuses :
                  verification' = [status |-> Downgraded(status), ran |-> TRUE,
                                   round |-> retryCount + 1]
            BY <1>7, <3>1 DEF Verifier
        <3>3. HasRetryBudget(elapsed')
            BY <3>1, <3>2 DEF Downgraded
        <3>4. Remaining' >= RetryRound
            BY <3>1, <3>3 DEF HasRetryBudget, Remaining, RemainingAt
        <3>. QED  BY <2>1, <3>4
    <2>2. CASE pc' = "finalize"
        BY <2>2
    <2>. QED  BY <1>7, <2>1, <2>2 DEF Verifier
<1>8. CASE Finalize
    BY <1>8 DEF Finalize
<1>9. CASE OutputFilter
    BY <1>9 DEF OutputFilter
<1>10. CASE StageRaises \/ MandatoryStageExpires \/ UnsupportedRoute
    BY <1>10 DEF StageRaises, MandatoryStageExpires, UnsupportedRoute, Fails
<1>. QED  BY <1>1, <1>2, <1>3, <1>4, <1>5, <1>6, <1>7, <1>8, <1>9, <1>10 DEF Next, Ended

\* A retry round keeps, at each of its stages, what retry_round_ms set aside
\* less the ceilings of the stages it replays before it.
THEOREM RetryIsFunded == Spec => []RetryFunding
<1>1. Init => RetryInv
    BY DEF Init, RetryInv, RetryFunding
<1>2. RetryInv => RetryFunding
    BY DEF RetryInv
<1>. QED  BY <1>1, <1>2, InitTypeOK, NextTypeOK, RetryStep, PTL DEF Spec

-----------------------------------------------------------------------------
(* What a validated answer rests on. *)

Round == retryCount + 1

\* Each stage's result belongs to the round that is running, from the moment
\* the stage has run; and a validated answer was approved by the verifier
\* itself, on evidence and a candidate with nothing missing.
RoundInv ==
    /\ pc \in {"tool", "synthesize", "verifier", "finalize", "output_filter", "returned"} =>
          evidence.round = Round
    /\ pc \in {"verifier", "finalize", "output_filter", "returned"} =>
          /\ candidate.round = Round
          /\ candidate.cited => candidate.text = "answer"
    /\ pc \in {"finalize", "output_filter", "returned"} /\ answer.validation = "validated" =>
          /\ verification = [status |-> "approved", ran |-> TRUE, round |-> Round]
          /\ ~MissingAspects
    /\ pc = "returned" => answer.filtered

LEMMA RoundStep == TypeOK /\ RoundInv /\ [Next]_vars => RoundInv'
<1>. SUFFICES ASSUME TypeOK, RoundInv, [Next]_vars PROVE RoundInv'
    OBVIOUS
<1>. USE DEF Round
<1>1. CASE UNCHANGED vars
    BY <1>1 DEF vars, RoundInv, MissingAspects
<1>2. CASE PrivacyPermission \/ Router \/ Planner \/ KnowledgeStrategy
    <2>1. pc' \in {"route", "plan", "knowledge_strategy", "knowledge"}
        BY <1>2 DEF PrivacyPermission, Router, AfterRouter, Planner, KnowledgeStrategy
    <2>. QED  BY <2>1 DEF RoundInv
<1>3. CASE Knowledge
    <2>1. /\ pc' \in {"tool", "synthesize"}
          /\ evidence'.round = retryCount + 1 /\ retryCount' = retryCount
        BY <1>3 DEF Knowledge
    <2>. QED  BY <2>1 DEF RoundInv
<1>4. CASE Tool
    <2>1. /\ pc = "tool" /\ pc' = "synthesize"
          /\ evidence' = evidence /\ retryCount' = retryCount
        BY <1>4 DEF Tool, Completes, Degrades
    <2>. QED  BY <2>1 DEF RoundInv
<1>5. CASE Synthesizer
    <2>1. /\ pc = "synthesize" /\ pc' = "verifier"
          /\ evidence' = evidence /\ retryCount' = retryCount
        BY <1>5 DEF Synthesizer, Completes, Degrades
    <2>2. \/ candidate' = Fallback(retryCount + 1)
          \/ candidate' \in CandidatesFrom(evidence, toolResults, retryCount + 1)
        BY <1>5 DEF Synthesizer
    <2>3. candidate'.round = retryCount + 1 /\ (candidate'.cited => candidate'.text = "answer")
        <3>1. CASE candidate' = Fallback(retryCount + 1)
            BY <3>1 DEF Fallback
        <3>2. CASE \E c \in BOOLEAN :
                     candidate' = [text |-> "answer", cited |-> c,
                                   unresolved |-> evidence.items /\ ~c,
                                   round |-> retryCount + 1]
            BY <3>2
        <3>. QED  BY <2>2, <3>1, <3>2 DEF CandidatesFrom
    <2>. QED  BY <2>1, <2>3 DEF RoundInv
<1>6. CASE Verifier
    <2>1. /\ pc = "verifier" /\ pc' \in {"knowledge_strategy", "finalize"}
          /\ evidence' = evidence /\ candidate' = candidate
          /\ pc' = "finalize" => retryCount' = retryCount
        BY <1>6 DEF Verifier, Completes, Degrades
    <2>2. ASSUME pc' = "finalize", answer'.validation = "validated"
          PROVE  /\ verification' = [status |-> "approved", ran |-> TRUE, round |-> retryCount + 1]
                 /\ ~MissingAspects
        <3>1. verification'.status = "approved"
            BY <1>6, <2>2 DEF Verifier, ValidationState
        <3>2. PICK status \in VerifierStatuses :
                  verification' = [status |-> Downgraded(status), ran |-> TRUE,
                                   round |-> retryCount + 1]
            BY <1>6, <3>1 DEF Verifier
        <3>3. status = "approved"
            BY <3>1, <3>2 DEF Downgraded
        <3>4. ~MissingAspects
            BY <3>3, <3>2 DEF VerifierStatuses
        <3>. QED  BY <3>1, <3>2, <3>4
    <2>3. MissingAspects' = MissingAspects
        BY <2>1 DEF MissingAspects
    <2>. QED  BY <2>1, <2>2, <2>3 DEF RoundInv
<1>7. CASE Finalize
    <2>1. /\ pc = "finalize" /\ pc' = "output_filter"
          /\ UNCHANGED <<evidence, candidate, verification, retryCount, answer>>
        BY <1>7 DEF Finalize, Completes, Degrades
    <2>. QED  BY <2>1 DEF RoundInv, MissingAspects
<1>8. CASE OutputFilter
    <2>1. /\ pc = "output_filter" /\ pc' = "returned"
          /\ UNCHANGED <<evidence, candidate, verification, retryCount>>
          /\ answer'.filtered
          /\ answer'.validation = "validated" => answer.validation = "validated"
        BY <1>8 DEF OutputFilter, Completes
    <2>. QED  BY <2>1 DEF RoundInv, MissingAspects
<1>9. CASE StageRaises \/ MandatoryStageExpires \/ UnsupportedRoute
    BY <1>9 DEF StageRaises, MandatoryStageExpires, UnsupportedRoute, Fails, RoundInv
<1>. QED  BY <1>1, <1>2, <1>3, <1>4, <1>5, <1>6, <1>7, <1>8, <1>9 DEF Next, Ended

\* Records with the same fields are the same record.
LEMMA RoundInvSuffices == TypeOK /\ RoundInv => ApprovedIsEarned
<1>. SUFFICES ASSUME TypeOK, RoundInv, pc = "returned", answer.validation = "validated"
              PROVE  /\ evidence = [items |-> TRUE, round |-> retryCount + 1]
                     /\ candidate = [text |-> "answer", cited |-> TRUE, unresolved |-> FALSE,
                                     round |-> retryCount + 1]
                     /\ verification = [status |-> "approved", ran |-> TRUE,
                                        round |-> retryCount + 1]
                     /\ answer.filtered
    BY DEF ApprovedIsEarned
<1>1. /\ evidence.round = retryCount + 1 /\ candidate.round = retryCount + 1
      /\ candidate.cited => candidate.text = "answer"
      /\ verification = [status |-> "approved", ran |-> TRUE, round |-> retryCount + 1]
      /\ ~candidate.unresolved /\ evidence.items /\ candidate.cited
      /\ answer.filtered
    BY DEF RoundInv, Round, MissingAspects
<1>2. evidence = [items |-> evidence.items, round |-> evidence.round] /\ evidence.items \in BOOLEAN
    BY DEF TypeOK, Evidence
<1>3. /\ candidate = [text |-> candidate.text, cited |-> candidate.cited,
                      unresolved |-> candidate.unresolved, round |-> candidate.round]
      /\ candidate.cited \in BOOLEAN /\ candidate.unresolved \in BOOLEAN
    BY DEF TypeOK, Candidates
<1>. QED  BY <1>1, <1>2, <1>3

\* An answer is released as validated only on the strength of its own round.
THEOREM ValidatedAnswersAreEarned == Spec => []ApprovedIsEarned
<1>1. Init => RoundInv
    BY DEF Init, RoundInv
<1>. QED  BY <1>1, InitTypeOK, NextTypeOK, RoundStep, RoundInvSuffices, PTL DEF Spec

-----------------------------------------------------------------------------
(* The workflow implements the safety half of RequestContract. *)

LEMMA ContractStep == TypeOK /\ [Next]_vars => [Contract!Next]_Contract!vars
<1>. SUFFICES ASSUME TypeOK, [Next]_vars PROVE [Contract!Next]_Contract!vars
    OBVIOUS
<1>. USE DEF Phase, Contract!vars
<1>1. CASE UNCHANGED vars
    BY <1>1 DEF vars
<1>2. CASE PrivacyPermission
    <2>1. Contract!Admit
        BY <1>2 DEF PrivacyPermission, Completes, Contract!Admit
    <2>. QED  BY <2>1 DEF Contract!Next
<1>3. CASE Router \/ Planner \/ KnowledgeStrategy \/ Knowledge \/ Tool \/ Synthesizer
    <2>1. /\ pc \in {"route", "plan", "knowledge_strategy", "knowledge", "tool", "synthesize"}
          /\ pc' \in {"plan", "knowledge_strategy", "knowledge", "tool", "synthesize", "verifier"}
          /\ UNCHANGED <<retryCount, answer>>
        BY <1>3 DEF Router, AfterRouter, Planner, KnowledgeStrategy, Knowledge, Tool,
                    Synthesizer, Completes, Degrades
    <2>. QED  BY <2>1
<1>4. CASE Verifier
    <2>1. pc = "verifier"
        BY <1>4 DEF Verifier, Completes, Degrades
    <2>2. CASE verification'.status = "retry_retrieval"
        <3>1. /\ retryCount' = retryCount + 1 /\ pc' = "knowledge_strategy" /\ answer' = answer
            BY <1>4, <2>2 DEF Verifier
        <3>2. retryCount' \in 0..MaxRetries /\ retryCount \in 0..MaxRetries
            BY <1>4, VerifierTypeOK DEF TypeOK
        <3>3. Contract!Redo
            BY <2>1, <3>1, <3>2 DEF Contract!Redo
        <3>. QED  BY <3>3 DEF Contract!Next
    <2>3. CASE verification'.status # "retry_retrieval"
        <3>1. /\ retryCount' = retryCount /\ pc' = "finalize"
              /\ answer'.validation = ValidationState(verification'.status)
            BY <1>4, <2>3 DEF Verifier
        <3>2. answer'.validation \in Contract!Verdicts
            BY <3>1 DEF ValidationState, Contract!Verdicts
        <3>3. Contract!Judge
            BY <2>1, <3>1, <3>2 DEF Contract!Judge
        <3>. QED  BY <3>3 DEF Contract!Next
    <2>. QED  BY <2>2, <2>3
<1>5. CASE Finalize
    BY <1>5 DEF Finalize, Completes, Degrades
<1>6. CASE OutputFilter
    <2>1. /\ pc = "output_filter" /\ pc' = "returned" /\ retryCount' = retryCount
          /\ answer'.validation \in {answer.validation, "degraded"}
        BY <1>6 DEF OutputFilter, Completes
    <2>2. Contract!Release
        BY <2>1 DEF Contract!Release
    <2>. QED  BY <2>2 DEF Contract!Next
<1>7. CASE StageRaises \/ MandatoryStageExpires \/ UnsupportedRoute
    <2>1. pc \in Stages /\ pc' = "failed" /\ UNCHANGED <<retryCount, answer>>
        BY <1>7 DEF StageRaises, MandatoryStageExpires, UnsupportedRoute, Fails,
                    MandatoryStages, Stages
    <2>2. Contract!Fail
        BY <2>1 DEF Contract!Fail, Stages
    <2>. QED  BY <2>2 DEF Contract!Next
<1>. QED  BY <1>1, <1>2, <1>3, <1>4, <1>5, <1>6, <1>7 DEF Next, Ended

\* Every behaviour of the workflow, under the refinement mapping, is one the
\* contract allows.
THEOREM WorkflowKeepsContract == Spec => KeepsContract
<1>1. Init => Contract!Init
    BY DEF Init, Contract!Init, Phase
<1>. QED  BY <1>1, InitTypeOK, NextTypeOK, ContractStep, PTL DEF Spec, KeepsContract, Contract!Safety

=============================================================================
