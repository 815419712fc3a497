------------------------------ MODULE Workflow ------------------------------
(***************************************************************************)
(* One request through the LangGraph workflow of app/orchestration: the    *)
(* seven nodes, the stages each node runs under its time ceiling, the      *)
(* degraded value a stage leaves when it times out, and the verifier's     *)
(* single loop back to retrieval.                                          *)
(*                                                                         *)
(* pc names the stage about to run, with the code's timeout_stage names;   *)
(* a node that runs several stages (knowledge, verifier) is several values *)
(* of pc.  Time passes only inside stages, in whole units.                 *)
(***************************************************************************)
EXTENDS Integers, Sequences

CONSTANTS
    TotalTimeout, RouteTimeout, PlanTimeout, RetrievalTimeout,
    ToolTimeout, SynthesisTimeout, FinalizationTimeout, OverheadBuffer,
    Deadlines,      \* caller deadlines, as offsets from the start; one at or
                    \* beyond TotalTimeout stands for "no deadline"
    MaxRetries,     \* VERIFIER_MAX_RETRIES, clamped to 0..1 by the code
    ToolMaxSteps    \* TOOL_MAX_STEPS

ASSUME TimeoutsAssumption ==
    /\ TotalTimeout \in Nat /\ RouteTimeout \in Nat /\ PlanTimeout \in Nat
    /\ RetrievalTimeout \in Nat /\ ToolTimeout \in Nat
    /\ SynthesisTimeout \in Nat /\ FinalizationTimeout \in Nat
    /\ OverheadBuffer \in Nat

\* TimeoutConfig.validate: one pass of every stage fits in the total.
StageSum ==
    RouteTimeout + PlanTimeout + RetrievalTimeout + ToolTimeout
      + SynthesisTimeout + FinalizationTimeout + OverheadBuffer

ASSUME ValidateAssumption == StageSum <= TotalTimeout

ASSUME DeadlinesAssumption == Deadlines \subseteq Int

ASSUME MaxRetriesAssumption == MaxRetries \in 0..1

ASSUME ToolMaxStepsAssumption == ToolMaxSteps \in Nat \ {0}

VARIABLES
    pc,           \* the stage about to run, or "returned" / "failed"
    elapsed,      \* ExecutionBudget.elapsed_ms
    deadline,     \* ExecutionBudget.deadline_offset_ms
    resume,       \* the request carries an approval_token
    approval,     \* state of the approval that token names
    scope,        \* permission_scope has been resolved
    route,        \* what the later stages read of the RouteDecision
    plan,         \* what they read of the task_plan
    evidence,     \* evidence_bundle / context: are there items, which round
    toolResults,  \* tool_results: the statuses of this round's tool runs
    candidate,    \* candidate_answer
    verification, \* the verifier's decision
    retryCount,   \* retry_count
    answer,       \* final_answer
    timedOut,     \* stages whose trace event says "timed out"
    failure,      \* why the request failed
    performed,    \* approved writes a connector carried out (history)
    succeededRuns,\* tool runs that ended "succeeded", over all rounds (history)
    minted        \* pending approvals created (history)

reqVars  == <<deadline, resume>>
toolVars == <<approval, performed, succeededRuns, minted>>
vars == <<pc, elapsed, deadline, resume, approval, scope, route, plan, evidence,
          toolResults, candidate, verification, retryCount, answer, timedOut,
          failure, performed, succeededRuns, minted>>

-----------------------------------------------------------------------------
(* The values the stages exchange. *)

Stages == {"privacy_permission", "route", "plan", "knowledge_strategy",
           "knowledge", "tool", "synthesize", "verifier", "finalize",
           "output_filter"}

\* Stages that must run even when the budget is spent.
MandatoryStages == {"privacy_permission", "output_filter"}

Routes == [supported : BOOLEAN, requires_plan : BOOLEAN, tool : BOOLEAN]

\* _timed_out_route: local retrieval only, no plan, no tools.
SafeRoute == [supported |-> TRUE, requires_plan |-> FALSE, tool |-> FALSE]

Plans == {"none", "plain", "tools"}

ToolStatuses == {"succeeded", "failed", "approval_required", "skipped"}

\* What the tool loop can return: successes up to the first run that is not
\* one, at most ToolMaxSteps of them, "skipped" only when nothing was run.
ToolRuns ==
    {s \in UNION {[1..n -> ToolStatuses] : n \in 1..ToolMaxSteps} :
        /\ \A i \in 1..(Len(s) - 1) : s[i] = "succeeded"
        /\ s[Len(s)] = "skipped" => Len(s) = 1}

Rounds == 0..(MaxRetries + 1)

Evidence == [items : BOOLEAN, round : Rounds]

Candidates == [text : {"none", "fallback", "answer"}, cited : BOOLEAN,
               unresolved : BOOLEAN, round : Rounds]

Verifications == [status : {"none", "approved", "retry_retrieval", "rejected", "degraded"},
                  ran : BOOLEAN, round : Rounds]

Answers == [validation : {"none", "validated", "degraded", "rejected"},
            filtered : BOOLEAN]

Failures == [kind : {"none", "error", "timeout", "unsupported_route"},
             stage : Stages \cup {"none"}]

-----------------------------------------------------------------------------
(* The execution budget (timeout_control.py). *)

Lesser(a, b)  == IF a <= b THEN a ELSE b
Greater(a, b) == IF a >= b THEN a ELSE b

\* remaining_ms: the configured total narrowed by the caller's deadline.
RemainingAt(t) == Greater(0, Lesser(TotalTimeout - t, deadline - t))

Remaining == RemainingAt(elapsed)

\* get_stage_timeout's table.
Ceiling(stage) ==
    CASE stage = "route"                          -> RouteTimeout
      [] stage \in {"plan", "knowledge_strategy"} -> PlanTimeout
      [] stage = "knowledge"                      -> RetrievalTimeout
      [] stage = "tool"                           -> ToolTimeout
      [] stage = "synthesize"                     -> SynthesisTimeout
      [] OTHER                                    -> FinalizationTimeout

\* Mutant: the ceiling is not clamped to what is left of the budget.
StageTimeoutUnclamped(stage) == Ceiling(stage)

\* get_stage_timeout: a mandatory stage keeps its own ceiling.
StageTimeout(stage) ==
    IF stage \in MandatoryStages THEN Ceiling(stage)
    ELSE Lesser(Ceiling(stage), Remaining)

\* check_budget lets the stage start.
HasStageBudget(stage) == stage \in MandatoryStages \/ Remaining > 0

\* What a verifier-directed retry is taken to cost.
RetryRound == RetrievalTimeout + SynthesisTimeout + FinalizationTimeout

\* Mutant: has_budget() called with its default of 0.
HasAnyBudget(t) == RemainingAt(t) >= 0

HasRetryBudget(t) == RemainingAt(t) >= RetryRound

-----------------------------------------------------------------------------
(* The four ways _run_stage ends. *)

\* The operation returns within its ceiling; a "completed" event is reported.
Completes(stage) ==
    /\ pc = stage
    /\ HasStageBudget(stage)
    /\ \E d \in 0..StageTimeout(stage) : elapsed' = elapsed + d
    /\ UNCHANGED <<timedOut, failure>>

\* The ceiling fires, or the budget was spent before the stage began; an
\* optional stage goes on with its on_timeout value.
Degrades(stage) ==
    /\ pc = stage
    /\ stage \notin MandatoryStages
    /\ elapsed' = elapsed + StageTimeout(stage)
    /\ timedOut' = timedOut \cup {stage}
    /\ UNCHANGED failure

\* The request ends: nothing else of the state changes.
Fails(kind, stage) ==
    /\ pc' = "failed"
    /\ failure' = [kind |-> kind, stage |-> stage]
    /\ UNCHANGED <<reqVars, toolVars, scope, route, plan, evidence, toolResults,
                   candidate, verification, retryCount, answer, timedOut>>

\* The operation raises: StageExecutionError, whatever the stage.
StageRaises ==
    \E stage \in Stages :
        /\ pc = stage
        /\ HasStageBudget(stage)
        /\ \E d \in 0..StageTimeout(stage) : elapsed' = elapsed + d
        /\ Fails("error", stage)

\* A mandatory stage has no on_timeout: its ceiling fails the request.
MandatoryStageExpires ==
    \E stage \in MandatoryStages :
        /\ pc = stage
        /\ elapsed' = elapsed + StageTimeout(stage)
        /\ Fails("timeout", stage)

-----------------------------------------------------------------------------
(* The nodes. *)

Init ==
    /\ pc = "privacy_permission"
    /\ elapsed = 0
    /\ deadline \in Deadlines
    /\ resume \in BOOLEAN
    /\ approval \in IF resume THEN {"approved", "unusable"} ELSE {"none"}
    /\ scope = FALSE
    /\ route = SafeRoute
    /\ plan = "none"
    /\ evidence = [items |-> FALSE, round |-> 0]
    /\ toolResults = << >>
    /\ candidate = [text |-> "none", cited |-> FALSE, unresolved |-> FALSE, round |-> 0]
    /\ verification = [status |-> "none", ran |-> FALSE, round |-> 0]
    /\ retryCount = 0
    /\ answer = [validation |-> "none", filtered |-> FALSE]
    /\ timedOut = {}
    /\ failure = [kind |-> "none", stage |-> "none"]
    /\ performed = 0
    /\ succeededRuns = 0
    /\ minted = 0

\* Input inspection and scope resolution.  A blocked question or a refused
\* scope raises, which is StageRaises.
PrivacyPermission ==
    /\ Completes("privacy_permission")
    /\ scope' = TRUE
    /\ pc' = "route"
    /\ UNCHANGED <<reqVars, toolVars, route, plan, evidence, toolResults,
                   candidate, verification, retryCount, answer>>

\* after_router reads next_stage, which the router node took from should_plan.
AfterRouter(r) == IF r.requires_plan THEN "plan" ELSE "knowledge_strategy"

\* validate_route runs after the stage: an unsupported route fails the
\* request outside _run_stage.
Router ==
    /\ \/ Completes("route") /\ route' \in Routes
       \/ Degrades("route") /\ route' = SafeRoute
    /\ route'.supported
    /\ pc' = AfterRouter(route')
    /\ UNCHANGED <<reqVars, toolVars, scope, plan, evidence, toolResults,
                   candidate, verification, retryCount, answer>>

UnsupportedRoute ==
    /\ pc = "route"
    /\ HasStageBudget("route")
    /\ \E d \in 0..StageTimeout("route") : elapsed' = elapsed + d
    /\ Fails("unsupported_route", "route")

Planner ==
    /\ \/ Completes("plan") /\ plan' \in {"plain", "tools"}
       \/ Degrades("plan") /\ plan' = "none"
    /\ pc' = "knowledge_strategy"
    /\ UNCHANGED <<reqVars, toolVars, scope, route, evidence, toolResults,
                   candidate, verification, retryCount, answer>>

\* The knowledge node, first stage: which sources to search.  The strategy
\* only steers retrieval; a timeout falls back to the local pair.
KnowledgeStrategy ==
    /\ Completes("knowledge_strategy") \/ Degrades("knowledge_strategy")
    /\ pc' = "knowledge"
    /\ UNCHANGED <<reqVars, toolVars, scope, route, plan, evidence, toolResults,
                   candidate, verification, retryCount, answer>>

\* Mutant: the plan is not consulted.
ShouldRunRouteTools == route.tool

\* policy.should_run_tools.
ShouldRunTools == plan = "tools" /\ route.tool

\* Second stage: retrieval under the resolved scope; a timeout is an empty
\* bundle.  The round's tool results start empty.
Knowledge ==
    /\ scope
    /\ \/ Completes("knowledge")
          /\ \E found \in BOOLEAN :
                evidence' = [items |-> found, round |-> retryCount + 1]
       \/ Degrades("knowledge")
          /\ evidence' = [items |-> FALSE, round |-> retryCount + 1]
    /\ toolResults' = << >>
    /\ pc' = IF ShouldRunTools THEN "tool" ELSE "synthesize"
    /\ UNCHANGED <<reqVars, toolVars, scope, route, plan, candidate,
                   verification, retryCount, answer>>

\* Mutant: the store forgets to mark the approval consumed.
ReplayUnconsumed ==
    IF approval = "approved"
    THEN /\ toolResults' = <<"succeeded">>
         /\ performed' = performed + 1
         /\ succeededRuns' = succeededRuns + 1
         /\ UNCHANGED <<approval, minted>>
    ELSE toolResults' = <<"failed">> /\ UNCHANGED toolVars

\* _replay_approved: run exactly the approved call, once.  An approval that is
\* consumed, expired or someone else's yields a "failed" result.  A connector
\* that fails or times out may or may not have acted.
ReplayApproved ==
    IF approval = "approved"
    THEN /\ approval' = "consumed"
         /\ \/ /\ toolResults' = <<"succeeded">>
               /\ performed' = performed + 1
               /\ succeededRuns' = succeededRuns + 1
            \/ /\ toolResults' = <<"failed">>
               /\ performed' \in {performed, performed + 1}
               /\ UNCHANGED succeededRuns
         /\ UNCHANGED minted
    ELSE toolResults' = <<"failed">> /\ UNCHANGED toolVars

SucceededIn(runs) == IF runs[Len(runs)] = "succeeded" THEN Len(runs) ELSE Len(runs) - 1

\* _run_steps: read tools run, the first governed write stops the loop and
\* leaves a pending approval.
RunSteps ==
    \E runs \in ToolRuns :
        /\ toolResults' = runs
        /\ minted' = minted + (IF runs[Len(runs)] = "approval_required" THEN 1 ELSE 0)
        /\ succeededRuns' = succeededRuns + SucceededIn(runs)
        /\ UNCHANGED <<approval, performed>>

\* The stage ceiling cancels the tool loop wherever it is: the results so far
\* are dropped, what was already done stays done.
ToolStageCut ==
    /\ toolResults' = << >>
    /\ IF ~HasStageBudget("tool")
       THEN UNCHANGED toolVars
       ELSE \/ /\ resume /\ approval = "approved" /\ approval' = "consumed"
               /\ performed' \in {performed, performed + 1}
               /\ UNCHANGED <<succeededRuns, minted>>
            \/ /\ ~resume
               /\ minted' \in {minted, minted + 1}
               /\ \E done \in 0..(ToolMaxSteps - 1) : succeededRuns' = succeededRuns + done
               /\ UNCHANGED <<approval, performed>>
            \/ UNCHANGED toolVars

\* Third stage of the knowledge node, for a tool-enabled route and plan.
Tool ==
    /\ \/ Completes("tool") /\ (IF resume THEN ReplayApproved ELSE RunSteps)
       \/ Degrades("tool") /\ ToolStageCut
    /\ pc' = "synthesize"
    /\ UNCHANGED <<reqVars, scope, route, plan, evidence, candidate,
                   verification, retryCount, answer>>

Fallback(round) ==
    [text |-> "fallback", cited |-> FALSE, unresolved |-> TRUE, round |-> round]

\* synthesize_candidate: nothing to write from gives the fallback; with
\* evidence an answer without a citation leaves an unresolved item.
CandidatesFrom(ev, runs, round) ==
    {Fallback(round)} \cup
    IF ~ev.items /\ runs = << >> THEN {}
    ELSE {[text |-> "answer", cited |-> c, unresolved |-> ev.items /\ ~c, round |-> round] :
              c \in IF ev.items THEN BOOLEAN ELSE {FALSE}}

Synthesizer ==
    /\ \/ Completes("synthesize")
          /\ candidate' \in CandidatesFrom(evidence, toolResults, retryCount + 1)
       \/ Degrades("synthesize") /\ candidate' = Fallback(retryCount + 1)
    /\ pc' = "verifier"
    /\ UNCHANGED <<reqVars, toolVars, scope, route, plan, evidence, toolResults,
                   verification, retryCount, answer>>

\* Mutant: an answer without evidence or citations has nothing missing.
MissingUnresolvedOnly == candidate.unresolved

\* VerifierAgentService.verify: the statuses it can return.
MissingAspects == candidate.unresolved \/ ~evidence.items \/ ~candidate.cited

VerifierStatuses ==
    {"rejected"}                                      \* a safety issue
      \cup (IF retryCount < MaxRetries THEN {"retry_retrieval"}
            ELSE {"rejected", "degraded"})            \* needs retrieval
      \cup (IF MissingAspects THEN {} ELSE {"approved", "degraded"})

\* The verifier node downgrades a retry it may not or cannot afford to start.
Downgraded(status) ==
    IF status = "retry_retrieval"
         /\ (retryCount >= MaxRetries \/ ~HasRetryBudget(elapsed'))
    THEN "degraded" ELSE status

ValidationState(status) ==
    CASE status = "approved" -> "validated"
      [] status = "rejected" -> "rejected"
      [] OTHER -> "degraded"

\* Mutant: the retry is not counted.
VerifierUncounted ==
    /\ Completes("verifier")
    /\ \E status \in VerifierStatuses :
          /\ verification' = [status |-> Downgraded(status), ran |-> TRUE,
                              round |-> retryCount + 1]
          /\ pc' = IF Downgraded(status) = "retry_retrieval"
                   THEN "knowledge_strategy" ELSE "finalize"
          /\ answer' = IF Downgraded(status) = "retry_retrieval" THEN answer
                       ELSE [validation |-> ValidationState(Downgraded(status)),
                             filtered |-> FALSE]
    /\ UNCHANGED <<reqVars, toolVars, scope, route, plan, evidence, toolResults,
                   candidate, retryCount>>

\* The verifier node: decide, then either start the one retry or build the
\* base answer.  after_verifier sends a retry back to the knowledge node.
Verifier ==
    /\ \/ /\ Completes("verifier")
          /\ \E status \in VerifierStatuses :
                verification' = [status |-> Downgraded(status), ran |-> TRUE,
                                 round |-> retryCount + 1]
       \/ /\ Degrades("verifier")
          /\ verification' = [status |-> "degraded", ran |-> FALSE,
                              round |-> retryCount + 1]
    /\ IF verification'.status = "retry_retrieval"
       THEN /\ retryCount' = retryCount + 1
            /\ pc' = "knowledge_strategy"
            /\ UNCHANGED answer
       ELSE /\ answer' = [validation |-> ValidationState(verification'.status),
                          filtered |-> FALSE]
            /\ pc' = "finalize"
            /\ UNCHANGED retryCount
    /\ UNCHANGED <<reqVars, toolVars, scope, route, plan, evidence, toolResults, candidate>>

\* Mutant: the finalizer validates an answer the verifier already judged.
FinalizeRevalidates ==
    /\ Completes("finalize") \/ Degrades("finalize")
    /\ answer' \in {answer, [answer EXCEPT !.validation = "validated"]}
    /\ pc' = "output_filter"
    /\ UNCHANGED <<reqVars, toolVars, scope, route, plan, evidence, toolResults,
                   candidate, verification, retryCount>>

\* Second stage of the verifier node.  A verified answer keeps its validation;
\* a timeout keeps the base answer.
Finalize ==
    /\ Completes("finalize") \/ Degrades("finalize")
    /\ pc' = "output_filter"
    /\ UNCHANGED <<reqVars, toolVars, scope, route, plan, evidence, toolResults,
                   candidate, verification, retryCount, answer>>

\* Output DLP: a citation outside the scope is dropped and the answer degraded.
OutputFilter ==
    /\ scope
    /\ Completes("output_filter")
    /\ \E dropped \in BOOLEAN :
          /\ dropped => candidate.cited
          /\ answer' = [validation |-> IF dropped THEN "degraded" ELSE answer.validation,
                        filtered |-> TRUE]
    /\ pc' = "returned"
    /\ UNCHANGED <<reqVars, toolVars, scope, route, plan, evidence, toolResults,
                   candidate, verification, retryCount>>

-----------------------------------------------------------------------------
\* A request that has ended takes no further step.
Ended == pc \in {"returned", "failed"} /\ UNCHANGED vars

Next ==
    \/ PrivacyPermission \/ Router \/ UnsupportedRoute \/ Planner
    \/ KnowledgeStrategy \/ Knowledge \/ Tool \/ Synthesizer
    \/ Verifier \/ Finalize \/ OutputFilter
    \/ StageRaises \/ MandatoryStageExpires
    \/ Ended

\* asyncio.timeout ends every stage, one way or the other.
Spec == Init /\ [][Next]_vars /\ WF_vars(Next)

-----------------------------------------------------------------------------
(* Properties. *)

TypeOK ==
    /\ pc \in Stages \cup {"returned", "failed"}
    /\ elapsed \in Nat
    /\ deadline \in Int
    /\ resume \in BOOLEAN
    /\ approval \in {"none", "approved", "unusable", "consumed"}
    /\ scope \in BOOLEAN
    /\ route \in Routes
    /\ plan \in Plans
    /\ evidence \in Evidence
    /\ toolResults \in {<< >>} \cup ToolRuns
    /\ candidate \in Candidates
    /\ verification \in Verifications
    /\ retryCount \in 0..MaxRetries
    /\ answer \in Answers
    /\ timedOut \subseteq Stages
    /\ failure \in Failures
    /\ performed \in Nat /\ succeededRuns \in Nat /\ minted \in Nat

\* A request is answered or refused no later than its budget plus the ceiling
\* of the output filter, the one late stage that is not clamped to what is
\* left; a budget already spent on arrival still pays for scope resolution.
\* Relies on every clamp in get_stage_timeout and on the gate in check_budget.
Budget == Lesser(TotalTimeout, deadline)

LatencyBound ==
    elapsed <= Greater(Budget, FinalizationTimeout) + FinalizationTimeout

\* What a retry round can count on.  has_budget(retry_round_ms) was checked
\* when the round began, but the round also replays the strategy stage and the
\* tool stage, so each later stage keeps only what those two leave.
RetryFunding ==
    retryCount > 0 =>
        /\ pc = "knowledge_strategy" => Remaining >= RetryRound
        /\ pc \in {"knowledge", "tool", "synthesize", "verifier"} =>
             LET spent == PlanTimeout
                   + (IF pc \in {"tool", "synthesize", "verifier"} THEN RetrievalTimeout ELSE 0)
                   + (IF pc \in {"synthesize", "verifier"} THEN ToolTimeout ELSE 0)
                   + (IF pc = "verifier" THEN SynthesisTimeout ELSE 0)
             IN  Remaining >= RetryRound - spent

\* An answer leaves the workflow "validated" only if, in its last round,
\* retrieval found evidence, synthesis wrote a cited answer from that very
\* evidence, the verifier itself (not its timeout default) approved it, and
\* output DLP dropped nothing.
ApprovedIsEarned ==
    pc = "returned" /\ answer.validation = "validated" =>
        /\ evidence = [items |-> TRUE, round |-> retryCount + 1]
        /\ candidate = [text |-> "answer", cited |-> TRUE, unresolved |-> FALSE,
                        round |-> retryCount + 1]
        /\ verification = [status |-> "approved", ran |-> TRUE, round |-> retryCount + 1]
        /\ answer.filtered

\* A request whose router or planner timed out goes on without tools: no tool
\* runs for it and no approval is minted, in any round.
UnplannedNeverActs ==
    timedOut \cap {"route", "plan"} # {} =>
        performed = 0 /\ succeededRuns = 0 /\ minted = 0

\* One approval carries out at most one action, although the retry round
\* replays the tool stage; and nothing is carried out without one.
ApprovalSpentOnce ==
    /\ performed <= 1
    /\ performed = 1 => approval = "consumed"

\* timeout_control.py: "a retry replays those three stages and nothing else"
\* and is started only when the clock can pay for it -- so each of the three
\* has its whole ceiling.
RetryRoundFullyFunded ==
    retryCount > 0 /\ pc \in {"knowledge", "synthesize", "verifier"} =>
        StageTimeout(pc) = Ceiling(pc)

\* "What the governed tool loop did has to reach the caller": an approved
\* action that succeeded is not reported to the caller as a failed run.
PerformedActionReported ==
    pc = "returned" /\ resume /\ succeededRuns > 0 =>
        "succeeded" \in {toolResults[i] : i \in DOMAIN toolResults}

\* The workflow keeps the contract of RequestContract.
Phase ==
    CASE pc = "privacy_permission" -> "received"
      [] pc \in {"finalize", "output_filter"} -> "judged"
      [] pc = "returned" -> "released"
      [] pc = "failed" -> "failed"
      [] OTHER -> "working"

Contract == INSTANCE RequestContract WITH
    MaxRounds <- MaxRetries + 1,
    phase     <- Phase,
    rounds    <- retryCount + 1,
    verdict   <- answer.validation

\* Safety half of the contract: admitted once, at most MaxRetries + 1 rounds,
\* judged before it is released, and never released with a better verdict.
KeepsContract == Contract!Safety

\* Liveness half: every request is eventually released or failed.
RequestEnds == Contract!Ends

=============================================================================
