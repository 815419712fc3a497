----------------------------- MODULE LiveStream -----------------------------
(***************************************************************************)
(* The live view of a running request: the engine and the synthesizer's    *)
(* worker threads publish stage events and redacted fragments of the draft *)
(* into two bounded stores, the request keeps its trace in the tracker,    *)
(* and an SSE reader follows all three until the trace is terminal.        *)
(*                                                                         *)
(* The engine, the route and the readers share one event loop, so each of  *)
(* their actions is what runs between two awaits.  A round of the          *)
(* synthesizer streams from a thread of its own (asyncio.to_thread), which *)
(* the stage's ceiling does not stop.                                      *)
(***************************************************************************)
EXTENDS StreamingRedactor, FiniteSets

CONSTANTS
    Executions,     \* those whose whole life is followed
    Others,         \* the rest of the traffic, which shares the stores
    Texts,          \* what the model may write
    MaxRounds,      \* times the workflow synthesizes
    MaxStages,      \* bound: stage events of one execution
    MaxOthers,      \* bound: what each of the others publishes
    MaxExecutions,  \* _MAX_EXECUTIONS
    MaxItems        \* _MAX_FRAGMENTS_PER_EXECUTION, _MAX_EVENTS_PER_EXECUTION

ASSUME StreamAssumption ==
    /\ Executions \cap Others = {}
    /\ Texts \subseteq Seq(Characters)
    /\ MaxRounds \in Nat /\ MaxStages \in Nat /\ MaxOthers \in Nat
    /\ MaxExecutions \in Nat \ {0} /\ MaxItems \in Nat \ {0}

VARIABLES
    at,         \* where each request is
    status,     \* ExecutionTrace.status
    traces,     \* executions in AgentExecutionTracker._traces
    stages,     \* stage events each workflow has reported
    round,      \* rounds of the synthesizer started
    threads,    \* the worker thread of each round
    events,     \* ExecutionEventStore
    answers,    \* AnswerStreamStore
    complete,   \* AnswerStreamStore._complete
    readers,    \* event_stream of a client of each execution
    written,    \* publications, per execution (history)
    idle,       \* executions written since this one's last fragment (history)
    evicted     \* executions that a store has dropped (history)

request == <<at, status, traces, stages, round>>
stores == <<events, answers, complete, written, idle, evicted>>
vars == <<request, threads, stores, readers>>

Rounds == 1..MaxRounds
All == Executions \cup Others
NoThread == [at |-> "none", left |-> << >>, redactor |-> Fresh]
Terminal == {"completed", "failed"}

Init ==
    /\ at = [e \in Executions |-> "unasked"]
    /\ status = [e \in Executions |-> "running"]
    /\ traces = {}
    /\ stages = [e \in Executions |-> 0]
    /\ round = [e \in Executions |-> 0]
    /\ threads = [e \in Executions |-> [r \in Rounds |-> NoThread]]
    /\ events = [order |-> << >>, items |-> [e \in All |-> << >>]]
    /\ answers = [order |-> << >>, items |-> [e \in All |-> << >>]]
    /\ complete = {}
    /\ readers = [e \in Executions |-> [at |-> "off", events |-> << >>, fragments |-> << >>, known |-> 0]]
    /\ written = [e \in All |-> [events |-> 0, fragments |-> 0]]
    /\ idle = [e \in All |-> {}]
    /\ evicted = {}

-----------------------------------------------------------------------------
(***************************************************************************)
(* The stores.  What is published is known by its number; a store keeps a  *)
(* list per execution and its executions by their last write, oldest first.*)
(***************************************************************************)
\* Mutant: an execution keeps the place of its first write.
TouchedOnce(order, e) == IF \E i \in DOMAIN order : order[i] = e THEN order ELSE Append(order, e)

Touched(order, e) == Append(RemoveFirst(order, e), e)

\* Mutant: one execution too many stays.
OverfullLate(order) == Len(order) > MaxExecutions + 1

Overfull(order) == Len(order) > MaxExecutions

\* Mutant: overflow drops the oldest.
KeptNewest(items, n) == IF Len(items) < MaxItems THEN Append(items, n) ELSE Append(Tail(items), n)

\* Overflow drops what is new, so that a reader's offset keeps its meaning.
Kept(items, n) == IF Len(items) < MaxItems THEN Append(items, n) ELSE items

Publish(store, e, n) ==
    LET order == Touched(store.order, e)
        items == [store.items EXCEPT ![e] = Kept(@, n)]
    IN  IF Overfull(order)
        THEN [order |-> Tail(order), items |-> [items EXCEPT ![Head(order)] = << >>]]
        ELSE [order |-> order, items |-> items]

Dropped(store, next) == {e \in All : Contains(store.order, e) /\ ~Contains(next.order, e)}

\* ExecutionStoreEventPublisher.publish, under the engine's execution id.
PublishEvent(e) ==
    LET n == written[e].events + 1
        next == Publish(events, e, n)
    IN  /\ events' = next
        /\ written' = [written EXCEPT ![e].events = n]
        /\ evicted' = evicted \cup Dropped(events, next)

\* Eviction forgets the completion mark too.
PublishFragment(e) ==
    LET n == written[e].fragments + 1
        next == Publish(answers, e, n)
    IN  /\ answers' = next
        /\ complete' = complete \ Dropped(answers, next)
        /\ written' = [written EXCEPT ![e].fragments = n]
        /\ idle' = [x \in All |-> IF x = e THEN {} ELSE idle[x] \cup {e}]
        /\ evicted' = evicted \cup Dropped(answers, next)

\* What a redactor has newly released; an empty fragment is not published.
PublishDelta(e, before, after) ==
    IF after.emitted = before.emitted
    THEN UNCHANGED <<answers, complete, written, idle, evicted>>
    ELSE PublishFragment(e)

Traffic(o) == written[o].events + written[o].fragments

OtherEvent(o) ==
    /\ Traffic(o) < MaxOthers
    /\ PublishEvent(o)
    /\ UNCHANGED <<request, threads, answers, complete, idle, readers>>

OtherFragment(o) ==
    /\ Traffic(o) < MaxOthers
    /\ PublishFragment(o)
    /\ UNCHANGED <<request, threads, events, readers>>

-----------------------------------------------------------------------------
(***************************************************************************)
(* The request.                                                            *)
(***************************************************************************)
\* tracker.start_execution, then the pipeline.
Start(e) ==
    /\ at[e] = "unasked"
    /\ at' = [at EXCEPT ![e] = "workflow"]
    /\ traces' = traces \cup {e}
    /\ UNCHANGED <<status, stages, round, threads, stores, readers>>

ReportStage(e) ==
    /\ at[e] = "workflow" /\ stages[e] < MaxStages
    /\ stages' = [stages EXCEPT ![e] = @ + 1]
    /\ PublishEvent(e)
    /\ UNCHANGED <<at, status, traces, round, threads, answers, complete, idle, readers>>

\* synthesize_candidate hands the generation to a thread and awaits it.
StartRound(e) ==
    /\ at[e] = "workflow" /\ round[e] < MaxRounds
    /\ round' = [round EXCEPT ![e] = @ + 1]
    /\ at' = [at EXCEPT ![e] = "synthesizing"]
    /\ \E text \in Texts :
         threads' = [threads EXCEPT ![e][round[e] + 1] =
                        [at |-> "streaming", left |-> text, redactor |-> Fresh]]
    /\ UNCHANGED <<status, traces, stages, stores, readers>>

\* The stage has its answer, or its ceiling gives up waiting for it.
EndRound(e) ==
    /\ at[e] = "synthesizing"
    /\ at' = [at EXCEPT ![e] = "workflow"]
    /\ UNCHANGED <<status, traces, stages, round, threads, stores, readers>>

\* The engine reports "complete"; its finally marks the draft complete.
EndWorkflow(e) ==
    /\ at[e] = "workflow"
    /\ at' = [at EXCEPT ![e] = "answered"]
    /\ PublishEvent(e)
    /\ complete' = complete \cup {e}
    /\ UNCHANGED <<status, traces, stages, round, threads, answers, idle, readers>>

\* complete_execution and fail_execution: no effect on a trace that is gone.
Conclude(e, outcome) ==
    /\ at' = [at EXCEPT ![e] = "over"]
    /\ status' = IF e \in traces THEN [status EXCEPT ![e] = outcome] ELSE status

\* Metrics, self-RAG and the session's record come before complete_execution.
Answer(e) ==
    /\ at[e] = "answered"
    /\ Conclude(e, "completed")
    /\ UNCHANGED <<traces, stages, round, threads, stores, readers>>

\* except Exception, from the workflow or from what follows it.
Fail(e) ==
    /\ at[e] \in {"workflow", "synthesizing", "answered"}
    /\ Conclude(e, "failed")
    /\ complete' = complete \cup {e}
    /\ UNCHANGED <<traces, stages, round, threads, events, answers, written, idle, evicted, readers>>

\* A cancelled request is no Exception: its trace stays as it is.
Cancel(e) ==
    /\ at[e] \in {"workflow", "synthesizing", "answered"}
    /\ at' = [at EXCEPT ![e] = "over"]
    /\ complete' = complete \cup {e}
    /\ UNCHANGED <<status, traces, stages, round, threads, events, answers, written, idle, evicted, readers>>

\* cleanup_old_traces, once the trace is an hour old, whatever its status.
Cleanup(e) ==
    /\ e \in traces
    /\ traces' = traces \ {e}
    /\ UNCHANGED <<at, status, stages, round, threads, stores, readers>>

-----------------------------------------------------------------------------
(***************************************************************************)
(* The synthesizer's threads: _generate_streaming over _stream_content.    *)
(***************************************************************************)
Push(e, r) ==
    LET t == threads[e][r]
    IN  /\ t.at = "streaming"
        /\ \E n \in 1..Len(t.left) :
             LET after == PushText(t.redactor, Prefix(t.left, n))
             IN  /\ threads' = [threads EXCEPT ![e][r].left = SubSeq(@, n + 1, Len(@)),
                                               ![e][r].redactor = after]
                 /\ PublishDelta(e, t.redactor, after)
        /\ UNCHANGED <<request, events, readers>>

\* The model has ended, or failed and the answer comes from elsewhere.
Finish(e, r) ==
    LET t == threads[e][r]
        after == FinishText(t.redactor)
    IN  /\ t.at = "streaming"
        /\ threads' = [threads EXCEPT ![e][r].at = "done", ![e][r].redactor = after]
        /\ PublishDelta(e, t.redactor, after)
        /\ UNCHANGED <<request, events, readers>>

-----------------------------------------------------------------------------
(***************************************************************************)
(* The reader: one action up to each place where it yields to the client.  *)
(***************************************************************************)
Since(store, e, offset) == SubSeq(store.items[e], offset + 1, Len(store.items[e]))

Connect(e) ==
    /\ readers[e].at = "off" /\ e \in traces
    /\ readers' = [readers EXCEPT ![e].at = "events"]
    /\ UNCHANGED <<request, threads, stores>>

\* Mutant: the trace is looked up once, when the client connects.
ReadEventsOfAny(e) ==
    /\ readers[e].at = "events"
    /\ readers' = [readers EXCEPT ![e].at = "fragments",
                                  ![e].known = written[e].fragments,
                                  ![e].events = @ \o Since(events, e, Len(@))]
    /\ UNCHANGED <<request, threads, stores>>

ReadEvents(e) ==
    /\ readers[e].at = "events" /\ e \in traces
    /\ readers' = [readers EXCEPT ![e].at = "fragments",
                                  ![e].known = written[e].fragments,
                                  ![e].events = @ \o Since(events, e, Len(@))]
    /\ UNCHANGED <<request, threads, stores>>

\* The trace is gone from the tracker.
LoseTrace(e) ==
    /\ readers[e].at = "events" /\ e \notin traces
    /\ readers' = [readers EXCEPT ![e].at = "closed"]
    /\ UNCHANGED <<request, threads, stores>>

\* Mutant: a trace found terminal ends the stream before the fragments are read.
ReadFragmentsUnlessOver(e) ==
    /\ readers[e].at = "fragments"
    /\ readers' = [readers EXCEPT ![e].at = "status",
                                  ![e].fragments = IF status[e] \in Terminal THEN @ ELSE @ \o Since(answers, e, Len(@))]
    /\ UNCHANGED <<request, threads, stores>>

ReadFragments(e) ==
    /\ readers[e].at = "fragments"
    /\ readers' = [readers EXCEPT ![e].at = "status",
                                  ![e].fragments = @ \o Since(answers, e, Len(@))]
    /\ UNCHANGED <<request, threads, stores>>

\* The trace object is the tracker's own: its status is the one of now.
ReadStatus(e) ==
    /\ readers[e].at = "status"
    /\ readers' = [readers EXCEPT ![e].at = IF status[e] \in Terminal THEN "told" ELSE "events"]
    /\ UNCHANGED <<request, threads, stores>>

\* is_disconnected, or the response is cancelled at a yield.
Disconnect(e) ==
    /\ readers[e].at \in {"events", "fragments", "status"}
    /\ readers' = [readers EXCEPT ![e].at = "closed"]
    /\ UNCHANGED <<request, threads, stores>>

Over(e) ==
    /\ at[e] = "over" /\ e \notin traces
    /\ \A r \in Rounds : threads[e][r].at # "streaming"
    /\ readers[e].at \in {"off", "told", "closed"}

Ended == (\A e \in Executions : Over(e)) /\ UNCHANGED vars

ReaderStep(e) == LoseTrace(e) \/ ReadEvents(e) \/ ReadFragments(e) \/ ReadStatus(e)

Next ==
    \/ \E e \in Executions :
         \/ Start(e) \/ ReportStage(e) \/ StartRound(e) \/ EndRound(e)
         \/ EndWorkflow(e) \/ Answer(e) \/ Fail(e) \/ Cancel(e) \/ Cleanup(e)
         \/ \E r \in Rounds : Push(e, r) \/ Finish(e, r)
         \/ Connect(e) \/ ReaderStep(e) \/ Disconnect(e)
    \/ \E o \in Others : OtherEvent(o) \/ OtherFragment(o)
    \/ Ended

\* The reader is polled every 0.05 s; the sweep runs every five minutes.
Fairness ==
    \A e \in Executions : WF_vars(ReaderStep(e)) /\ WF_vars(Cleanup(e))

Spec == Init /\ [][Next]_vars /\ Fairness

-----------------------------------------------------------------------------
(***************************************************************************)
(* Properties.                                                             *)
(***************************************************************************)
Stores == [order : Seq(All), items : [All -> Seq(Nat \ {0})]]
Redactors == [raw : Seq(Characters), released : Nat, emitted : Seq(Characters \cup {Redacted})]

\* Types of requests, threads, stores and readers, and the bounds of the
\* stores: at most MaxExecutions lists of at most MaxItems publications.
TypeOK ==
    /\ at \in [Executions -> {"unasked", "workflow", "synthesizing", "answered", "over"}]
    /\ status \in [Executions -> {"running", "completed", "failed"}]
    /\ traces \subseteq Executions
    /\ stages \in [Executions -> 0..MaxStages]
    /\ \A e \in Executions :
         /\ round[e] \in 0..MaxRounds
         /\ threads[e] \in [Rounds -> [at : {"none", "streaming", "done"},
                                           left : Seq(Characters), redactor : Redactors]]
    /\ events \in Stores /\ answers \in Stores
    /\ \A store \in {events, answers} :
         /\ Len(store.order) <= MaxExecutions
         /\ \A e \in All : Len(store.items[e]) <= MaxItems
    /\ complete \subseteq Executions
    /\ readers \in [Executions -> [at : {"off", "events", "fragments", "status", "told", "closed"},
                                 events : Seq(Nat \ {0}), fragments : Seq(Nat \ {0}), known : Nat]]
    /\ written \in [All -> [events : Nat, fragments : Nat]]
    /\ idle \in [All -> SUBSET All]
    /\ evicted \subseteq All

Consecutive(s) == \A i \in DOMAIN s : s[i] = i

\* A reader is shown the events and the fragments of its execution from the
\* first on, without a gap, a repetition or a change of order, although it
\* addresses them by offset while threads append and overflow drops; an
\* execution that the stores evicted while it ran is the exception.
NoGaps ==
    \A e \in Executions \ evicted : Consecutive(readers[e].events) /\ Consecutive(readers[e].fragments)

\* A stream that ends with the terminal event has shown every fragment the
\* store held when its last pass began: the status is read after the slices.
LastPassShowsAll ==
    \A e \in Executions \ evicted :
        readers[e].at = "told" =>
            \A n \in 1..MaxItems : n <= readers[e].known => Contains(readers[e].fragments, n)

\* What the margin asks of the texts: where white space is followed by a margin
\* of text a word begins in it.  Only _PHONE_RE matches digits and white space
\* without a bound; a longer run of them is what the margin does not cover.
WordedTexts == \A text \in Texts : Worded(text)

\* However the model's text is cut into chunks, redacting all that it has
\* written so far never changes what was shown of it, and when the round has
\* ended what was shown is the redaction of the whole, if the texts are worded.
DraftSettles ==
    \A e \in Executions, r \in Rounds :
        LET t == threads[e][r]
            redacted == RedactFinal(t.redactor.raw)
        IN  /\ IsPrefix(t.redactor.emitted, redacted)
            /\ t.at = "done" => t.redactor.emitted = redacted

\* A draft is dropped only when MaxExecutions other executions have written
\* since its own last fragment: a running request's draft does not go to make
\* room for one that is silent.
EvictsTheStalest ==
    [][\A e \in Dropped(answers, answers') : Cardinality(idle'[e]) >= MaxExecutions]_vars

\* A stream that has begun ends: the trace becomes terminal, or it is swept
\* after its hour although the request that owned it was cancelled.
StreamEnds ==
    \A e \in Executions : readers[e].at # "off" ~> readers[e].at \in {"told", "closed"}

=============================================================================
