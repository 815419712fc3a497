-------------------------- MODULE QueryGuardMemory --------------------------
(***************************************************************************)
(* QueryLoadGuard._acquire_memory (app/services/query/guard.py): the       *)
(* in-process admission guard.  Each request is a thread; every step below *)
(* is one critical section of the code - the limiter's lock, the           *)
(* semaphore, the state lock - so threads interleave between them.         *)
(*                                                                         *)
(* A cancelled acquire_async leaves its thread to finish the acquisition   *)
(* and then leaves the guard at once: Finish may be the very next step.    *)
(***************************************************************************)
EXTENDS Integers, FiniteSets

CONSTANTS
    Requests, Users, UserOf,
    MaxConcurrent, MaxWaiting, MaxPerUser

ASSUME RequestsAssumption == IsFiniteSet(Requests) /\ UserOf \in [Requests -> Users]

\* The constructor's max(1, .), max(0, .) and max(1, .).
ASSUME LimitsAssumption ==
    /\ MaxConcurrent \in Nat \ {0}
    /\ MaxWaiting \in Nat
    /\ MaxPerUser \in Nat \ {0}

VARIABLES
    pc,        \* where the request's thread is
    permits,   \* _semaphore's value
    waiting,   \* _waiting
    inflight,  \* _inflight
    queued,    \* requests whose local "queued" is true
    recorded,  \* attempts in each user's window (_user_limiter)
    outcome    \* what the caller was told

memoryVars == <<pc, permits, waiting, inflight, queued, recorded>>
vars == <<memoryVars, outcome>>

Refusals == {"rate limited", "queue full", "queue timeout"}

Goto(r, where) == pc' = [pc EXCEPT ![r] = where]

Tell(r, what) == outcome' = [outcome EXCEPT ![r] = what]

At(places) == {r \in Requests : pc[r] \in places}

\* The threads that have taken a permit and not yet given it back.
Holders == At({"entering", "running", "leaving", "returning"})

InitialGuard(where) ==
    /\ pc = [r \in Requests |-> where]
    /\ permits = MaxConcurrent
    /\ waiting = 0
    /\ inflight = 0
    /\ queued = {}
    /\ recorded = [u \in Users |-> 0]
    /\ outcome = [r \in Requests |-> "none"]

Init == InitialGuard("arriving")

-----------------------------------------------------------------------------
\* is_limited and record take the limiter's lock one after the other.
CheckRate(r) ==
    /\ pc[r] = "arriving"
    /\ IF recorded[UserOf[r]] >= MaxPerUser
         THEN Goto(r, "gone") /\ Tell(r, "rate limited")
         ELSE Goto(r, "recording") /\ UNCHANGED outcome
    /\ UNCHANGED <<permits, waiting, inflight, queued, recorded>>

Record(r) ==
    /\ pc[r] = "recording"
    /\ recorded' = [recorded EXCEPT ![UserOf[r]] = @ + 1]
    /\ Goto(r, "trying")
    /\ UNCHANGED <<permits, waiting, inflight, queued, outcome>>

TakePermit(r) ==
    /\ permits > 0
    /\ permits' = permits - 1
    /\ Goto(r, "entering")
    /\ UNCHANGED <<waiting, inflight, queued, recorded, outcome>>

\* acquire(blocking=False): a newcomer may overtake the threads that wait.
TryPermit(r) ==
    /\ pc[r] = "trying"
    /\ \/ TakePermit(r)
       \/ permits = 0 /\ Goto(r, "joining")
          /\ UNCHANGED <<permits, waiting, inflight, queued, recorded, outcome>>

\* Mutant: the bound on the queue is off by one.
JoinQueueOneMore(r) ==
    /\ pc[r] = "joining"
    /\ IF waiting > MaxWaiting
         THEN Goto(r, "gone") /\ Tell(r, "queue full") /\ UNCHANGED <<waiting, queued>>
         ELSE /\ Goto(r, "blocking")
              /\ waiting' = waiting + 1
              /\ queued' = queued \cup {r}
              /\ UNCHANGED outcome
    /\ UNCHANGED <<permits, inflight, recorded>>

JoinQueue(r) ==
    /\ pc[r] = "joining"
    /\ IF waiting >= MaxWaiting
         THEN Goto(r, "gone") /\ Tell(r, "queue full") /\ UNCHANGED <<waiting, queued>>
         ELSE /\ Goto(r, "blocking")
              /\ waiting' = waiting + 1
              /\ queued' = queued \cup {r}
              /\ UNCHANGED outcome
    /\ UNCHANGED <<permits, inflight, recorded>>

GetPermit(r) == pc[r] = "blocking" /\ TakePermit(r)

\* acquire(timeout=...) gives up, with or without a permit just come free.
WaitExpires(r) ==
    /\ pc[r] = "blocking"
    /\ Goto(r, "unqueueing")
    /\ Tell(r, "queue timeout")
    /\ UNCHANGED <<permits, waiting, inflight, queued, recorded>>

\* Mutant: a request that queued is not taken off the queue when it enters.
EnterStillQueued(r) ==
    /\ pc[r] = "entering"
    /\ inflight' = inflight + 1
    /\ Goto(r, "running")
    /\ Tell(r, "admitted")
    /\ UNCHANGED <<permits, waiting, queued, recorded>>

Enter(r) ==
    /\ pc[r] = "entering"
    /\ waiting' = IF r \in queued THEN waiting - 1 ELSE waiting
    /\ queued' = queued \ {r}
    /\ inflight' = inflight + 1
    /\ Goto(r, "running")
    /\ Tell(r, "admitted")
    /\ UNCHANGED <<permits, recorded>>

\* The body of the with statement returns, raises, or is abandoned.
Finish(r) ==
    /\ pc[r] = "running"
    /\ Goto(r, "leaving")
    /\ UNCHANGED <<permits, waiting, inflight, queued, recorded, outcome>>

Leave(r) ==
    /\ pc[r] = "leaving"
    /\ inflight' = IF inflight > 0 THEN inflight - 1 ELSE 0
    /\ Goto(r, "returning")
    /\ UNCHANGED <<permits, waiting, queued, recorded, outcome>>

ReturnPermit(r) ==
    /\ pc[r] = "returning"
    /\ permits' = permits + 1
    /\ Goto(r, "gone")
    /\ UNCHANGED <<waiting, inflight, queued, recorded, outcome>>

\* Mutant: a thread that timed out gives back a permit it never took.
GiveUpPlaceAndPermit(r) ==
    /\ pc[r] = "unqueueing"
    /\ waiting' = IF waiting > 0 THEN waiting - 1 ELSE 0
    /\ queued' = queued \ {r}
    /\ permits' = permits + 1
    /\ Goto(r, "gone")
    /\ UNCHANGED <<inflight, recorded, outcome>>

GiveUpPlace(r) ==
    /\ pc[r] = "unqueueing"
    /\ waiting' = IF waiting > 0 THEN waiting - 1 ELSE 0
    /\ queued' = queued \ {r}
    /\ Goto(r, "gone")
    /\ UNCHANGED <<permits, inflight, recorded, outcome>>

\* _trim: the oldest attempt slides out of the window.
WindowSlides(u) ==
    /\ recorded[u] > 0
    /\ recorded' = [recorded EXCEPT ![u] = @ - 1]
    /\ UNCHANGED <<pc, permits, waiting, inflight, queued, outcome>>

Step(r) ==
    \/ CheckRate(r) \/ Record(r) \/ TryPermit(r) \/ JoinQueue(r)
    \/ GetPermit(r) \/ WaitExpires(r) \/ Enter(r) \/ Finish(r)
    \/ Leave(r) \/ ReturnPermit(r) \/ GiveUpPlace(r)

\* Every thread has left: the guard is idle.
Ended == (\A r \in Requests : pc[r] = "gone") /\ UNCHANGED vars

Next == (\E r \in Requests : Step(r)) \/ (\E u \in Users : WindowSlides(u)) \/ Ended

\* A runnable thread runs, a body ends and a timed wait times out.
Spec == Init /\ [][Next]_vars /\ \A r \in Requests : WF_vars(Step(r))

-----------------------------------------------------------------------------
Places == {"outside", "arriving", "recording", "trying", "joining", "blocking", "unqueueing",
           "entering", "running", "leaving", "returning", "gone"}

TypeOK ==
    /\ pc \in [Requests -> Places]
    /\ permits \in Int
    /\ waiting \in Nat
    /\ inflight \in Nat
    /\ queued \subseteq Requests
    /\ recorded \in [Users -> Nat]
    /\ outcome \in [Requests -> Refusals \cup {"none", "admitted"}]

\* The semaphore loses no permit and gains none on any path out of the
\* guard - a BoundedSemaphore would raise on the release of a permit it
\* never gave - and so at most MaxConcurrent bodies run.
PermitsConserved == permits >= 0 /\ permits + Cardinality(Holders) = MaxConcurrent

\* The two counters stats() reports, and that the queue bound is read from,
\* agree with what the threads are doing at every step between their locks:
\* the max(0, .) clamps never have anything to hide.
CountersTrue ==
    /\ inflight = Cardinality(At({"running", "leaving"}))
    /\ queued = At({"blocking", "unqueueing"}) \cup (queued \cap At({"entering"}))
    /\ waiting = Cardinality(queued)

\* A request the guard turned away never ran, one it admitted did.
Phase(r) ==
    IF pc[r] \in {"outside", "arriving", "recording", "trying", "joining"} THEN "arriving"
    ELSE IF pc[r] = "blocking" THEN "queued"
    ELSE IF r \in Holders THEN "running"
    ELSE IF outcome[r] = "admitted" THEN "served" ELSE "refused"

Abstract == INSTANCE AdmissionControl WITH
    MaxRunning <- MaxConcurrent, MaxQueued <- MaxWaiting,
    status <- [r \in Requests |-> Phase(r)]

\* The guard implements the abstract promise: bounded running, bounded
\* waiting, no request both refused and run, every request decided.
KeepsPromise == Abstract!Spec

=============================================================================
