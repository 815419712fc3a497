-------------------------- MODULE QueryGuardProofs --------------------------
(***************************************************************************)
(* The admission guard, in memory first and then on Redis.                 *)
(*                                                                         *)
(* In memory, for any number of threads, users, slots and places: no path  *)
(* through it loses or invents a permit, the counters it reports and       *)
(* decides on are true at every step between its locks, and so it runs at  *)
(* most MaxConcurrent bodies and queues at most MaxWaiting.                *)
(***************************************************************************)
EXTENDS QueryGuardRedis, FiniteSetTheorems, TLAPS

USE RequestsAssumption, LimitsAssumption

\* The threads a program-counter function f puts in a set of places.
AtOf(f, places) == {r \in Requests : f[r] \in places}

One(b) == IF b THEN 1 ELSE 0

\* Moving one thread changes the number of threads in some places by one
\* for its arrival there, less one for its departure from there.
LEMMA MoveCard ==
    ASSUME NEW f, f \in [Requests -> Places], NEW places, NEW r \in Requests, NEW w
    PROVE  /\ Cardinality(AtOf(f, places)) \in Nat
           /\ Cardinality(AtOf([f EXCEPT ![r] = w], places))
                = Cardinality(AtOf(f, places)) + One(w \in places) - One(f[r] \in places)
<1> DEFINE g == [f EXCEPT ![r] = w]
           S == AtOf(f, places)
           T == AtOf(g, places)
<1>1. IsFiniteSet(S) /\ S \subseteq Requests
  <2>1. S \subseteq Requests BY DEF AtOf
  <2>2. QED BY <2>1, FS_Subset
<1>2. Cardinality(S) \in Nat BY <1>1, FS_CardinalityType
<1>3. \A q \in Requests : g[q] = IF q = r THEN w ELSE f[q] OBVIOUS
<1>4. CASE w \in places /\ f[r] \notin places
  <2>1. T = S \cup {r} /\ r \notin S BY <1>3, <1>4 DEF AtOf
  <2>2. Cardinality(T) = Cardinality(S) + 1 BY <2>1, <1>1, FS_AddElement
  <2>3. One(w \in places) = 1 /\ One(f[r] \in places) = 0 BY <1>4 DEF One
  <2>4. QED BY <2>2, <2>3, <1>2
<1>5. CASE w \notin places /\ f[r] \in places
  <2>1. T = S \ {r} /\ r \in S BY <1>3, <1>5 DEF AtOf
  <2>2. Cardinality(T) = Cardinality(S) - 1 BY <2>1, <1>1, FS_RemoveElement
  <2>3. One(w \in places) = 0 /\ One(f[r] \in places) = 1 BY <1>5 DEF One
  <2>4. QED BY <2>2, <2>3, <1>2
<1>6. CASE (w \in places) = (f[r] \in places)
  <2>1. T = S BY <1>3, <1>6 DEF AtOf
  <2>2. One(w \in places) = One(f[r] \in places) /\ One(w \in places) \in Int BY <1>6 DEF One
  <2>3. QED BY <2>1, <2>2, <1>2
<1>7. QED BY <1>4, <1>5, <1>6

\* The same, for the program counter and one step of the guard.
LEMMA Moves ==
    ASSUME TypeOK, NEW places, NEW r \in Requests, NEW w, Goto(r, w)
    PROVE  /\ Cardinality(At(places)) \in Nat
           /\ Cardinality(At(places)')
                = Cardinality(At(places)) + One(w \in places) - One(pc[r] \in places)
<1>1. pc \in [Requests -> Places] /\ pc' = [pc EXCEPT ![r] = w] BY DEF TypeOK, Goto
<1>2. At(places) = AtOf(pc, places) /\ At(places)' = AtOf([pc EXCEPT ![r] = w], places)
  BY <1>1 DEF At, AtOf
<1>3. QED BY <1>1, <1>2, MoveCard

LEMMA QueuedCard ==
    ASSUME TypeOK, NEW r \in Requests
    PROVE  /\ IsFiniteSet(queued)
           /\ Cardinality(queued) \in Nat
           /\ r \in queued => /\ Cardinality(queued \ {r}) = Cardinality(queued) - 1
                              /\ Cardinality(queued) > 0
           /\ r \notin queued => /\ Cardinality(queued \cup {r}) = Cardinality(queued) + 1
                                 /\ queued \ {r} = queued
<1>1. IsFiniteSet(queued) BY FS_Subset DEF TypeOK
<1>2. Cardinality(queued) \in Nat BY <1>1, FS_CardinalityType
<1>3. ASSUME r \in queued
      PROVE Cardinality(queued \ {r}) = Cardinality(queued) - 1 /\ Cardinality(queued) > 0
  <2>1. Cardinality(queued \ {r}) = Cardinality(queued) - 1 BY <1>1, <1>3, FS_RemoveElement
  <2>2. Cardinality(queued) # 0 BY <1>1, <1>3, FS_EmptySet
  <2>3. QED BY <1>2, <2>1, <2>2
<1>4. r \notin queued => Cardinality(queued \cup {r}) = Cardinality(queued) + 1
  BY <1>1, FS_AddElement
<1>5. QED BY <1>1, <1>2, <1>3, <1>4

-----------------------------------------------------------------------------
LEMMA TypeStep == TypeOK /\ CountersTrue /\ [Next]_vars => TypeOK'
<1> SUFFICES ASSUME TypeOK, CountersTrue, [Next]_vars PROVE TypeOK' OBVIOUS
<1>1. CASE UNCHANGED vars BY <1>1 DEF vars, memoryVars, TypeOK
<1>2. ASSUME NEW u \in Users, WindowSlides(u) PROVE TypeOK'
  BY <1>2 DEF WindowSlides, TypeOK
<1>3. ASSUME NEW r \in Requests, Step(r) PROVE TypeOK'
  <2>0. UserOf[r] \in Users OBVIOUS
  <2>1. CASE CheckRate(r) BY <2>1 DEF CheckRate, Goto, Tell, TypeOK, Places, Refusals
  <2>2. CASE Record(r) BY <2>0, <2>2 DEF Record, Goto, TypeOK, Places
  <2>3. CASE TryPermit(r) BY <2>3 DEF TryPermit, TakePermit, Goto, TypeOK, Places
  <2>4. CASE JoinQueue(r)
    <3>1. CASE waiting >= MaxWaiting
      BY <2>4, <3>1 DEF JoinQueue, Goto, Tell, TypeOK, Places, Refusals
    <3>2. CASE ~(waiting >= MaxWaiting)
      BY <2>4, <3>2 DEF JoinQueue, Goto, TypeOK, Places
    <3>3. QED BY <3>1, <3>2
  <2>5. CASE GetPermit(r) BY <2>5 DEF GetPermit, TakePermit, Goto, TypeOK, Places
  <2>6. CASE WaitExpires(r) BY <2>6 DEF WaitExpires, Goto, Tell, TypeOK, Places, Refusals
  <2>7. CASE Enter(r)
    <3>1. r \in queued => waiting > 0 BY QueuedCard DEF CountersTrue
    <3>2. waiting' \in Nat BY <2>7, <3>1 DEF Enter, TypeOK
    <3>3. pc' \in [Requests -> Places] /\ outcome' \in [Requests -> Refusals \cup {"none", "admitted"}]
      BY <2>7 DEF Enter, Goto, Tell, TypeOK, Places
    <3>4. queued' \subseteq Requests /\ inflight' \in Nat /\ UNCHANGED <<permits, recorded>>
      BY <2>7 DEF Enter, TypeOK
    <3>5. QED BY <3>2, <3>3, <3>4 DEF TypeOK
  <2>8. CASE Finish(r) BY <2>8 DEF Finish, Goto, TypeOK, Places
  <2>9. CASE Leave(r) BY <2>9 DEF Leave, Goto, TypeOK, Places
  <2>10. CASE ReturnPermit(r) BY <2>10 DEF ReturnPermit, Goto, TypeOK, Places
  <2>11. CASE GiveUpPlace(r) BY <2>11 DEF GiveUpPlace, Goto, TypeOK, Places
  <2>12. QED
    BY <1>3, <2>1, <2>2, <2>3, <2>4, <2>5, <2>6, <2>7, <2>8, <2>9, <2>10, <2>11 DEF Step
<1>4. QED BY <1>1, <1>2, <1>3 DEF Next, Ended

HolderPlaces == {"entering", "running", "leaving", "returning"}

InflightPlaces == {"running", "leaving"}

\* A step that moves no thread disturbs neither the permits nor the counters.
LEMMA StillThreads ==
    ASSUME PermitsConserved, CountersTrue, UNCHANGED <<pc, permits, waiting, inflight, queued>>
    PROVE  PermitsConserved' /\ CountersTrue'
BY DEF PermitsConserved, CountersTrue, Holders, At

LEMMA PermitsStep ==
    ASSUME TypeOK, PermitsConserved, NEW r \in Requests, Step(r)
    PROVE  PermitsConserved'
<1>1. ASSUME NEW w, Goto(r, w)
      PROVE  Cardinality(Holders') = Cardinality(Holders) + One(w \in HolderPlaces) - One(pc[r] \in HolderPlaces)
  BY <1>1, Moves DEF Holders, HolderPlaces
<1>2. Cardinality(Holders) \in Nat /\ permits \in Int /\ permits >= 0
      /\ permits + Cardinality(Holders) = MaxConcurrent
  <2>1. IsFiniteSet(Holders) BY FS_Subset DEF Holders, At
  <2>2. QED BY <2>1, FS_CardinalityType DEF PermitsConserved, TypeOK
\* The threads that neither take a permit nor give one back.
<1>3. ASSUME NEW w, Goto(r, w), UNCHANGED permits, (w \in HolderPlaces) = (pc[r] \in HolderPlaces)
      PROVE  PermitsConserved'
  <2>1. Cardinality(Holders') = Cardinality(Holders) BY <1>1, <1>2, <1>3 DEF One
  <2>2. QED BY <1>2, <1>3, <2>1 DEF PermitsConserved
<1>4. ASSUME TakePermit(r), pc[r] \notin HolderPlaces PROVE PermitsConserved'
  <2>1. Goto(r, "entering") BY <1>4 DEF TakePermit
  <2>2. Cardinality(Holders') = Cardinality(Holders) + 1
    BY <1>1, <1>2, <1>4, <2>1 DEF One, HolderPlaces
  <2>3. permits > 0 /\ permits' = permits - 1 BY <1>4 DEF TakePermit
  <2>4. QED BY <1>2, <2>2, <2>3 DEF PermitsConserved
<1>5. CASE CheckRate(r)
  <2>1. PICK w \in {"gone", "recording"} : Goto(r, w) BY <1>5 DEF CheckRate
  <2>2. UNCHANGED permits /\ pc[r] \notin HolderPlaces BY <1>5 DEF CheckRate, HolderPlaces
  <2>3. QED BY <1>3, <2>1, <2>2 DEF HolderPlaces
<1>6. CASE Record(r) BY <1>3, <1>6 DEF Record, HolderPlaces
<1>7. CASE TryPermit(r) BY <1>3, <1>4, <1>7 DEF TryPermit, HolderPlaces
<1>8. CASE JoinQueue(r)
  <2>1. PICK w \in {"gone", "blocking"} : Goto(r, w) BY <1>8 DEF JoinQueue
  <2>2. UNCHANGED permits /\ pc[r] \notin HolderPlaces BY <1>8 DEF JoinQueue, HolderPlaces
  <2>3. QED BY <1>3, <2>1, <2>2 DEF HolderPlaces
<1>9. CASE GetPermit(r) BY <1>4, <1>9 DEF GetPermit, HolderPlaces
<1>10. CASE WaitExpires(r)
  <2>1. Goto(r, "unqueueing") /\ UNCHANGED permits /\ pc[r] = "blocking" BY <1>10 DEF WaitExpires
  <2>2. QED BY <1>3, <2>1 DEF HolderPlaces
<1>11. CASE Enter(r) BY <1>3, <1>11 DEF Enter, HolderPlaces
<1>12. CASE Finish(r) BY <1>3, <1>12 DEF Finish, HolderPlaces
<1>13. CASE Leave(r) BY <1>3, <1>13 DEF Leave, HolderPlaces
<1>14. CASE ReturnPermit(r)
  <2>1. Cardinality(Holders') = Cardinality(Holders) - 1
    <3>1. Goto(r, "gone") /\ pc[r] = "returning" BY <1>14 DEF ReturnPermit
    <3>2. QED BY <1>1, <1>2, <3>1 DEF One, HolderPlaces
  <2>2. permits' = permits + 1 BY <1>14 DEF ReturnPermit
  <2>3. QED BY <1>2, <2>1, <2>2 DEF PermitsConserved
<1>15. CASE GiveUpPlace(r) BY <1>3, <1>15 DEF GiveUpPlace, HolderPlaces
<1>16. QED
  BY <1>5, <1>6, <1>7, <1>8, <1>9, <1>10, <1>11, <1>12, <1>13, <1>14, <1>15 DEF Step

\* The queue holds exactly the waiting threads, and those that have just got
\* their permit and not yet taken themselves off it.
LEMMA QueuedStep ==
    ASSUME TypeOK, CountersTrue, NEW r \in Requests, Step(r)
    PROVE  /\ queued' = At({"blocking", "unqueueing"})' \cup (queued' \cap At({"entering"})')
           /\ waiting' = Cardinality(queued')
<1>1. \A q \in Requests : /\ pc[q] \in {"blocking", "unqueueing"} => q \in queued
                          /\ q \in queued => pc[q] \in {"blocking", "unqueueing", "entering"}
  BY DEF CountersTrue, At
<1>2. queued \subseteq Requests /\ pc \in [Requests -> Places] BY DEF TypeOK
<1>3. waiting = Cardinality(queued) BY DEF CountersTrue
\* It is enough that each thread is in the queue as its place says.
<1>4. ASSUME queued' \subseteq Requests,
             \A q \in Requests : pc'[q] \in {"blocking", "unqueueing"} => q \in queued',
             \A q \in Requests : q \in queued' => pc'[q] \in {"blocking", "unqueueing", "entering"}
      PROVE  queued' = At({"blocking", "unqueueing"})' \cup (queued' \cap At({"entering"})')
  <2> DEFINE B == {q \in Requests : pc'[q] \in {"blocking", "unqueueing"}}
             E == {q \in Requests : pc'[q] \in {"entering"}}
  <2>1. At({"blocking", "unqueueing"})' = B /\ At({"entering"})' = E BY DEF At
  <2>2. ASSUME NEW q \in Requests PROVE q \in queued' <=> q \in B \cup (queued' \cap E)
    <3>1. q \in B => q \in queued' BY <1>4
    <3>2. q \in queued' => q \in B \/ q \in E BY <1>4
    <3>3. QED BY <3>1, <3>2
  <2>3. queued' = B \cup (queued' \cap E) BY <1>4, <2>2
  <2>4. QED BY <2>1, <2>3
<1>5. ASSUME NEW w, Goto(r, w), UNCHANGED <<waiting, queued>>,
             w \in {"blocking", "unqueueing"} => r \in queued,
             r \in queued => w \in {"blocking", "unqueueing", "entering"}
      PROVE  /\ queued' = At({"blocking", "unqueueing"})' \cup (queued' \cap At({"entering"})')
             /\ waiting' = Cardinality(queued')
  <2>1. \A q \in Requests : pc'[q] = IF q = r THEN w ELSE pc[q] BY <1>2, <1>5 DEF Goto
  <2>2. QED BY <1>1, <1>2, <1>3, <1>4, <1>5, <2>1
\* Entering and giving up take the thread off the queue.
<1>6. ASSUME NEW w, Goto(r, w), w \notin {"blocking", "unqueueing"}, queued' = queued \ {r},
             waiting' = IF r \in queued THEN waiting - 1 ELSE waiting
      PROVE  /\ queued' = At({"blocking", "unqueueing"})' \cup (queued' \cap At({"entering"})')
             /\ waiting' = Cardinality(queued')
  <2>1. \A q \in Requests : pc'[q] = IF q = r THEN w ELSE pc[q] BY <1>2, <1>6 DEF Goto
  <2>2. waiting' = Cardinality(queued') BY <1>3, <1>6, QueuedCard
  <2>3. QED BY <1>1, <1>2, <1>4, <1>6, <2>1, <2>2
<1>7. CASE CheckRate(r)
  <2>1. PICK w \in {"gone", "recording"} : Goto(r, w) BY <1>7 DEF CheckRate
  <2>2. UNCHANGED <<waiting, queued>> /\ r \notin queued BY <1>1, <1>7 DEF CheckRate
  <2>3. QED BY <1>5, <2>1, <2>2
<1>8. CASE Record(r) BY <1>1, <1>5, <1>8 DEF Record
<1>9. CASE TryPermit(r)
  <2>1. PICK w \in {"entering", "joining"} : Goto(r, w) BY <1>9 DEF TryPermit, TakePermit
  <2>2. UNCHANGED <<waiting, queued>> /\ r \notin queued BY <1>1, <1>9 DEF TryPermit, TakePermit
  <2>3. QED BY <1>5, <2>1, <2>2
<1>10. CASE JoinQueue(r)
  <2>1. r \notin queued BY <1>1, <1>10 DEF JoinQueue
  <2>2. CASE waiting >= MaxWaiting BY <1>5, <1>10, <2>1, <2>2 DEF JoinQueue
  <2>3. CASE ~(waiting >= MaxWaiting)
    <3>1. Goto(r, "blocking") /\ waiting' = waiting + 1 /\ queued' = queued \cup {r}
      BY <1>10, <2>3 DEF JoinQueue
    <3>2. \A q \in Requests : pc'[q] = IF q = r THEN "blocking" ELSE pc[q] BY <1>2, <3>1 DEF Goto
    <3>3. waiting' = Cardinality(queued') BY <1>3, <2>1, <3>1, QueuedCard
    <3>4. QED BY <1>1, <1>2, <1>4, <3>1, <3>2, <3>3
  <2>4. QED BY <2>2, <2>3
<1>11. CASE GetPermit(r) BY <1>1, <1>5, <1>11 DEF GetPermit, TakePermit
<1>12. CASE WaitExpires(r) BY <1>1, <1>5, <1>12 DEF WaitExpires
<1>13. CASE Enter(r) BY <1>6, <1>13 DEF Enter
<1>14. CASE Finish(r) BY <1>1, <1>5, <1>14 DEF Finish
<1>15. CASE Leave(r) BY <1>1, <1>5, <1>15 DEF Leave
<1>16. CASE ReturnPermit(r) BY <1>1, <1>5, <1>16 DEF ReturnPermit
<1>17. CASE GiveUpPlace(r)
  <2>1. r \in queued /\ waiting > 0 BY <1>1, <1>3, <1>17, QueuedCard DEF GiveUpPlace
  <2>2. QED BY <1>6, <1>17, <2>1 DEF GiveUpPlace
<1>18. QED
  BY <1>7, <1>8, <1>9, <1>10, <1>11, <1>12, <1>13, <1>14, <1>15, <1>16, <1>17 DEF Step

\* A thread counts as in flight from the moment it is admitted until it
\* starts to leave.
LEMMA InflightStep ==
    ASSUME TypeOK, CountersTrue, NEW r \in Requests, Step(r)
    PROVE  inflight' = Cardinality(At(InflightPlaces)')
<1>1. ASSUME NEW w, Goto(r, w)
      PROVE  Cardinality(At(InflightPlaces)')
               = Cardinality(At(InflightPlaces)) + One(w \in InflightPlaces) - One(pc[r] \in InflightPlaces)
  BY <1>1, Moves
<1>2. inflight = Cardinality(At(InflightPlaces)) /\ inflight \in Nat
  BY DEF CountersTrue, InflightPlaces, TypeOK
<1>3. ASSUME NEW w, Goto(r, w), UNCHANGED inflight, (w \in InflightPlaces) = (pc[r] \in InflightPlaces)
      PROVE  inflight' = Cardinality(At(InflightPlaces)')
  BY <1>1, <1>2, <1>3 DEF One
<1>4. CASE CheckRate(r)
  <2>1. PICK w \in {"gone", "recording"} : Goto(r, w) BY <1>4 DEF CheckRate
  <2>2. UNCHANGED inflight /\ pc[r] \notin InflightPlaces BY <1>4 DEF CheckRate, InflightPlaces
  <2>3. QED BY <1>3, <2>1, <2>2 DEF InflightPlaces
<1>5. CASE Record(r) BY <1>3, <1>5 DEF Record, InflightPlaces
<1>6. CASE TryPermit(r)
  <2>1. PICK w \in {"entering", "joining"} : Goto(r, w) BY <1>6 DEF TryPermit, TakePermit
  <2>2. UNCHANGED inflight /\ pc[r] \notin InflightPlaces
    BY <1>6 DEF TryPermit, TakePermit, InflightPlaces
  <2>3. QED BY <1>3, <2>1, <2>2 DEF InflightPlaces
<1>7. CASE JoinQueue(r)
  <2>1. PICK w \in {"gone", "blocking"} : Goto(r, w) BY <1>7 DEF JoinQueue
  <2>2. UNCHANGED inflight /\ pc[r] \notin InflightPlaces BY <1>7 DEF JoinQueue, InflightPlaces
  <2>3. QED BY <1>3, <2>1, <2>2 DEF InflightPlaces
<1>8. CASE GetPermit(r) BY <1>3, <1>8 DEF GetPermit, TakePermit, InflightPlaces
<1>9. CASE WaitExpires(r)
  <2>1. Goto(r, "unqueueing") /\ UNCHANGED inflight /\ pc[r] = "blocking" BY <1>9 DEF WaitExpires
  <2>2. QED BY <1>3, <2>1 DEF InflightPlaces
<1>10. CASE Enter(r)
  <2>1. Goto(r, "running") /\ pc[r] = "entering" /\ inflight' = inflight + 1 BY <1>10 DEF Enter
  <2>2. QED BY <1>1, <1>2, <2>1 DEF One, InflightPlaces
<1>11. CASE Finish(r) BY <1>3, <1>11 DEF Finish, InflightPlaces
<1>12. CASE Leave(r)
  <2>1. Goto(r, "returning") /\ pc[r] = "leaving" BY <1>12 DEF Leave
  <2>2. Cardinality(At(InflightPlaces)') = inflight - 1 BY <1>1, <1>2, <2>1 DEF One, InflightPlaces
  <2>3. inflight > 0
    <3>1. r \in At(InflightPlaces) BY <2>1 DEF At, InflightPlaces
    <3>2. IsFiniteSet(At(InflightPlaces)) BY FS_Subset DEF At
    <3>3. QED BY <1>2, <3>1, <3>2, FS_EmptySet
  <2>4. QED BY <1>12, <2>2, <2>3 DEF Leave
<1>13. CASE ReturnPermit(r) BY <1>3, <1>13 DEF ReturnPermit, InflightPlaces
<1>14. CASE GiveUpPlace(r) BY <1>3, <1>14 DEF GiveUpPlace, InflightPlaces
<1>15. QED
  BY <1>4, <1>5, <1>6, <1>7, <1>8, <1>9, <1>10, <1>11, <1>12, <1>13, <1>14 DEF Step

LEMMA GuardInit == Init => TypeOK /\ PermitsConserved /\ CountersTrue
<1> SUFFICES ASSUME Init PROVE TypeOK /\ PermitsConserved /\ CountersTrue OBVIOUS
<1>1. TypeOK BY DEF Init, InitialGuard, TypeOK, Places, Refusals
<1>2. At(HolderPlaces) = {} /\ At(InflightPlaces) = {} /\ At({"blocking", "unqueueing"}) = {}
  BY DEF Init, InitialGuard, At, HolderPlaces, InflightPlaces
<1>3. Cardinality({}) = 0 BY FS_EmptySet
<1>4. PermitsConserved
  <2>1. Cardinality(Holders) = 0 BY <1>2, <1>3 DEF Holders, HolderPlaces
  <2>2. permits = MaxConcurrent BY DEF Init, InitialGuard
  <2>3. QED BY <2>1, <2>2 DEF PermitsConserved
<1>5. CountersTrue
  BY <1>2, <1>3 DEF CountersTrue, InflightPlaces, Init, InitialGuard
<1>6. QED BY <1>1, <1>4, <1>5

\* The invariant is inductive: the counters being true is what keeps
\* _waiting from going below zero, the types are what counts the threads.
LEMMA GuardInvariant == Spec => [](TypeOK /\ PermitsConserved /\ CountersTrue)
<1>1. Init => TypeOK /\ PermitsConserved /\ CountersTrue BY GuardInit
<1>2. (TypeOK /\ PermitsConserved /\ CountersTrue) /\ [Next]_vars
        => (TypeOK /\ PermitsConserved /\ CountersTrue)'
  <2> SUFFICES ASSUME TypeOK, PermitsConserved, CountersTrue, [Next]_vars
               PROVE  TypeOK' /\ PermitsConserved' /\ CountersTrue'
    OBVIOUS
  <2>1. TypeOK' BY TypeStep
  <2>2. CASE UNCHANGED vars BY <2>1, <2>2, StillThreads DEF vars, memoryVars
  <2>3. ASSUME NEW u \in Users, WindowSlides(u) PROVE PermitsConserved' /\ CountersTrue'
    BY <2>3, StillThreads DEF WindowSlides
  <2>4. ASSUME NEW r \in Requests, Step(r) PROVE PermitsConserved' /\ CountersTrue'
    <3>1. PermitsConserved' BY <2>4, PermitsStep
    <3>2. inflight' = Cardinality(At({"running", "leaving"})') BY <2>4, InflightStep DEF InflightPlaces
    <3>3. QED BY <2>4, <3>1, <3>2, QueuedStep DEF CountersTrue
  <2>5. QED BY <2>1, <2>2, <2>3, <2>4 DEF Next, Ended
<1>3. QED BY <1>1, <1>2, PTL DEF Spec

-----------------------------------------------------------------------------
\* The guard's variables keep their types; in particular neither counter
\* ever goes below zero, so the max(0, .) clamps of the release path are
\* never what keeps them there.
THEOREM TypeCorrect == Spec => []TypeOK
BY GuardInvariant, PTL

\* No path out of the guard - refused, timed out, admitted, abandoned -
\* loses a permit or returns one it did not take.
THEOREM PermitsKept == Spec => []PermitsConserved
BY GuardInvariant, PTL

\* _inflight and _waiting are the number of threads in flight and queued.
THEOREM CountersKept == Spec => []CountersTrue
BY GuardInvariant, PTL

\* The two bounds the constructor is given hold of the threads themselves.
Bounded ==
    /\ Cardinality(Holders) <= MaxConcurrent
    /\ Cardinality(queued) <= MaxWaiting

\* At most MaxConcurrent threads hold a permit, at most MaxWaiting wait.
THEOREM GuardBounds == Spec => []Bounded
<1>1. TypeOK /\ PermitsConserved => Cardinality(Holders) <= MaxConcurrent
  <2>1. IsFiniteSet(Holders) BY FS_Subset DEF Holders, At
  <2>2. QED BY <2>1, FS_CardinalityType DEF PermitsConserved, TypeOK
<1>2. Init => waiting <= MaxWaiting BY DEF Init, InitialGuard
<1>3. TypeOK /\ waiting <= MaxWaiting /\ [Next]_vars => (waiting <= MaxWaiting)'
  <2> SUFFICES ASSUME TypeOK, waiting <= MaxWaiting, [Next]_vars PROVE waiting' <= MaxWaiting
    OBVIOUS
  <2>1. waiting \in Nat BY DEF TypeOK
  <2>2. ASSUME NEW r \in Requests, Step(r) PROVE waiting' <= MaxWaiting
    <3>1. CASE JoinQueue(r)
      <4>1. waiting' = waiting \/ (waiting' = waiting + 1 /\ ~(waiting >= MaxWaiting))
        BY <3>1 DEF JoinQueue
      <4>2. QED BY <2>1, <4>1
    <3>2. CASE Enter(r) BY <2>1, <3>2 DEF Enter
    <3>3. CASE GiveUpPlace(r) BY <2>1, <3>3 DEF GiveUpPlace
    <3>4. CASE UNCHANGED waiting BY <3>4
    <3>5. QED
      BY <2>2, <3>1, <3>2, <3>3, <3>4 DEF Step, CheckRate, Record, TryPermit, TakePermit,
         GetPermit, WaitExpires, Finish, Leave, ReturnPermit
  <2>3. QED BY <2>2 DEF Next, Ended, WindowSlides, vars, memoryVars
<1>4. CountersTrue /\ waiting <= MaxWaiting => Cardinality(queued) <= MaxWaiting
  BY DEF CountersTrue
<1>5. QED BY <1>1, <1>2, <1>3, <1>4, GuardInvariant, PTL DEF Spec, Bounded

-----------------------------------------------------------------------------
(* The guard implements the safety half of AdmissionControl.               *)

\* What the caller has been told, once the body runs.
Told == \A r \in Requests : pc[r] \in {"running", "leaving", "returning"} => outcome[r] = "admitted"

Phases == [r \in Requests |-> Phase(r)]

\* Exactly the threads that hold a permit run, and those that block are queued.
LEMMA PhaseSets ==
    ASSUME TypeOK
    PROVE  /\ {r \in Requests : Phases[r] = "running"} = Holders
           /\ {r \in Requests : Phases[r] = "queued"} \subseteq At({"blocking", "unqueueing"})
BY DEF Phases, Phase, Holders, At

\* The promise counts as the guard does.
LEMMA SameCardinality == \A S : Abstract!Cardinality(S) = Cardinality(S)
BY DEF Abstract!Cardinality, Cardinality

\* A thread's step changes its own phase only.
LEMMA PhaseMoves ==
    ASSUME TypeOK, NEW r \in Requests, NEW w, Goto(r, w),
           outcome' = outcome \/ \E what : Tell(r, what)
    PROVE  Phases' = [Phases EXCEPT ![r] = Phases'[r]]
<1>1. \A q \in Requests \ {r} : pc'[q] = pc[q] /\ outcome'[q] = outcome[q]
  BY DEF TypeOK, Goto, Tell
<1>2. ASSUME NEW q \in Requests \ {r} PROVE Phases'[q] = Phases[q]
  BY <1>1 DEF Phases, Phase, Holders, At
<1>3. Phases = [q \in Requests |-> Phases[q]] /\ Phases' = [q \in Requests |-> Phases'[q]]
  BY DEF Phases
<1> HIDE DEF Phases
<1> QED BY <1>2, <1>3

LEMMA GuardStart == Init => Abstract!Init /\ Told
<1> SUFFICES ASSUME Init PROVE Abstract!Init /\ Told OBVIOUS
<1>1. \A r \in Requests : pc[r] = "arriving" BY DEF Init, InitialGuard
<1> QED BY <1>1 DEF Abstract!Init, Told, Phase

\* Every step of a thread is one of the promise's, or none of its business.
LEMMA GuardStep ==
    ASSUME TypeOK, PermitsConserved, CountersTrue, Told, NEW r \in Requests, Step(r)
    PROVE  Told' /\ [Abstract!Next]_Phases
<1>0. pc \in [Requests -> Places] /\ outcome \in [Requests -> Refusals \cup {"none", "admitted"}]
  BY DEF TypeOK
<1>1. ASSUME NEW w, Goto(r, w), outcome' = outcome \/ \E what : Tell(r, what),
             Phases'[r] = Phases[r]
      PROVE  Phases' = Phases
  <2>1. Phases' = [Phases EXCEPT ![r] = Phases[r]] BY <1>1, PhaseMoves
  <2> QED BY <2>1 DEF Phases
<1>2. CASE CheckRate(r)
  <2>1. CASE recorded[UserOf[r]] >= MaxPerUser
    <3>1. Goto(r, "gone") /\ Tell(r, "rate limited") /\ pc[r] = "arriving" BY <1>2, <2>1 DEF CheckRate
    <3>2. Told' BY <1>0, <3>1 DEF Told, Goto, Tell
    <3>3. Phases[r] = "arriving" /\ Phases'[r] = "refused"
      BY <1>0, <3>1 DEF Phases, Phase, Goto, Tell, Holders, At
    <3>4. Phases' = [Phases EXCEPT ![r] = "refused"] BY <3>1, <3>3, PhaseMoves
    <3>5. Abstract!Refuse(r) BY <3>3, <3>4 DEF Abstract!Refuse, Abstract!Move, Phases
    <3> QED BY <3>2, <3>5 DEF Abstract!Next
  <2>2. CASE ~(recorded[UserOf[r]] >= MaxPerUser)
    <3>1. Goto(r, "recording") /\ outcome' = outcome /\ pc[r] = "arriving" BY <1>2, <2>2 DEF CheckRate
    <3>2. Told' BY <1>0, <3>1 DEF Told, Goto
    <3>3. Phases'[r] = Phases[r] BY <1>0, <3>1 DEF Phases, Phase, Goto
    <3> QED BY <1>1, <3>1, <3>2, <3>3
  <2> QED BY <2>1, <2>2
<1>3. CASE Record(r)
  <2>1. Goto(r, "trying") /\ outcome' = outcome /\ pc[r] = "recording" BY <1>3 DEF Record
  <2>2. Told' BY <1>0, <2>1 DEF Told, Goto
  <2>3. Phases'[r] = Phases[r] BY <1>0, <2>1 DEF Phases, Phase, Goto
  <2> QED BY <1>1, <2>1, <2>2, <2>3
<1>4. CASE (TryPermit(r) \/ GetPermit(r)) /\ TakePermit(r)
  <2>1. Goto(r, "entering") /\ outcome' = outcome /\ pc[r] \in {"trying", "blocking"} /\ permits > 0
    BY <1>4 DEF TryPermit, GetPermit, TakePermit
  <2>2. Told' BY <1>0, <2>1 DEF Told, Goto
  <2>3. Phases[r] \in {"arriving", "queued"} /\ Phases'[r] = "running"
    BY <1>0, <2>1 DEF Phases, Phase, Goto, Holders, At
  <2>4. Phases' = [Phases EXCEPT ![r] = "running"] BY <2>1, <2>3, PhaseMoves
  <2>5. Cardinality(Holders) < MaxConcurrent
    <3>1. IsFiniteSet(Holders) BY FS_Subset DEF Holders, At
    <3>2. Cardinality(Holders) \in Nat BY <3>1, FS_CardinalityType
    <3> QED BY <2>1, <3>2 DEF PermitsConserved, TypeOK
  <2>6. Cardinality({q \in Requests : Phases[q] = "running"}) < MaxConcurrent BY <2>5, PhaseSets
  <2>7. Cardinality(Abstract!In("running")) < MaxConcurrent
    <3>1. Abstract!In("running") = {q \in Requests : Phases[q] = "running"}
      BY DEF Abstract!In, Phases
    <3> QED BY <2>6, <3>1
  <2>8. Phases[r] \in {"arriving", "queued"} /\ Abstract!Move(r, "running")
    BY <2>3, <2>4 DEF Abstract!Move, Phases
  <2>9. Abstract!Admit(r) BY <2>7, <2>8, SameCardinality DEF Abstract!Admit, Phases
  <2> QED BY <2>2, <2>9 DEF Abstract!Next
<1>5. CASE TryPermit(r) /\ ~TakePermit(r)
  <2>1. Goto(r, "joining") /\ outcome' = outcome /\ pc[r] = "trying" BY <1>5 DEF TryPermit
  <2>2. Told' BY <1>0, <2>1 DEF Told, Goto
  <2>3. Phases'[r] = Phases[r] BY <1>0, <2>1 DEF Phases, Phase, Goto
  <2> QED BY <1>1, <2>1, <2>2, <2>3
<1>6. CASE JoinQueue(r)
  <2>1. CASE waiting >= MaxWaiting
    <3>1. Goto(r, "gone") /\ Tell(r, "queue full") /\ pc[r] = "joining" BY <1>6, <2>1 DEF JoinQueue
    <3>2. Told' BY <1>0, <3>1 DEF Told, Goto, Tell
    <3>3. Phases[r] = "arriving" /\ Phases'[r] = "refused"
      BY <1>0, <3>1 DEF Phases, Phase, Goto, Tell, Holders, At
    <3>4. Phases' = [Phases EXCEPT ![r] = "refused"] BY <3>1, <3>3, PhaseMoves
    <3>5. Abstract!Refuse(r) BY <3>3, <3>4 DEF Abstract!Refuse, Abstract!Move, Phases
    <3> QED BY <3>2, <3>5 DEF Abstract!Next
  <2>2. CASE ~(waiting >= MaxWaiting)
    <3>1. Goto(r, "blocking") /\ outcome' = outcome /\ pc[r] = "joining" BY <1>6, <2>2 DEF JoinQueue
    <3>2. Told' BY <1>0, <3>1 DEF Told, Goto
    <3>3. Phases[r] = "arriving" /\ Phases'[r] = "queued"
      BY <1>0, <3>1 DEF Phases, Phase, Goto
    <3>4. Phases' = [Phases EXCEPT ![r] = "queued"] BY <3>1, <3>3, PhaseMoves
    <3>5. Cardinality({q \in Requests : Phases[q] = "queued"}) < MaxWaiting
      <4> DEFINE S == {q \in Requests : Phases[q] = "queued"}
      <4>1. S \subseteq queued BY PhaseSets DEF CountersTrue
      <4>2. IsFiniteSet(queued) BY FS_Subset DEF TypeOK
      <4>3. IsFiniteSet(S) /\ Cardinality(S) <= Cardinality(queued) BY <4>1, <4>2, FS_Subset
      <4>4. Cardinality(S) \in Nat /\ Cardinality(queued) = waiting /\ waiting \in Nat
        BY <4>3, FS_CardinalityType DEF CountersTrue, TypeOK
      <4> HIDE DEF S
      <4>5. Cardinality(S) < MaxWaiting BY <2>2, <4>3, <4>4
      <4> QED BY <4>5 DEF S
    <3>6. Cardinality(Abstract!In("queued")) < MaxWaiting
      <4>1. Abstract!In("queued") = {q \in Requests : Phases[q] = "queued"}
        BY DEF Abstract!In, Phases
      <4> QED BY <3>5, <4>1
    <3>7. Phases[r] = "arriving" /\ Abstract!Move(r, "queued")
      BY <3>3, <3>4 DEF Abstract!Move, Phases
    <3>8. Abstract!Queue(r) BY <3>6, <3>7, SameCardinality DEF Abstract!Queue, Phases
    <3> QED BY <3>2, <3>8 DEF Abstract!Next
  <2> QED BY <2>1, <2>2
<1>7. CASE WaitExpires(r)
  <2>1. Goto(r, "unqueueing") /\ Tell(r, "queue timeout") /\ pc[r] = "blocking" BY <1>7 DEF WaitExpires
  <2>2. Told' BY <1>0, <2>1 DEF Told, Goto, Tell
  <2>3. Phases[r] = "queued" /\ Phases'[r] = "refused"
    BY <1>0, <2>1 DEF Phases, Phase, Goto, Tell, Holders, At
  <2>4. Phases' = [Phases EXCEPT ![r] = "refused"] BY <2>1, <2>3, PhaseMoves
  <2>5. Abstract!Refuse(r) BY <2>3, <2>4 DEF Abstract!Refuse, Abstract!Move, Phases
  <2> QED BY <2>2, <2>5 DEF Abstract!Next
<1>8. CASE Enter(r)
  <2>1. Goto(r, "running") /\ Tell(r, "admitted") /\ pc[r] = "entering" BY <1>8 DEF Enter
  <2>2. Told' BY <1>0, <2>1 DEF Told, Goto, Tell
  <2>3. Phases'[r] = Phases[r] BY <1>0, <2>1 DEF Phases, Phase, Goto, Holders, At
  <2> QED BY <1>1, <2>1, <2>2, <2>3
<1>9. CASE Finish(r) \/ Leave(r)
  <2>1. PICK w \in {"leaving", "returning"} :
            Goto(r, w) /\ outcome' = outcome /\ pc[r] \in {"running", "leaving"}
    BY <1>9 DEF Finish, Leave
  <2>2. Told' BY <1>0, <2>1 DEF Told, Goto
  <2>3. Phases'[r] = Phases[r] BY <1>0, <2>1 DEF Phases, Phase, Goto, Holders, At
  <2> QED BY <1>1, <2>1, <2>2, <2>3
<1>10. CASE ReturnPermit(r)
  <2>1. Goto(r, "gone") /\ outcome' = outcome /\ pc[r] = "returning" BY <1>10 DEF ReturnPermit
  <2>2. Told' BY <1>0, <2>1 DEF Told, Goto
  <2>3. Phases[r] = "running" /\ Phases'[r] = "served"
    BY <1>0, <2>1 DEF Told, Phases, Phase, Goto, Holders, At
  <2>4. Phases' = [Phases EXCEPT ![r] = "served"] BY <2>1, <2>3, PhaseMoves
  <2>5. Abstract!Serve(r) BY <2>3, <2>4 DEF Abstract!Serve, Abstract!Move, Phases
  <2> QED BY <2>2, <2>5 DEF Abstract!Next
<1>11. CASE GiveUpPlace(r)
  <2>1. Goto(r, "gone") /\ outcome' = outcome /\ pc[r] = "unqueueing" BY <1>11 DEF GiveUpPlace
  <2>2. Told' BY <1>0, <2>1 DEF Told, Goto
  <2>3. Phases'[r] = Phases[r] BY <1>0, <2>1 DEF Phases, Phase, Goto, Holders, At
  <2> QED BY <1>1, <2>1, <2>2, <2>3
<1>12. TryPermit(r) \/ GetPermit(r) =>
           \/ (TryPermit(r) \/ GetPermit(r)) /\ TakePermit(r)
           \/ TryPermit(r) /\ ~TakePermit(r)
  BY DEF GetPermit
<1> QED BY <1>2, <1>3, <1>4, <1>5, <1>6, <1>7, <1>8, <1>9, <1>10, <1>11, <1>12 DEF Step

\* Every behaviour of the guard, threads and locks interleaved anyhow, is one
\* the promise allows: no thread runs or waits beyond the bounds, none is both
\* refused and run, and none is served twice.
THEOREM GuardKeepsPromise == Spec => Abstract!Safety
<1>1. TypeOK /\ PermitsConserved /\ CountersTrue /\ Told /\ [Next]_vars
        => Told' /\ [Abstract!Next]_Phases
  <2> SUFFICES ASSUME TypeOK, PermitsConserved, CountersTrue, Told, [Next]_vars
               PROVE  Told' /\ [Abstract!Next]_Phases
    OBVIOUS
  <2>1. CASE pc' = pc /\ outcome' = outcome
    <3>1. \A q \in Requests : Phases'[q] = Phases[q] BY <2>1 DEF Phases, Phase, Holders, At
    <3>2. Phases' = Phases BY <3>1 DEF Phases
    <3> QED BY <2>1, <3>2 DEF Told
  <2> QED BY <2>1, GuardStep DEF Next, Ended, WindowSlides, vars, memoryVars
<1>2. [Abstract!Next]_Phases => [Abstract!Next]_[r \in Requests |-> Phase(r)]
  BY DEF Phases
<1> QED BY <1>1, <1>2, GuardStart, GuardInvariant, PTL DEF Spec, Abstract!Safety

-----------------------------------------------------------------------------
(***************************************************************************)
(* On Redis counters, for any number of requests, users, slots, places,    *)
(* polls and failing commands, as long as the handlers know the errors and *)
(* the counters of the two gates do not expire: the counters count, the    *)
(* bounds hold, no request fails, and until a command raises the guard     *)
(* implements AdmissionControl.                                            *)
(***************************************************************************)

\* What the theorems about the gates assume of Redis: it raises what the
\* handlers catch, and drops no gate's key.
Handled == Errors \subseteq Caught /\ ExpiringKeys \subseteq Users

SharedTypes ==
    /\ at \in [Requests -> Stations]
    /\ count \in [Keys -> Int]
    /\ slot \in [Requests -> SUBSET Gates]
    /\ faults \in Nat
    /\ resets \subseteq Gates

\* What a request at station p has counted, whether its thread is outside the
\* in-memory guard, and where only a command that raised can have brought it.
Fits(p, counted, outside, raised) ==
    /\ p \in {"rating", "rateTtl", "joining", "waitingTtl", "queueFull", "gone"} => counted = {}
    /\ p \in {"probing", "inflightTtl", "overshot"} => "inflight" \notin counted
    /\ p = "checkingTime" => counted = {"waiting"}
    /\ p = "admitted" => "inflight" \in counted
    /\ p \in {"repairing", "resetting"} => counted # {}
    /\ p \in {"degraded", "repairing", "resetting"} => raised
    /\ p \notin {"degraded", "releasing", "repairing", "resetting", "gone"} => outside

AtStation(r) == Fits(at[r], slot[r], pc[r] = "outside", faults > 0)

StationInv == \A r \in Requests : AtStation(r)

\* Only request r moves.
Only(r) ==
    \A q \in Requests \ {r} : at'[q] = at[q] /\ slot'[q] = slot[q] /\ pc'[q] = pc[q]

\* A gate's counter and the requests it counts change alike, a command that
\* raises can leave it too high, and a reset anyhow.
Balanced(r, gate) ==
    LET change == One(r \in Units(gate)') - One(r \in Units(gate)) IN
    \/ faults' = faults /\ count'[gate] = count[gate] + change
    \/ faults' > 0 /\ count'[gate] >= count[gate] + change
    \/ faults' > 0 /\ gate \in resets'

\* A step that takes a request to an inflight slot was granted by the count.
Granted(r) ==
    at'[r] \in {"inflightTtl", "admitted"} /\ at[r] \notin {"inflightTtl", "admitted"} =>
        count'["inflight"] <= MaxConcurrent

SharedStep(r) ==
    /\ SharedTypes' /\ Only(r) /\ AtStation(r)' /\ resets \subseteq resets' /\ faults' >= faults
    /\ \A gate \in Gates : Balanced(r, gate)
    /\ Granted(r)

\* The command raises, and the request goes to the in-memory guard.
Degrades(r) ==
    /\ faults' = faults + 1
    /\ Await(r, "degraded") /\ Goto(r, "arriving")
    /\ UNCHANGED <<permits, waiting, inflight, queued, recorded, outcome, slot, resets>>

Transit(gate) == IF gate = "inflight" THEN {"inflightTtl", "overshot"} ELSE {"waitingTtl", "queueFull"}

LEMMA UnitOf ==
    ASSUME NEW r \in Requests, NEW gate \in Gates
    PROVE  /\ r \in Units(gate) <=> \/ gate \in slot[r] /\ ~GivingUp(r, gate)
                                    \/ at[r] \in Transit(gate)
           /\ r \in Units(gate)' <=> \/ gate \in slot'[r] /\ ~GivingUp(r, gate)'
                                     \/ at'[r] \in Transit(gate)
BY DEF Units, Waits, Transit, Gates

\* The number of units changes by what becomes of the one request that moves.
LEMMA UnitsMove ==
    ASSUME SharedTypes, SharedTypes', NEW r \in Requests, Only(r), NEW gate \in Gates
    PROVE  /\ Cardinality(Units(gate)) \in Nat
           /\ Cardinality(Units(gate)')
                = Cardinality(Units(gate)) + One(r \in Units(gate)') - One(r \in Units(gate))
<1> DEFINE S == Units(gate)
           T == Units(gate)'
<1>1. S \subseteq Requests /\ T \subseteq Requests
  BY DEF Units, Waits
<1>2. IsFiniteSet(S) /\ Cardinality(S) \in Nat
  BY <1>1, FS_Subset, FS_CardinalityType
<1>3. \A q \in Requests \ {r} : q \in T <=> q \in S
  BY UnitOf DEF Only, GivingUp, NextGate
<1> HIDE DEF S, T
<1>4. Cardinality(T) = Cardinality(S) + One(r \in T) - One(r \in S)
  <2>1. CASE r \in T /\ r \notin S
    <3>1. T = S \cup {r} BY <1>1, <1>3, <2>1
    <3>2. Cardinality(T) = Cardinality(S) + 1 BY <1>2, <2>1, <3>1, FS_AddElement
    <3>3. One(r \in T) = 1 /\ One(r \in S) = 0 BY <2>1 DEF One
    <3> QED BY <1>2, <3>2, <3>3
  <2>2. CASE r \notin T /\ r \in S
    <3>1. T = S \ {r} BY <1>1, <1>3, <2>2
    <3>2. Cardinality(T) = Cardinality(S) - 1 BY <1>2, <2>2, <3>1, FS_RemoveElement
    <3>3. One(r \in T) = 0 /\ One(r \in S) = 1 BY <2>2 DEF One
    <3> QED BY <1>2, <3>2, <3>3
  <2>3. CASE (r \in T) = (r \in S)
    <3>1. T = S BY <1>1, <1>3, <2>3
    <3> QED BY <1>2, <2>3, <3>1 DEF One
  <2> QED BY <2>1, <2>2, <2>3
<1> QED BY <1>2, <1>4 DEF S, T

LEMMA CountsStep ==
    ASSUME SharedTypes, SharedTypes', CountsTrue, NEW r \in Requests, Only(r),
           resets \subseteq resets', faults' >= faults, \A gate \in Gates : Balanced(r, gate)
    PROVE  CountsTrue'
<1> SUFFICES ASSUME NEW gate \in Gates
             PROVE  /\ faults' = 0 => count'[gate] = Cardinality(Units(gate)')
                    /\ gate \notin resets' => count'[gate] >= Cardinality(Units(gate)')
  BY DEF CountsTrue
<1> DEFINE change == One(r \in Units(gate)') - One(r \in Units(gate))
           units == Cardinality(Units(gate))
<1>1. units \in Nat /\ change \in Int /\ Cardinality(Units(gate)') = units + change
  <2>1. One(r \in Units(gate)') \in Int /\ One(r \in Units(gate)) \in Int BY DEF One
  <2> QED BY <2>1, UnitsMove
<1>2. count[gate] \in Int /\ count'[gate] \in Int /\ faults \in Nat /\ faults' \in Nat
  BY DEF SharedTypes, Keys
<1>3. /\ faults = 0 => count[gate] = units
      /\ gate \notin resets => count[gate] >= units
  BY DEF CountsTrue
<1>4. \/ faults' = faults /\ count'[gate] = count[gate] + change
      \/ faults' > 0 /\ count'[gate] >= count[gate] + change
      \/ faults' > 0 /\ gate \in resets'
  BY DEF Balanced
<1> HIDE DEF change, units
<1> QED BY <1>1, <1>2, <1>3, <1>4

-----------------------------------------------------------------------------
(* What one step of a request does to the shared counters.                 *)

LEMMA MemoryMoves ==
    ASSUME NEW r \in Requests, Step(r)
    PROVE  \E w : Goto(r, w)
BY DEF Step, CheckRate, Record, TryPermit, TakePermit, JoinQueue, GetPermit, WaitExpires, Enter,
       Finish, Leave, ReturnPermit, GiveUpPlace

LEMMA Moved ==
    ASSUME SharedTypes, NEW r \in Requests, NEW p \in Stations, NEW s \in SUBSET Gates,
           Await(r, p), slot' = [slot EXCEPT ![r] = s] \/ (slot' = slot /\ s = slot[r]),
           \A q \in Requests \ {r} : pc'[q] = pc[q]
    PROVE  /\ at'[r] = p /\ slot'[r] = s /\ Only(r)
           /\ at' \in [Requests -> Stations] /\ slot' \in [Requests -> SUBSET Gates]
<1>1. at' = [at EXCEPT ![r] = p] /\ at \in [Requests -> Stations] BY DEF Await, SharedTypes
<1>2. slot \in [Requests -> SUBSET Gates] BY DEF SharedTypes
<1>3. slot' \in [Requests -> SUBSET Gates] /\ slot'[r] = s /\ \A q \in Requests \ {r} : slot'[q] = slot[q]
  BY <1>2
<1>4. at' \in [Requests -> Stations] /\ at'[r] = p /\ \A q \in Requests \ {r} : at'[q] = at[q]
  BY <1>1
<1> QED BY <1>3, <1>4 DEF Only

LEMMA Changed ==
    ASSUME SharedTypes, NEW k \in Keys, NEW n \in Int, count' = Added(k, n)
    PROVE  /\ count' \in [Keys -> Int]
           /\ count'[k] = count[k] + n
           /\ \A g \in Keys \ {k} : count'[g] = count[g]
<1>1. count \in [Keys -> Int] BY DEF SharedTypes
<1>2. count' = [count EXCEPT ![k] = count[k] + n] BY DEF Added
<1> QED BY <1>1, <1>2

\* A request that a command failed leaves its gates' counters too high at most.
LEMMA DegradesStep ==
    ASSUME SharedTypes, StationInv, NEW r \in Requests, Degrades(r),
           at[r] \in {"rating", "rateTtl", "probing", "inflightTtl", "overshot", "joining",
                      "waitingTtl", "queueFull"},
           count' \in [Keys -> Int],
           \A g \in Gates : count'[g] >= count[g] - One(at[r] \in Transit(g))
    PROVE  SharedStep(r)
<1>1. \A q \in Requests \ {r} : pc'[q] = pc[q] BY DEF Degrades, Goto
<1>2. slot[r] \in SUBSET Gates /\ "degraded" \in Stations BY DEF SharedTypes, Stations
<1>3. at'[r] = "degraded" /\ slot'[r] = slot[r] /\ Only(r)
      /\ at' \in [Requests -> Stations] /\ slot' \in [Requests -> SUBSET Gates]
  BY <1>1, <1>2, Moved DEF Degrades
<1>4. faults' = faults + 1 /\ resets' = resets /\ faults \in Nat BY DEF Degrades, SharedTypes
<1>5. SharedTypes' BY <1>3, <1>4 DEF SharedTypes
<1>6. AtStation(r)' BY <1>3, <1>4 DEF AtStation, Fits
<1>7. ASSUME NEW gate \in Gates PROVE Balanced(r, gate)
  <2>1. AtStation(r) BY DEF StationInv
  <2>2. at[r] \in Transit(gate) => gate \notin slot[r]
    BY <2>1 DEF AtStation, Fits, Transit, Gates
  <2>3. ~GivingUp(r, gate) /\ ~GivingUp(r, gate)' BY <1>3 DEF GivingUp
  <2>4. r \in Units(gate) <=> gate \in slot[r] \/ at[r] \in Transit(gate)
    BY <2>3, UnitOf
  <2>5. r \in Units(gate)' <=> gate \in slot[r]
    BY <1>3, <2>3, UnitOf DEF Transit, Gates
  <2>6. One(r \in Units(gate)') - One(r \in Units(gate)) = 0 - One(at[r] \in Transit(gate))
    <3>1. CASE at[r] \in Transit(gate)
      <4>1. One(r \in Units(gate)') = 0 /\ One(r \in Units(gate)) = 1 /\ One(at[r] \in Transit(gate)) = 1
        BY <2>2, <2>4, <2>5, <3>1 DEF One
      <4> QED BY <4>1
    <3>2. CASE at[r] \notin Transit(gate)
      <4>1. One(r \in Units(gate)') = One(r \in Units(gate)) /\ One(at[r] \in Transit(gate)) = 0
        BY <2>4, <2>5, <3>2 DEF One
      <4>2. One(r \in Units(gate)) \in Int BY DEF One
      <4> QED BY <4>1, <4>2
    <3> QED BY <3>1, <3>2
  <2>7. count[gate] \in Int /\ count'[gate] \in Int /\ One(at[r] \in Transit(gate)) \in Int
    BY DEF SharedTypes, Keys, One
  <2>8. count'[gate] >= count[gate] - One(at[r] \in Transit(gate)) OBVIOUS
  <2>9. count'[gate] >= count[gate] + (One(r \in Units(gate)') - One(r \in Units(gate)))
    BY <2>6, <2>7, <2>8
  <2> QED BY <1>4, <2>9 DEF Balanced
<1>8. Granted(r) BY <1>3 DEF Granted
<1> QED BY <1>3, <1>4, <1>5, <1>6, <1>7, <1>8 DEF SharedStep

\* A step that every counter's change fits.
LEMMA AnsweredStep ==
    ASSUME SharedTypes, StationInv, NEW r \in Requests, NEW p \in Stations, NEW s \in SUBSET Gates,
           Await(r, p), slot' = [slot EXCEPT ![r] = s] \/ (slot' = slot /\ s = slot[r]),
           pc' = pc, faults' = faults, resets' = resets, count' \in [Keys -> Int],
           Fits(p, s, pc[r] = "outside", faults > 0),
           p \in {"inflightTtl", "admitted"} /\ at[r] \notin {"inflightTtl", "admitted"} =>
               count'["inflight"] <= MaxConcurrent,
           at[r] \notin {"repairing", "resetting"}, p \notin {"repairing", "resetting"},
           \A g \in Gates : count'[g] = count[g] + One(g \in s \/ p \in Transit(g))
                                                 - One(g \in slot[r] \/ at[r] \in Transit(g))
    PROVE  SharedStep(r)
<1>1. at'[r] = p /\ slot'[r] = s /\ Only(r)
      /\ at' \in [Requests -> Stations] /\ slot' \in [Requests -> SUBSET Gates]
  BY Moved
<1>2. SharedTypes' BY <1>1 DEF SharedTypes
<1>3. ASSUME NEW gate \in Gates PROVE Balanced(r, gate)
  <2>1. ~GivingUp(r, gate) /\ ~GivingUp(r, gate)' BY <1>1 DEF GivingUp
  <2>2. (r \in Units(gate)) = (gate \in slot[r] \/ at[r] \in Transit(gate))
    BY <2>1, UnitOf
  <2>3. (r \in Units(gate)') = (gate \in s \/ p \in Transit(gate))
    BY <1>1, <2>1, UnitOf
  <2>4. One(r \in Units(gate)) = One(gate \in slot[r] \/ at[r] \in Transit(gate))
        /\ One(r \in Units(gate)') = One(gate \in s \/ p \in Transit(gate))
    BY <2>2, <2>3
  <2>5. One(r \in Units(gate)) \in Int /\ One(r \in Units(gate)') \in Int /\ count[gate] \in Int
    BY DEF One, SharedTypes, Keys
  <2>6. count'[gate] = count[gate] + One(r \in Units(gate)') - One(r \in Units(gate))
    BY <2>4
  <2>7. count'[gate] = count[gate] + (One(r \in Units(gate)') - One(r \in Units(gate)))
    BY <2>5, <2>6
  <2> QED BY <2>7 DEF Balanced
<1>4. Granted(r) /\ AtStation(r)' BY <1>1 DEF Granted, AtStation
<1>5. resets \subseteq resets' /\ faults' >= faults BY DEF SharedTypes
<1> QED BY <1>1, <1>2, <1>3, <1>4, <1>5 DEF SharedStep

\* What is counted does not change, nor what the request counts for.
LEMMA StillStep ==
    ASSUME SharedTypes, StationInv, NEW r \in Requests, NEW p \in Stations, NEW s \in SUBSET Gates,
           Await(r, p), slot' = [slot EXCEPT ![r] = s] \/ (slot' = slot /\ s = slot[r]),
           pc' = pc, faults' = faults, resets' = resets, count' \in [Keys -> Int],
           Fits(p, s, pc[r] = "outside", faults > 0),
           p \notin {"inflightTtl", "repairing", "resetting"},
           p = "admitted" => at[r] = "inflightTtl",
           at[r] \notin {"repairing", "resetting"},
           \A g \in Gates : /\ count'[g] = count[g]
                            /\ g \in s \/ p \in Transit(g) <=> g \in slot[r] \/ at[r] \in Transit(g)
    PROVE  SharedStep(r)
<1>1. ASSUME NEW g \in Gates
      PROVE  count'[g] = count[g] + One(g \in s \/ p \in Transit(g))
                                  - One(g \in slot[r] \/ at[r] \in Transit(g))
  <2> DEFINE x == One(g \in s \/ p \in Transit(g))
             y == One(g \in slot[r] \/ at[r] \in Transit(g))
  <2>1. x = y
    <3>1. g \in s \/ p \in Transit(g) <=> g \in slot[r] \/ at[r] \in Transit(g) OBVIOUS
    <3> QED BY <3>1 DEF One
  <2>2. x \in Int BY DEF One
  <2>3. count[g] \in Int /\ count'[g] = count[g] BY DEF SharedTypes, Keys
  <2> HIDE DEF x, y
  <2>4. count'[g] = count[g] + x - y BY <2>1, <2>2, <2>3
  <2> QED BY <2>4 DEF x, y
<1> QED BY <1>1, AnsweredStep

\* The request counts itself at gate k, or uncounts itself.
LEMMA CountingStep ==
    ASSUME SharedTypes, StationInv, NEW r \in Requests, NEW p \in Stations, NEW s \in SUBSET Gates,
           Await(r, p), slot' = [slot EXCEPT ![r] = s] \/ (slot' = slot /\ s = slot[r]),
           pc' = pc, faults' = faults, resets' = resets,
           NEW k \in Gates, NEW n \in {1, -1}, count' = Added(k, n),
           Fits(p, s, pc[r] = "outside", faults > 0),
           p \notin {"repairing", "resetting"}, at[r] \notin {"repairing", "resetting"},
           p \in {"inflightTtl", "admitted"} => count'["inflight"] <= MaxConcurrent,
           k \in s \/ p \in Transit(k) <=> n = 1,
           k \in slot[r] \/ at[r] \in Transit(k) <=> n = -1,
           \A g \in Gates \ {k} :
               g \in s \/ p \in Transit(g) <=> g \in slot[r] \/ at[r] \in Transit(g)
    PROVE  SharedStep(r)
<1>0. k \in Keys /\ n \in Int BY DEF Keys
<1>1. ASSUME NEW g \in Gates
      PROVE  count'[g] = count[g] + One(g \in s \/ p \in Transit(g))
                                  - One(g \in slot[r] \/ at[r] \in Transit(g))
  <2> DEFINE x == One(g \in s \/ p \in Transit(g))
             y == One(g \in slot[r] \/ at[r] \in Transit(g))
  <2>1. x - y = IF g = k THEN n ELSE 0
    <3>1. CASE g = k
      <4>1. x = IF n = 1 THEN 1 ELSE 0
        <5>1. g \in s \/ p \in Transit(g) <=> n = 1 BY <3>1
        <5> QED BY <5>1 DEF One
      <4>2. y = IF n = -1 THEN 1 ELSE 0
        <5>1. g \in slot[r] \/ at[r] \in Transit(g) <=> n = -1 BY <3>1
        <5> QED BY <5>1 DEF One
      <4> HIDE DEF x, y
      <4> QED BY <3>1, <4>1, <4>2
    <3>2. CASE g # k
      <4>1. g \in s \/ p \in Transit(g) <=> g \in slot[r] \/ at[r] \in Transit(g) BY <3>2
      <4>2. x = y BY <4>1 DEF One
      <4>3. x \in Int BY DEF One
      <4> HIDE DEF x, y
      <4> QED BY <3>2, <4>2, <4>3
    <3> QED BY <3>1, <3>2
  <2>2. x \in Int /\ y \in Int BY DEF One
  <2>3. count[g] \in Int /\ count'[g] = count[g] + IF g = k THEN n ELSE 0
    <3>1. count[g] \in Int /\ g \in Keys BY DEF SharedTypes, Keys
    <3> QED BY <1>0, <3>1, Changed
  <2> HIDE DEF x, y
  <2>4. count'[g] = count[g] + x - y BY <2>1, <2>2, <2>3
  <2> QED BY <2>4 DEF x, y
<1>2. count' \in [Keys -> Int] BY <1>0, Changed
<1> QED BY <1>1, <1>2, AnsweredStep

LEMMA CountsItself ==
    ASSUME SharedTypes, StationInv, NEW r \in Requests, NEW p \in Stations, NEW s \in SUBSET Gates,
           Await(r, p), slot' = [slot EXCEPT ![r] = s] \/ (slot' = slot /\ s = slot[r]),
           pc' = pc, faults' = faults, resets' = resets,
           NEW k \in Gates, count' = Added(k, 1),
           Fits(p, s, pc[r] = "outside", faults > 0),
           p \notin {"repairing", "resetting"}, at[r] \in {"probing", "joining"},
           p \in {"inflightTtl", "admitted"} => count'["inflight"] <= MaxConcurrent,
           k \notin slot[r],
           \A g \in Gates : g \in s \/ p \in Transit(g) <=> g \in slot[r] \/ g = k
    PROVE  SharedStep(r)
<1>1. \A g \in Gates : at[r] \notin Transit(g) BY DEF Transit
<1>2. /\ k \in s \/ p \in Transit(k) <=> 1 = 1
      /\ k \in slot[r] \/ at[r] \in Transit(k) <=> 1 = -1
      /\ \A g \in Gates \ {k} :
             g \in s \/ p \in Transit(g) <=> g \in slot[r] \/ at[r] \in Transit(g)
  BY <1>1
<1>3. at[r] \notin {"repairing", "resetting"} /\ 1 \in {1, -1} OBVIOUS
<1> QED BY <1>2, <1>3, CountingStep

LEMMA RaisesStep ==
    ASSUME SharedTypes, StationInv, NEW r \in Requests, Degrades(r),
           at[r] \in {"rating", "rateTtl", "probing", "inflightTtl", "overshot", "joining",
                      "waitingTtl", "queueFull"},
           NEW k \in Keys, NEW n \in {1, -1}, n = -1 => at[r] \in Transit(k),
           count' = count \/ count' = Added(k, n)
    PROVE  SharedStep(r)
<1>1. count \in [Keys -> Int] /\ n \in Int BY DEF SharedTypes
<1>2. CASE count' = count
  <2>1. ASSUME NEW g \in Gates PROVE count'[g] >= count[g] - One(at[r] \in Transit(g))
    <3>1. count[g] \in Int BY <1>1 DEF Keys
    <3> QED BY <1>2, <3>1 DEF One
  <2> QED BY <1>1, <1>2, <2>1, DegradesStep
<1>3. CASE count' = Added(k, n)
  <2>1. count' \in [Keys -> Int] /\ count'[k] = count[k] + n /\ \A g \in Keys \ {k} : count'[g] = count[g]
    BY <1>1, <1>3, Changed
  <2>2. ASSUME NEW g \in Gates PROVE count'[g] >= count[g] - One(at[r] \in Transit(g))
    <3>1. count[g] \in Int /\ count[k] \in Int BY <1>1 DEF Keys
    <3>2. CASE g = k /\ n = -1 BY <2>1, <3>1, <3>2 DEF One
    <3>3. CASE g = k /\ n = 1 BY <2>1, <3>1, <3>3 DEF One
    <3>4. CASE g # k
      <4>1. count'[g] = count[g] BY <2>1, <3>4 DEF Keys
      <4> QED BY <3>1, <4>1 DEF One
    <3> QED BY <3>2, <3>3, <3>4
  <2> QED BY <2>1, <2>2, DegradesStep
<1> QED BY <1>2, <1>3

LEMMA Stays ==
    ASSUME SharedTypes, NEW r \in Requests
    PROVE  /\ slot[r] \in SUBSET Gates /\ at[r] \in Stations
           /\ UserOf[r] \in Users /\ UserOf[r] \in Keys /\ UserOf[r] \notin Gates
           /\ "inflight" \in Gates /\ "waiting" \in Gates /\ Gates \subseteq Keys
BY RedisAssumption DEF SharedTypes, Keys, Gates

LEMMA RateStep ==
    ASSUME Handled, SharedTypes, StationInv, NEW r \in Requests, RateIncr(r) \/ RateExpire(r) \/ NoClient(r)
    PROVE  SharedStep(r)
<1>0. /\ AtStation(r) /\ slot[r] \in SUBSET Gates
      /\ UserOf[r] \in Keys /\ UserOf[r] \notin Gates
  BY Stays DEF StationInv
<1>1. PICK s \in SUBSET Gates : s = slot[r] BY <1>0
<1>2. PICK u \in Keys \ Gates : u = UserOf[r] BY <1>0
<1>3. ASSUME Degrades(r), at[r] \in {"rating", "rateTtl"}, count' = count \/ count' = Added(u, 1)
      PROVE  SharedStep(r)
  BY <1>3, RaisesStep
<1>4. ASSUME NEW p \in {"releasing", "rateTtl", "probing"}, at[r] \in {"rating", "rateTtl"}, Await(r, p),
             UNCHANGED <<slot, pc, faults, resets>>, count' = count \/ count' = Added(u, 1)
      PROVE  SharedStep(r)
  <2>1. p \in Stations /\ s = {} BY <1>0, <1>1, <1>4 DEF Stations, AtStation, Fits
  <2>2. count' \in [Keys -> Int] /\ \A g \in Gates : count'[g] = count[g]
    <3>1. 1 \in Int OBVIOUS
    <3>2. CASE count' = count BY <3>2 DEF SharedTypes
    <3>3. CASE count' = Added(u, 1)
      <4>1. count' \in [Keys -> Int] /\ \A g \in Keys \ {u} : count'[g] = count[g]
        BY <3>1, <3>3, <1>2, Changed
      <4> QED BY <4>1, <1>2 DEF Keys
    <3> QED BY <1>4, <3>2, <3>3
  <2>3. Fits(p, s, pc[r] = "outside", faults > 0)
    BY <1>0, <1>1, <1>4, <2>1 DEF AtStation, Fits
  <2>4. \A g \in Gates : g \in s \/ p \in Transit(g) <=> g \in slot[r] \/ at[r] \in Transit(g)
    BY <1>1, <1>4 DEF Transit, Gates
  <2> QED BY <1>1, <1>4, <2>1, <2>2, <2>3, <2>4, StillStep
<1>5. CASE RateIncr(r)
  <2>1. \/ \E p \in {"releasing", "rateTtl", "probing"} :
               Await(r, p) /\ UNCHANGED <<slot, pc, faults, resets>> /\ count' = Added(u, 1)
        \/ Degrades(r) /\ (count' = count \/ count' = Added(u, 1))
    BY <1>2, <1>5 DEF Handled, RateIncr, Incr, Leaves, Release, RaisesIn, Raises, GivesUpOnRedis,
                      Degrades, vars, memoryVars
  <2>2. at[r] = "rating" BY <1>5 DEF RateIncr
  <2> QED BY <1>3, <1>4, <2>1, <2>2
<1>6. CASE RateExpire(r)
  <2>1. \/ Await(r, "probing") /\ UNCHANGED <<slot, pc, faults, resets>> /\ count' = count
        \/ Degrades(r) /\ count' = count
    BY <1>6 DEF Handled, RateExpire, SetTtl, RaisesIn, Raises, GivesUpOnRedis, Degrades, vars, memoryVars
  <2>2. at[r] = "rateTtl" BY <1>6 DEF RateExpire
  <2> QED BY <1>3, <1>4, <2>1, <2>2
<1>7. CASE NoClient(r)
  <2>1. Degrades(r) /\ count' = count /\ at[r] = "rating"
    BY <1>7 DEF NoClient, Degrades
  <2> QED BY <1>3, <2>1
<1> QED BY <1>5, <1>6, <1>7

\* INCR of a gate's counter, and the EXPIRE that follows a count of one.
LEMMA ClaimStep ==
    ASSUME Handled, SharedTypes, StationInv, NEW r \in Requests,
           Probe(r) \/ ProbeExpire(r) \/ Join(r) \/ JoinExpire(r)
    PROVE  SharedStep(r)
<1>0. AtStation(r) /\ slot[r] \in SUBSET Gates /\ "inflight" \in Keys /\ "waiting" \in Keys
  BY Stays DEF StationInv
<1>1. PICK s \in SUBSET Gates : s = slot[r] BY <1>0
<1>2. ASSUME NEW k \in Gates, at[r] \in {"probing", "joining", "inflightTtl", "waitingTtl"}, Degrades(r),
             count' = count \/ count' = Added(k, 1)
      PROVE  SharedStep(r)
  BY <1>2, RaisesStep DEF Keys
<1>3. CASE Probe(r)
  <2>1. \/ /\ count' = Added("inflight", 1) /\ UNCHANGED <<pc, faults, resets>>
           /\ \/ Await(r, "inflightTtl") /\ slot' = slot /\ count["inflight"] + 1 = 1
              \/ Await(r, "admitted") /\ Knows(r, "inflight") /\ count["inflight"] + 1 <= MaxConcurrent
              \/ Await(r, "overshot") /\ slot' = slot
        \/ Degrades(r) /\ (count' = count \/ count' = Added("inflight", 1))
    BY <1>3 DEF Handled, Probe, Claim, Incr, Limit, RaisesIn, Raises, GivesUpOnRedis, Degrades, vars,
                memoryVars
  <2>2. at[r] = "probing" BY <1>3 DEF Probe, Claim
  <2>3. "inflight" \notin s /\ pc[r] = "outside" BY <1>0, <1>1, <2>2 DEF AtStation, Fits
  <2>4. count' = Added("inflight", 1) => count'["inflight"] = count["inflight"] + 1
    BY <1>0, Changed
  <2>6. CASE Await(r, "inflightTtl") /\ slot' = slot /\ count["inflight"] + 1 = 1
             /\ count' = Added("inflight", 1) /\ UNCHANGED <<pc, faults, resets>>
    <3>1. "inflightTtl" \in Stations /\ Fits("inflightTtl", s, pc[r] = "outside", faults > 0)
      BY <2>3 DEF Stations, Fits
    <3>2. count'["inflight"] <= MaxConcurrent BY <2>4, <2>6
    <3>3. \A g \in Gates : g \in s \/ "inflightTtl" \in Transit(g) <=> g \in s \/ g = "inflight"
      BY DEF Transit, Gates
    <3> QED BY <1>1, <2>2, <2>3, <2>6, <3>1, <3>2, <3>3, CountsItself DEF Gates
  <2>7. CASE Await(r, "admitted") /\ Knows(r, "inflight") /\ count["inflight"] + 1 <= MaxConcurrent
             /\ count' = Added("inflight", 1) /\ UNCHANGED <<pc, faults, resets>>
    <3>1. PICK z \in SUBSET Gates : z = s \cup {"inflight"} BY DEF Gates
    <3>2. slot' = [slot EXCEPT ![r] = z] BY <1>1, <2>7, <3>1 DEF Knows
    <3>3. "admitted" \in Stations /\ Fits("admitted", z, pc[r] = "outside", faults > 0)
      BY <2>3, <3>1 DEF Stations, Fits
    <3>4. count'["inflight"] <= MaxConcurrent BY <2>4, <2>7
    <3>5. \A g \in Gates : g \in z \/ "admitted" \in Transit(g) <=> g \in s \/ g = "inflight"
      BY <3>1 DEF Transit
    <3>6. /\ "inflight" \in Gates /\ "inflight" \notin slot[r]
          /\ \A g \in Gates : g \in z \/ "admitted" \in Transit(g) <=> g \in slot[r] \/ g = "inflight"
      BY <1>1, <2>3, <3>5 DEF Gates
    <3> QED BY <2>2, <2>7, <3>2, <3>3, <3>4, <3>6, CountsItself
  <2>8. CASE Await(r, "overshot") /\ slot' = slot
             /\ count' = Added("inflight", 1) /\ UNCHANGED <<pc, faults, resets>>
    <3>1. "overshot" \in Stations /\ Fits("overshot", s, pc[r] = "outside", faults > 0)
      BY <2>3 DEF Stations, Fits
    <3>2. \A g \in Gates : g \in s \/ "overshot" \in Transit(g) <=> g \in s \/ g = "inflight"
      BY DEF Transit, Gates
    <3> QED BY <1>1, <2>2, <2>3, <2>8, <3>1, <3>2, CountsItself DEF Gates
  <2> QED BY <1>2, <2>1, <2>2, <2>6, <2>7, <2>8 DEF Gates
<1>4. CASE ProbeExpire(r)
  <2>1. \/ Await(r, "admitted") /\ Knows(r, "inflight") /\ UNCHANGED <<pc, faults, resets, count>>
        \/ Degrades(r) /\ count' = count
    BY <1>4 DEF Handled, ProbeExpire, ClaimExpire, SetTtl, RaisesIn, Raises, GivesUpOnRedis, Degrades, vars,
                memoryVars
  <2>2. at[r] = "inflightTtl" BY <1>4 DEF ProbeExpire, ClaimExpire
  <2>3. CASE Await(r, "admitted") /\ Knows(r, "inflight") /\ UNCHANGED <<pc, faults, resets, count>>
    <3>1. PICK z \in SUBSET Gates : z = s \cup {"inflight"} BY DEF Gates
    <3>2. slot' = [slot EXCEPT ![r] = z] BY <1>1, <2>3, <3>1 DEF Knows
    <3>3. "admitted" \in Stations /\ Fits("admitted", z, pc[r] = "outside", faults > 0)
      BY <1>0, <2>2, <3>1 DEF Stations, AtStation, Fits
    <3>4. \A g \in Gates : g \in z \/ "admitted" \in Transit(g) <=> g \in slot[r] \/ at[r] \in Transit(g)
      BY <1>1, <2>2, <3>1 DEF Transit, Gates
    <3>5. count' \in [Keys -> Int] BY <2>3 DEF SharedTypes
    <3> QED BY <2>2, <2>3, <3>2, <3>3, <3>4, <3>5, StillStep
  <2> QED BY <1>2, <2>1, <2>2, <2>3 DEF Gates
<1>5. CASE Join(r) /\ MaxWaiting # 0
  <2>1. \/ /\ count' = Added("waiting", 1) /\ UNCHANGED <<pc, faults, resets>>
           /\ \/ Await(r, "waitingTtl") /\ slot' = slot
              \/ Await(r, "checkingTime") /\ Knows(r, "waiting")
              \/ Await(r, "queueFull") /\ slot' = slot
        \/ Degrades(r) /\ (count' = count \/ count' = Added("waiting", 1))
    BY <1>5 DEF Handled, Join, Claim, Incr, Limit, RaisesIn, Raises, GivesUpOnRedis, Degrades, vars,
                memoryVars
  <2>2. at[r] = "joining" BY <1>5 DEF Join, Claim
  <2>3. s = {} /\ pc[r] = "outside" BY <1>0, <1>1, <2>2 DEF AtStation, Fits
  <2>5. ASSUME NEW p \in {"waitingTtl", "queueFull"}, Await(r, p), slot' = slot,
               count' = Added("waiting", 1), UNCHANGED <<pc, faults, resets>>
        PROVE  SharedStep(r)
    <3>1. p \in Stations /\ Fits(p, s, pc[r] = "outside", faults > 0)
      BY <2>3, <2>5 DEF Stations, Fits
    <3>2. \A g \in Gates : g \in s \/ p \in Transit(g) <=> g \in s \/ g = "waiting"
      BY <2>5 DEF Transit, Gates
    <3> QED BY <1>1, <2>2, <2>3, <2>5, <3>1, <3>2, CountsItself DEF Gates
  <2>6. CASE Await(r, "checkingTime") /\ Knows(r, "waiting")
             /\ count' = Added("waiting", 1) /\ UNCHANGED <<pc, faults, resets>>
    <3>1. PICK z \in SUBSET Gates : z = {"waiting"} BY DEF Gates
    <3>2. slot' = [slot EXCEPT ![r] = z] BY <1>1, <2>3, <2>6, <3>1 DEF Knows
    <3>3. "checkingTime" \in Stations /\ Fits("checkingTime", z, pc[r] = "outside", faults > 0)
      BY <2>3, <3>1 DEF Stations, Fits
    <3>4. \A g \in Gates : g \in z \/ "checkingTime" \in Transit(g) <=> g \in s \/ g = "waiting"
      BY <2>3, <3>1 DEF Transit
    <3>5. /\ "waiting" \in Gates /\ "waiting" \notin slot[r]
          /\ \A g \in Gates : g \in z \/ "checkingTime" \in Transit(g) <=> g \in slot[r] \/ g = "waiting"
      BY <1>1, <2>3, <3>4 DEF Gates
    <3> QED BY <2>2, <2>6, <3>2, <3>3, <3>5, CountsItself
  <2> QED BY <1>2, <2>1, <2>2, <2>5, <2>6 DEF Gates
<1>6. CASE Join(r) /\ MaxWaiting = 0
  <2>1. at[r] = "joining" /\ Await(r, "releasing") /\ UNCHANGED <<pc, slot, count, faults, resets>>
    BY <1>6 DEF Join, Leaves, Release, memoryVars, sharedVars
  <2>2. "releasing" \in Stations /\ Fits("releasing", s, pc[r] = "outside", faults > 0)
    BY DEF Stations, Fits
  <2>3. \A g \in Gates : g \in s \/ "releasing" \in Transit(g) <=> g \in slot[r] \/ at[r] \in Transit(g)
    BY <1>1, <2>1 DEF Transit
  <2>4. count' \in [Keys -> Int] BY <2>1 DEF SharedTypes
  <2> QED BY <1>1, <2>1, <2>2, <2>3, <2>4, StillStep
<1>7. CASE JoinExpire(r)
  <2>1. \/ Await(r, "checkingTime") /\ Knows(r, "waiting") /\ UNCHANGED <<pc, faults, resets, count>>
        \/ Degrades(r) /\ count' = count
    BY <1>7 DEF Handled, JoinExpire, ClaimExpire, SetTtl, RaisesIn, Raises, GivesUpOnRedis, Degrades, vars,
                memoryVars
  <2>2. at[r] = "waitingTtl" BY <1>7 DEF JoinExpire, ClaimExpire
  <2>3. CASE Await(r, "checkingTime") /\ Knows(r, "waiting") /\ UNCHANGED <<pc, faults, resets, count>>
    <3>1. PICK z \in SUBSET Gates : z = {"waiting"} BY DEF Gates
    <3>2. s = {} BY <1>0, <1>1, <2>2 DEF AtStation, Fits
    <3>3. slot' = [slot EXCEPT ![r] = z] BY <1>1, <2>3, <3>1, <3>2 DEF Knows
    <3>4. "checkingTime" \in Stations /\ Fits("checkingTime", z, pc[r] = "outside", faults > 0)
      BY <1>0, <2>2, <3>1 DEF Stations, AtStation, Fits
    <3>5. \A g \in Gates : g \in z \/ "checkingTime" \in Transit(g) <=> g \in slot[r] \/ at[r] \in Transit(g)
      BY <1>1, <2>2, <3>1, <3>2 DEF Transit, Gates
    <3>6. count' \in [Keys -> Int] BY <2>3 DEF SharedTypes
    <3> QED BY <2>2, <2>3, <3>3, <3>4, <3>5, <3>6, StillStep
  <2> QED BY <1>2, <2>1, <2>2, <2>3 DEF Gates
<1> QED BY <1>3, <1>4, <1>5, <1>6, <1>7

\* A request that gives counts back and repairs a gate no longer counts there,
\* whatever the counter has become.
LEMMA RepairingStep ==
    ASSUME SharedTypes, StationInv, NEW r \in Requests, NEW k \in Gates, k = NextGate(r), k \in slot[r],
           NEW p \in {"releasing", "repairing", "resetting"}, NEW s \in SUBSET Gates,
           at[r] \in {"releasing", "repairing", "resetting"},
           Await(r, p), slot' = [slot EXCEPT ![r] = s] \/ (slot' = slot /\ s = slot[r]),
           s = IF p = "releasing" THEN slot[r] \ {k} ELSE slot[r],
           pc' = pc, faults' \in Nat, faults' > 0, faults' >= faults,
           resets \subseteq resets', resets' \subseteq Gates,
           count' \in [Keys -> Int], \A g \in Gates \ {k} : count'[g] = count[g],
           k \in resets' \/ count'[k] >= count[k] - One(at[r] = "releasing")
    PROVE  SharedStep(r)
<1>1. p \in Stations BY DEF Stations
<1>2. at'[r] = p /\ slot'[r] = s /\ Only(r)
      /\ at' \in [Requests -> Stations] /\ slot' \in [Requests -> SUBSET Gates]
  BY <1>1, Moved
<1>3. SharedTypes' BY <1>2 DEF SharedTypes
<1>4. AtStation(r)' BY <1>2 DEF AtStation, Fits
<1>5. ASSUME NEW g \in Gates PROVE Balanced(r, g)
  <2>1. at[r] \notin Transit(g) /\ p \notin Transit(g) BY DEF Transit
  <2>2. GivingUp(r, g) <=> at[r] # "releasing" /\ g = k BY DEF GivingUp
  <2>3. GivingUp(r, g)' <=> p # "releasing" /\ g = k BY <1>2 DEF GivingUp, NextGate
  <2>4. r \in Units(g) <=> g \in slot[r] /\ ~(at[r] # "releasing" /\ g = k)
    BY <2>1, <2>2, UnitOf
  <2>5. r \in Units(g)' <=> g \in s /\ ~(p # "releasing" /\ g = k)
    BY <1>2, <2>1, <2>3, UnitOf
  <2>6. count[g] \in Int /\ count'[g] \in Int BY DEF SharedTypes, Keys
  <2>7. CASE g = k /\ k \notin resets'
    <3>1. One(r \in Units(g)') = 0
      BY <2>5, <2>7 DEF One
    <3>2. One(r \in Units(g)) = One(at[r] = "releasing")
      <4>1. r \in Units(g) <=> at[r] = "releasing" BY <2>4, <2>7
      <4> QED BY <4>1 DEF One
    <3>3. One(at[r] = "releasing") \in Int BY DEF One
    <3>4. count'[g] >= count[g] - One(at[r] = "releasing") BY <2>7
    <3>5. count'[g] >= count[g] + (One(r \in Units(g)') - One(r \in Units(g)))
      BY <2>6, <3>1, <3>2, <3>3, <3>4
    <3> QED BY <3>5 DEF Balanced
  <2>8. CASE g = k /\ k \in resets' BY <2>8 DEF Balanced
  <2>9. CASE g # k
    <3>1. r \in Units(g)' <=> r \in Units(g) BY <2>4, <2>5, <2>9
    <3>2. One(r \in Units(g)') = One(r \in Units(g)) /\ One(r \in Units(g)) \in Int
      BY <3>1 DEF One
    <3>3. count'[g] = count[g] BY <2>9
    <3>4. count'[g] >= count[g] + (One(r \in Units(g)') - One(r \in Units(g)))
      BY <2>6, <3>2, <3>3
    <3> QED BY <3>4 DEF Balanced
  <2> QED BY <2>7, <2>8, <2>9
<1>6. Granted(r) BY <1>2 DEF Granted
<1> QED BY <1>2, <1>3, <1>4, <1>5, <1>6 DEF SharedStep

LEMMA GiveBackStep ==
    ASSUME Handled, SharedTypes, StationInv, NEW r \in Requests, GiveBack(r) \/ Repair(r) \/ Reset(r)
    PROVE  SharedStep(r)
<1>0. /\ AtStation(r) /\ slot[r] \in SUBSET Gates
      /\ at[r] \in {"releasing", "repairing", "resetting"}
      /\ faults \in Nat /\ resets \subseteq Gates /\ count \in [Keys -> Int]
  BY Stays DEF StationInv, GiveBack, Repair, Reset, SharedTypes
<1>1. slot[r] # {} /\ (at[r] # "releasing" => faults > 0)
  BY <1>0 DEF GiveBack, Repair, Reset, AtStation, Fits
<1>2. PICK k \in Gates : k = NextGate(r) /\ k \in slot[r] BY <1>0, <1>1 DEF NextGate, Gates
<1>3. PICK z \in SUBSET Gates : z = slot[r] \ {k} BY <1>0
<1>4. PICK s \in SUBSET Gates : s = slot[r] BY <1>0
<1>5. k \in Keys /\ -1 \in Int BY DEF Keys
<1>6. count' = Added(k, -1) =>
          /\ count' \in [Keys -> Int] /\ \A g \in Gates \ {k} : count'[g] = count[g]
          /\ count'[k] = count[k] - 1
  <2> SUFFICES ASSUME count' = Added(k, -1)
               PROVE  /\ count' \in [Keys -> Int] /\ \A g \in Gates \ {k} : count'[g] = count[g]
                      /\ count'[k] = count[k] - 1
    OBVIOUS
  <2>1. /\ count' \in [Keys -> Int] /\ \A g \in Keys \ {k} : count'[g] = count[g]
        /\ count'[k] = count[k] + (-1)
    BY <1>5, Changed
  <2>2. count[k] \in Int BY <1>0, <1>5
  <2> QED BY <2>1, <2>2 DEF Keys
<1>7. CASE GiveBack(r)
  <2>1. at[r] = "releasing" BY <1>7 DEF GiveBack
  <2>2. One(at[r] = "releasing") = 1 /\ count[k] \in Int BY <1>0, <1>5, <2>1 DEF One
  <2>3. \/ /\ count' = Added(k, -1) /\ slot' = [slot EXCEPT ![r] = z]
           /\ UNCHANGED <<at, pc, faults, resets>>
        \/ /\ count' = count \/ count' = Added(k, -1)
           /\ faults' = faults + 1 /\ UNCHANGED <<slot, pc, resets>> /\ Await(r, "repairing")
    BY <1>2, <1>3, <1>7 DEF Handled, GiveBack, Decr, Forgets, Raises, vars, memoryVars
  <2>4. CASE count' = Added(k, -1) /\ slot' = [slot EXCEPT ![r] = z] /\ UNCHANGED <<at, pc, faults, resets>>
    <3>1. Await(r, "releasing") BY <2>1, <2>4 DEF Await, SharedTypes
    <3>2. "releasing" \in Stations /\ Fits("releasing", z, pc[r] = "outside", faults > 0)
      BY DEF Stations, Fits
    <3>3. /\ k \in z \/ "releasing" \in Transit(k) <=> -1 = 1
          /\ k \in slot[r] \/ at[r] \in Transit(k) <=> -1 = -1
          /\ \A g \in Gates \ {k} :
                 g \in z \/ "releasing" \in Transit(g) <=> g \in slot[r] \/ at[r] \in Transit(g)
      BY <1>2, <1>3, <2>1 DEF Transit
    <3>4. at[r] \notin {"repairing", "resetting"} /\ -1 \in {1, -1} BY <2>1
    <3> QED BY <2>4, <3>1, <3>2, <3>3, <3>4, CountingStep
  <2>5. CASE /\ count' = count \/ count' = Added(k, -1)
             /\ faults' = faults + 1 /\ UNCHANGED <<slot, pc, resets>> /\ Await(r, "repairing")
    <3>1. count' \in [Keys -> Int] /\ \A g \in Gates \ {k} : count'[g] = count[g]
      BY <1>0, <1>6, <2>5
    <3>2. count'[k] >= count[k] - One(at[r] = "releasing")
      BY <1>6, <2>2, <2>5
    <3>3. faults' \in Nat /\ faults' > 0 /\ faults' >= faults BY <1>0, <2>5
    <3>4. resets \subseteq resets' /\ resets' \subseteq Gates BY <1>0, <2>5
    <3> QED BY <1>2, <1>4, <2>1, <2>5, <3>1, <3>2, <3>3, <3>4, RepairingStep
  <2> QED BY <2>3, <2>4, <2>5
<1>8. CASE Repair(r)
  <2>1. at[r] = "repairing" /\ count' = count /\ resets' = resets /\ pc' = pc
    BY <1>8 DEF Repair, RepairFails, vars, memoryVars
  <2>2. /\ faults' \in Nat /\ faults' > 0 /\ faults' >= faults
        /\ \/ Await(r, "resetting") /\ slot' = slot
           \/ Await(r, "releasing") /\ slot' = [slot EXCEPT ![r] = z]
    <3>1. faults' = faults \/ faults' = faults + 1 BY <1>8 DEF Repair, RepairFails
    <3>2. \/ Await(r, "resetting") /\ slot' = slot
          \/ Await(r, "releasing") /\ slot' = [slot EXCEPT ![r] = z]
      BY <1>2, <1>3, <1>8 DEF Repair, RepairFails, Release, Forgets
    <3> QED BY <1>0, <1>1, <2>1, <3>1, <3>2
  <2>3. /\ count' \in [Keys -> Int] /\ \A g \in Gates \ {k} : count'[g] = count[g]
        /\ count'[k] >= count[k] - One(at[r] = "releasing")
    <3>1. One(at[r] = "releasing") = 0 /\ count[k] \in Int BY <1>0, <1>5, <2>1 DEF One
    <3> QED BY <1>0, <2>1, <3>1
  <2>4. resets \subseteq resets' /\ resets' \subseteq Gates BY <1>0, <2>1
  <2> QED BY <1>2, <1>3, <1>4, <2>1, <2>2, <2>3, <2>4, RepairingStep
<1>9. CASE Reset(r)
  <2>1. at[r] = "resetting" /\ resets' = resets \cup {k} /\ pc' = pc
    BY <1>2, <1>9 DEF Reset, vars, memoryVars
  <2>2. Await(r, "releasing") /\ slot' = [slot EXCEPT ![r] = z]
    BY <1>2, <1>3, <1>9 DEF Reset, RepairFails, Release, Forgets
  <2>3. faults' \in Nat /\ faults' > 0 /\ faults' >= faults
    <3>1. faults' = faults \/ faults' = faults + 1 BY <1>9 DEF Reset, RepairFails
    <3> QED BY <1>0, <1>1, <2>1, <3>1
  <2>4. count' \in [Keys -> Int] /\ \A g \in Gates \ {k} : count'[g] = count[g]
    <3>1. count' = count \/ count' = [count EXCEPT ![k] = 0]
      BY <1>2, <1>9 DEF Reset, RepairFails
    <3> QED BY <1>0, <1>5, <3>1 DEF Keys
  <2>5. resets \subseteq resets' /\ resets' \subseteq Gates /\ k \in resets' BY <1>0, <2>1
  <2> QED BY <1>2, <1>3, <2>1, <2>2, <2>3, <2>4, <2>5, RepairingStep
<1> QED BY <1>7, <1>8, <1>9

\* The request takes back a count that was one too many.
LEMMA UncountStep ==
    ASSUME Handled, SharedTypes, StationInv, NEW r \in Requests, Overshoot(r) \/ QueueFull(r)
    PROVE  SharedStep(r)
<1>0. AtStation(r) /\ slot[r] \in SUBSET Gates BY Stays DEF StationInv
<1>1. PICK s \in SUBSET Gates : s = slot[r] BY <1>0
<1>2. ASSUME NEW k \in Gates, NEW p \in {"checkingTime", "joining", "releasing"}, at[r] \in Transit(k),
             at[r] \in {"overshot", "queueFull"}, k \notin slot[r],
             p = "checkingTime" => s = {"waiting"}, p = "joining" => s = {},
             \/ Await(r, p) /\ count' = Added(k, -1) /\ UNCHANGED <<slot, pc, faults, resets>>
             \/ Degrades(r) /\ (count' = count \/ count' = Added(k, -1))
      PROVE  SharedStep(r)
  <2>1. CASE Degrades(r) /\ (count' = count \/ count' = Added(k, -1))
    <3>1. k \in Keys /\ -1 \in {1, -1} BY DEF Keys
    <3> QED BY <1>2, <2>1, <3>1, RaisesStep
  <2>2. CASE Await(r, p) /\ count' = Added(k, -1) /\ UNCHANGED <<slot, pc, faults, resets>>
    <3>1. p \in Stations /\ Fits(p, s, pc[r] = "outside", faults > 0)
      BY <1>0, <1>2 DEF Stations, AtStation, Fits
    <3>2. /\ k \in s \/ p \in Transit(k) <=> -1 = 1
          /\ k \in slot[r] \/ at[r] \in Transit(k) <=> -1 = -1
          /\ \A g \in Gates \ {k} : g \in s \/ p \in Transit(g) <=> g \in slot[r] \/ at[r] \in Transit(g)
      BY <1>1, <1>2 DEF Transit, Gates
    <3>3. /\ at[r] \notin {"repairing", "resetting"} /\ -1 \in {1, -1}
          /\ p \notin {"repairing", "resetting", "inflightTtl", "admitted"}
      BY <1>2
    <3> QED BY <1>1, <2>2, <3>1, <3>2, <3>3, CountingStep
  <2> QED BY <1>2, <2>1, <2>2
<1>3. CASE Overshoot(r)
  <2>1. \/ /\ count' = Added("inflight", -1) /\ UNCHANGED <<slot, pc, faults, resets>>
           /\ Await(r, IF "waiting" \in slot[r] THEN "checkingTime" ELSE "joining")
        \/ Degrades(r) /\ (count' = count \/ count' = Added("inflight", -1))
    BY <1>3 DEF Handled, Overshoot, Decr, RaisesIn, Raises, GivesUpOnRedis, Degrades, vars, memoryVars
  <2>2. at[r] = "overshot" /\ at[r] \in Transit("inflight") BY <1>3 DEF Overshoot, Transit
  <2>3. "inflight" \notin slot[r] BY <1>0, <2>2 DEF AtStation, Fits
  <2>4. CASE "waiting" \in slot[r]
    <3>1. s = {"waiting"} BY <1>0, <1>1, <2>3, <2>4 DEF Gates
    <3> QED BY <1>2, <2>1, <2>2, <2>3, <2>4, <3>1 DEF Gates
  <2>5. CASE "waiting" \notin slot[r]
    <3>1. s = {} BY <1>0, <1>1, <2>3, <2>5 DEF Gates
    <3> QED BY <1>2, <2>1, <2>2, <2>3, <2>5, <3>1 DEF Gates
  <2> QED BY <2>4, <2>5
<1>4. CASE QueueFull(r)
  <2>1. \/ count' = Added("waiting", -1) /\ UNCHANGED <<slot, pc, faults, resets>> /\ Await(r, "releasing")
        \/ Degrades(r) /\ (count' = count \/ count' = Added("waiting", -1))
    BY <1>4 DEF Handled, QueueFull, Decr, Leaves, Release, RaisesIn, Raises, GivesUpOnRedis, Degrades, vars,
                memoryVars
  <2>2. at[r] = "queueFull" /\ at[r] \in Transit("waiting") BY <1>4 DEF QueueFull, Transit
  <2>3. "waiting" \notin slot[r] BY <1>0, <2>2 DEF AtStation, Fits
  <2> QED BY <1>2, <2>1, <2>2, <2>3 DEF Gates
<1> QED BY <1>3, <1>4

\* Steps that send Redis no command.
LEMMA QuietStep ==
    ASSUME SharedTypes, StationInv, NEW r \in Requests,
           Poll(r) \/ Admitted(r) \/ DegradedEnds(r) \/ Gone(r)
    PROVE  SharedStep(r)
<1>0. AtStation(r) /\ slot[r] \in SUBSET Gates BY Stays DEF StationInv
<1>1. PICK s \in SUBSET Gates : s = slot[r] BY <1>0
<1>2. PICK p \in {"probing", "releasing", "gone"} :
          /\ Await(r, p) /\ UNCHANGED <<slot, count, faults, resets, pc>>
          /\ p = "probing" => at[r] = "checkingTime"
          /\ p = "gone" => s = {}
          /\ at[r] \in {"checkingTime", "admitted", "degraded", "releasing"}
  BY <1>1 DEF Poll, Admitted, DegradedEnds, Gone, Leaves, Release, sharedVars, vars, memoryVars
<1>3. p \in Stations /\ Fits(p, s, pc[r] = "outside", faults > 0)
  BY <1>0, <1>1, <1>2 DEF Stations, AtStation, Fits
<1>4. \A g \in Gates : g \in s \/ p \in Transit(g) <=> g \in slot[r] \/ at[r] \in Transit(g)
  BY <1>1, <1>2 DEF Transit
<1>5. count' \in [Keys -> Int] /\ \A g \in Gates : count'[g] = count[g]
  BY <1>2 DEF SharedTypes
<1>6. /\ p \notin {"inflightTtl", "admitted", "repairing", "resetting"}
      /\ at[r] \notin {"repairing", "resetting"}
  BY <1>2
<1> QED BY <1>1, <1>2, <1>3, <1>4, <1>5, <1>6, StillStep

LEMMA InMemoryStep ==
    ASSUME SharedTypes, StationInv, NEW r \in Requests, MemoryStep(r)
    PROVE  SharedStep(r)
<1>1. AtStation(r) /\ at[r] = "degraded" /\ faults > 0
  BY DEF MemoryStep, StationInv, AtStation, Fits
<1>2. /\ at' = at /\ slot' = slot /\ count' = count /\ faults' = faults /\ resets' = resets
      /\ \A q \in Requests \ {r} : pc'[q] = pc[q]
  <2>1. PICK w : Goto(r, w) BY MemoryMoves DEF MemoryStep
  <2> QED BY <2>1 DEF MemoryStep, sharedVars, Goto
<1>3. SharedTypes' /\ Only(r) /\ Granted(r) BY <1>2 DEF SharedTypes, Only, Granted
<1>4. AtStation(r)' BY <1>1, <1>2 DEF AtStation, Fits
<1>5. ASSUME NEW g \in Gates PROVE Balanced(r, g)
  <2>1. r \in Units(g)' <=> r \in Units(g) BY <1>2, UnitOf DEF GivingUp, NextGate
  <2>2. One(r \in Units(g)') = One(r \in Units(g)) /\ One(r \in Units(g)) \in Int BY <2>1 DEF One
  <2>3. count[g] \in Int BY DEF SharedTypes, Keys
  <2>4. count'[g] = count[g] + (One(r \in Units(g)') - One(r \in Units(g))) BY <1>2, <2>2, <2>3
  <2> QED BY <1>2, <2>4 DEF Balanced
<1>6. resets \subseteq resets' /\ faults' >= faults BY <1>2 DEF SharedTypes
<1> QED BY <1>3, <1>4, <1>5, <1>6 DEF SharedStep

LEMMA RequestStep ==
    ASSUME Handled, SharedTypes, StationInv, NEW r \in Requests, RedisStep(r)
    PROVE  SharedStep(r)
BY RateStep, ClaimStep, GiveBackStep, UncountStep, QuietStep, InMemoryStep DEF RedisStep

-----------------------------------------------------------------------------
(* The in-memory guard, which a request enters once and from outside.      *)

MemoryInv == TypeOK /\ PermitsConserved /\ CountersTrue

LEMMA EntersMemory ==
    ASSUME MemoryInv, NEW r \in Requests, pc[r] = "outside", Goto(r, "arriving"),
           UNCHANGED <<permits, waiting, inflight, queued, recorded, outcome>>
    PROVE  MemoryInv'
<1>1. pc \in [Requests -> Places] /\ pc' = [pc EXCEPT ![r] = "arriving"]
  BY DEF MemoryInv, TypeOK, Goto
<1>2. TypeOK' BY <1>1 DEF MemoryInv, TypeOK, Places
<1>3. ASSUME NEW places, "outside" \notin places, "arriving" \notin places
      PROVE  At(places)' = At(places)
  <2>1. \A q \in Requests : pc'[q] \in places <=> pc[q] \in places BY <1>1, <1>3
  <2> QED BY <2>1 DEF At
<1>4. /\ Holders' = Holders
      /\ At({"running", "leaving"})' = At({"running", "leaving"})
      /\ At({"blocking", "unqueueing"})' = At({"blocking", "unqueueing"})
      /\ At({"entering"})' = At({"entering"})
  BY <1>3 DEF Holders
<1> QED BY <1>2, <1>4 DEF MemoryInv, PermitsConserved, CountersTrue

LEMMA TellsOnly ==
    ASSUME MemoryInv, NEW r \in Requests, NEW what \in Refusals \cup {"admitted"}, Tell(r, what),
           UNCHANGED memoryVars
    PROVE  MemoryInv'
<1>1. TypeOK' BY DEF MemoryInv, TypeOK, Tell, memoryVars
<1> QED BY <1>1, StillThreads DEF MemoryInv, memoryVars

LEMMA MemoryEffects ==
    ASSUME Handled, NEW r \in Requests, RedisStep(r)
    PROVE  \/ UNCHANGED vars
           \/ UNCHANGED memoryVars /\ \E what \in Refusals \cup {"admitted"} : Tell(r, what)
           \/ /\ at[r] \notin {"degraded", "releasing", "repairing", "resetting", "gone"}
              /\ Goto(r, "arriving")
              /\ UNCHANGED <<permits, waiting, inflight, queued, recorded, outcome>>
           \/ Step(r)
<1>1. CASE RateIncr(r) \/ RateExpire(r) \/ NoClient(r)
  BY <1>1 DEF Handled, RateIncr, RateExpire, NoClient, Leaves, RaisesIn, GivesUpOnRedis, Refusals
<1>2. CASE Probe(r) \/ ProbeExpire(r)
  BY <1>2 DEF Handled, Probe, ProbeExpire, Claim, ClaimExpire, RaisesIn, GivesUpOnRedis
<1>3. CASE Join(r) \/ JoinExpire(r)
  BY <1>3 DEF Handled, Join, JoinExpire, Claim, ClaimExpire, Leaves, RaisesIn, GivesUpOnRedis, Refusals
<1>4. CASE Overshoot(r) \/ QueueFull(r)
  BY <1>4 DEF Handled, Overshoot, QueueFull, Leaves, RaisesIn, GivesUpOnRedis, Refusals
<1>5. CASE Poll(r) \/ Admitted(r) \/ DegradedEnds(r) \/ Gone(r) \/ MemoryStep(r)
  BY <1>5 DEF Poll, Admitted, DegradedEnds, Gone, MemoryStep, Leaves, Refusals
<1>6. CASE GiveBack(r) \/ Repair(r) \/ Reset(r)
  BY <1>6 DEF Handled, GiveBack, Repair, Reset
<1> QED BY <1>1, <1>2, <1>3, <1>4, <1>5, <1>6 DEF RedisStep

LEMMA MemoryKept ==
    ASSUME Handled, SharedTypes, StationInv, MemoryInv, NEW r \in Requests, RedisStep(r)
    PROVE  MemoryInv'
<1>1. CASE UNCHANGED vars
  BY <1>1, StillThreads DEF MemoryInv, vars, memoryVars, TypeOK
<1>2. CASE UNCHANGED memoryVars /\ \E what \in Refusals \cup {"admitted"} : Tell(r, what)
  BY <1>2, TellsOnly
<1>3. CASE /\ at[r] \notin {"degraded", "releasing", "repairing", "resetting", "gone"}
           /\ Goto(r, "arriving")
           /\ UNCHANGED <<permits, waiting, inflight, queued, recorded, outcome>>
  <2>1. pc[r] = "outside" BY <1>3 DEF StationInv, AtStation, Fits
  <2> QED BY <1>3, <2>1, EntersMemory
<1>4. CASE Step(r)
  <2>1. Next BY <1>4 DEF Next
  <2>2. TypeOK' BY <2>1, TypeStep DEF MemoryInv
  <2>3. PermitsConserved' BY <1>4, PermitsStep DEF MemoryInv
  <2>4. inflight' = Cardinality(At({"running", "leaving"})')
    BY <1>4, InflightStep DEF MemoryInv, InflightPlaces
  <2>5. CountersTrue' BY <1>4, <2>4, QueuedStep DEF MemoryInv, CountersTrue
  <2> QED BY <2>2, <2>3, <2>5 DEF MemoryInv
<1> QED BY <1>1, <1>2, <1>3, <1>4, MemoryEffects

-----------------------------------------------------------------------------
(* The invariant.                                                          *)

\* The slots on Redis are bounded until a repair resets their counter.
SlotsBounded == "inflight" \notin resets => Cardinality(SlotHolders) <= MaxConcurrent

RedisInv == SharedTypes /\ StationInv /\ CountsTrue /\ SlotsBounded /\ MemoryInv

\* A request that holds a slot is counted.
HoldersAreCounted ==
    /\ SlotHolders \subseteq Units("inflight")
    /\ IsFiniteSet(SlotHolders) /\ Cardinality(SlotHolders) \in Nat
    /\ Cardinality(SlotHolders) <= Cardinality(Units("inflight"))
    /\ Cardinality(Units("inflight")) \in Nat

LEMMA HoldersCounted == SharedTypes /\ StationInv => HoldersAreCounted
<1> SUFFICES ASSUME SharedTypes, StationInv PROVE HoldersAreCounted OBVIOUS
<1>1. SlotHolders \subseteq Units("inflight")
  <2> SUFFICES ASSUME NEW r \in Requests, at[r] \in {"inflightTtl", "admitted"}
               PROVE  r \in Units("inflight")
    BY DEF SlotHolders, Waits
  <2>1. AtStation(r) BY DEF StationInv
  <2> QED BY <2>1 DEF AtStation, Fits, Units, Waits, GivingUp
<1>2. SlotHolders \subseteq Requests /\ Units("inflight") \subseteq Requests
  BY DEF SlotHolders, Units, Waits
<1>3. IsFiniteSet(SlotHolders) /\ IsFiniteSet(Units("inflight"))
  BY <1>2, FS_Subset
<1> QED BY <1>1, <1>3, FS_CardinalityType, FS_Subset DEF HoldersAreCounted

LEMMA SlotsStep ==
    ASSUME SharedTypes, StationInv, SharedTypes', StationInv', CountsTrue', SlotsBounded,
           NEW r \in Requests, Only(r), Granted(r), resets \subseteq resets'
    PROVE  SlotsBounded'
<1> SUFFICES ASSUME "inflight" \notin resets'
             PROVE  Cardinality(SlotHolders') <= MaxConcurrent
  BY DEF SlotsBounded
<1>0. SharedTypes' /\ StationInv' => HoldersAreCounted'
  BY HoldersCounted, PTL
<1>1. /\ SlotHolders' \subseteq Units("inflight")' /\ IsFiniteSet(SlotHolders')
      /\ Cardinality(SlotHolders') \in Nat
      /\ Cardinality(SlotHolders') <= Cardinality(Units("inflight")')
      /\ Cardinality(Units("inflight")') \in Nat
  BY <1>0 DEF HoldersAreCounted
<1>2. IsFiniteSet(SlotHolders) /\ Cardinality(SlotHolders) \in Nat
      /\ Cardinality(SlotHolders) <= MaxConcurrent
  BY HoldersCounted DEF HoldersAreCounted, SlotsBounded
<1>3. CASE SlotHolders' \subseteq SlotHolders
  <2>1. Cardinality(SlotHolders') <= Cardinality(SlotHolders) BY <1>2, <1>3, FS_Subset
  <2> QED BY <1>1, <1>2, <2>1
<1>4. CASE ~(SlotHolders' \subseteq SlotHolders)
  <2>1. at'[r] \in {"inflightTtl", "admitted"} /\ at[r] \notin {"inflightTtl", "admitted"}
    BY <1>4 DEF SlotHolders, Waits, Only
  <2>2. count'["inflight"] <= MaxConcurrent BY <2>1 DEF Granted
  <2>3. count'["inflight"] >= Cardinality(Units("inflight")') BY DEF CountsTrue, Gates
  <2>4. count'["inflight"] \in Int BY DEF SharedTypes, Keys, Gates
  <2> QED BY <1>1, <2>2, <2>3, <2>4
<1> QED BY <1>3, <1>4

LEMMA StationsStep ==
    ASSUME SharedTypes, StationInv, NEW r \in Requests, SharedStep(r)
    PROVE  StationInv'
<1> SUFFICES ASSUME NEW q \in Requests PROVE AtStation(q)' BY DEF StationInv
<1>1. CASE q = r BY <1>1 DEF SharedStep
<1>2. CASE q # r
  <2>1. at'[q] = at[q] /\ slot'[q] = slot[q] /\ pc'[q] = pc[q] BY <1>2 DEF SharedStep, Only
  <2>2. faults > 0 => faults' > 0 BY DEF SharedStep, SharedTypes
  <2>3. AtStation(q) BY DEF StationInv
  <2> QED BY <2>1, <2>2, <2>3 DEF AtStation, Fits
<1> QED BY <1>1, <1>2

LEMMA RedisStart == RedisInit => RedisInv
<1> SUFFICES ASSUME RedisInit PROVE RedisInv OBVIOUS
<1>1. SharedTypes BY DEF RedisInit, SharedTypes, Stations
<1>2. StationInv BY DEF RedisInit, InitialGuard, StationInv, AtStation, Fits
<1>3. Cardinality({}) = 0 BY FS_EmptySet
<1>4. ASSUME NEW gate \in Gates PROVE Units(gate) = {}
  BY <1>4 DEF RedisInit, Units, Waits, Gates
<1>5. CountsTrue BY <1>3, <1>4 DEF CountsTrue, RedisInit, Keys
<1>6. SlotsBounded
  <2>1. SlotHolders = {} BY DEF RedisInit, SlotHolders, Waits
  <2> QED BY <1>3, <2>1 DEF SlotsBounded
<1>7. TypeOK BY DEF RedisInit, InitialGuard, TypeOK, Places
<1>8. \A places : "outside" \notin places => At(places) = {}
  BY DEF RedisInit, InitialGuard, At
<1>9. Holders = {} BY <1>8 DEF Holders
<1>10. PermitsConserved BY <1>3, <1>9 DEF PermitsConserved, RedisInit, InitialGuard
<1>11. CountersTrue BY <1>3, <1>8 DEF CountersTrue, RedisInit, InitialGuard
<1> QED BY <1>1, <1>2, <1>5, <1>6, <1>7, <1>10, <1>11 DEF RedisInv, MemoryInv

\* A key that expires is not a gate's, and the gates are all that is counted.
LEMMA ExpiryKeeps ==
    ASSUME Handled, RedisInv, NEW k \in Keys, KeyExpires(k)
    PROVE  RedisInv'
<1>1. k \in Users /\ k \notin Gates BY RedisAssumption DEF Handled, KeyExpires
<1>2. /\ at' = at /\ slot' = slot /\ faults' = faults /\ resets' = resets /\ UNCHANGED vars
      /\ count' = [count EXCEPT ![k] = 0] /\ count \in [Keys -> Int]
  BY DEF KeyExpires, RedisInv, SharedTypes
<1>3. count' \in [Keys -> Int] /\ \A g \in Gates : count'[g] = count[g]
  BY <1>1, <1>2 DEF Keys
<1>4. SharedTypes' /\ StationInv'
  BY <1>2, <1>3 DEF RedisInv, SharedTypes, StationInv, AtStation, vars, memoryVars
<1>5. \A g \in Gates : Units(g)' = Units(g)
  BY <1>2 DEF Units, Waits, GivingUp, NextGate
<1>6. CountsTrue' BY <1>2, <1>3, <1>5 DEF RedisInv, CountsTrue
<1>7. SlotsBounded' BY <1>2 DEF RedisInv, SlotsBounded, SlotHolders, Waits
<1>8. MemoryInv'
  BY <1>2, StillThreads DEF RedisInv, MemoryInv, vars, memoryVars, TypeOK
<1> QED BY <1>4, <1>6, <1>7, <1>8 DEF RedisInv

LEMMA RedisInductive == ASSUME Handled PROVE RedisInv /\ [RedisNext]_allVars => RedisInv'
<1> SUFFICES ASSUME RedisInv, [RedisNext]_allVars PROVE RedisInv' OBVIOUS
<1>1. ASSUME NEW r \in Requests, RedisStep(r) PROVE RedisInv'
  <2>1. SharedStep(r) BY <1>1, RequestStep DEF RedisInv
  <2>2. StationInv' BY <2>1, StationsStep DEF RedisInv
  <2>3. CountsTrue' BY <2>1, CountsStep DEF RedisInv, SharedStep
  <2>4. SlotsBounded' BY <2>1, <2>2, <2>3, SlotsStep DEF RedisInv, SharedStep
  <2>5. MemoryInv' BY <1>1, MemoryKept DEF RedisInv
  <2> QED BY <2>1, <2>2, <2>3, <2>4, <2>5 DEF RedisInv, SharedStep
<1>2. CASE UNCHANGED allVars
  <2>1. SharedTypes' /\ StationInv' /\ CountsTrue' /\ SlotsBounded'
    BY <1>2 DEF RedisInv, allVars, sharedVars, vars, memoryVars, SharedTypes, StationInv, AtStation,
                CountsTrue, Units, Waits, GivingUp, NextGate, SlotsBounded, SlotHolders
  <2>2. MemoryInv'
    BY <1>2, StillThreads DEF RedisInv, MemoryInv, allVars, vars, memoryVars, TypeOK
  <2> QED BY <2>1, <2>2 DEF RedisInv
<1> QED BY <1>1, <1>2, ExpiryKeeps DEF RedisNext, RedisEnded

-----------------------------------------------------------------------------
\* Every request accounts for its unit of a gate's counter, and the counter for
\* its requests, however their commands interleave; a command that raises leaves
\* it too high at most, until a repair sets it to zero.
THEOREM CountersCount == ASSUME Handled PROVE RedisSpec => []CountsTrue
<1>1. RedisInv => CountsTrue BY DEF RedisInv
<1> QED BY <1>1, RedisStart, RedisInductive, PTL DEF RedisSpec

\* The cluster runs at most MaxConcurrent requests on Redis slots until a repair
\* resets their counter, and every worker's own guard keeps its bound always.
THEOREM ConcurrencyIsBounded == ASSUME Handled PROVE RedisSpec => []BoundedConcurrency
<1>1. RedisInv => BoundedConcurrency
  <2> SUFFICES ASSUME RedisInv PROVE Cardinality(Holders) <= MaxConcurrent
    BY DEF RedisInv, SlotsBounded, BoundedConcurrency
  <2>1. IsFiniteSet(Holders) BY FS_Subset DEF Holders, At
  <2>2. Cardinality(Holders) \in Nat BY <2>1, FS_CardinalityType
  <2> QED BY <2>2 DEF RedisInv, MemoryInv, TypeOK, PermitsConserved
<1> QED BY <1>1, RedisStart, RedisInductive, PTL DEF RedisSpec

\* No request fails because a command of its own or of the repair did.
THEOREM RequestsSurvive == ASSUME Handled PROVE RedisSpec => []NoRequestFails
<1>1. RedisInv => NoRequestFails
  BY DEF RedisInv, MemoryInv, TypeOK, Refusals, NoRequestFails
<1> QED BY <1>1, RedisStart, RedisInductive, PTL DEF RedisSpec

-----------------------------------------------------------------------------
(* The rate of a user.                                                     *)

\* The counter of a user is at least what it has let through.
RateInv ==
    /\ count \in [Keys -> Int] /\ passed \in [Users -> Nat]
    /\ \A u \in Users : passed[u] <= count[u] /\ passed[u] <= MaxPerUser

LEMMA RateKept ==
    ASSUME RateInv, passed' = passed, NEW g \in Gates,
           \/ count' = count
           \/ \E n \in {1, -1} : count' = Added(g, n)
           \/ count' = [count EXCEPT ![g] = 0]
    PROVE  RateInv'
<1>1. g \in Keys /\ g \notin Users BY RedisAssumption DEF Keys
<1>2. count \in [Keys -> Int] /\ count[g] \in Int BY <1>1 DEF RateInv
<1>3. count' \in [Keys -> Int] /\ \A u \in Users : count'[u] = count[u]
  BY <1>1, <1>2 DEF Added, Keys
<1> QED BY <1>3 DEF RateInv

LEMMA RateCounted ==
    ASSUME RateInv, NEW r \in Requests, RateIncr(r)
    PROVE  RateInv'
<1> DEFINE u == UserOf[r]
<1>1. u \in Users /\ u \in Keys BY DEF Keys
<1>2. count \in [Keys -> Int] /\ passed \in [Users -> Nat] /\ passed[u] \in Nat /\ count[u] \in Int
      /\ passed[u] <= count[u] /\ passed[u] <= MaxPerUser
  BY <1>1 DEF RateInv
<1>3. \/ count' = [count EXCEPT ![u] = count[u] + 1] /\ passed' = passed
      \/ /\ count' = [count EXCEPT ![u] = count[u] + 1] /\ count[u] + 1 <= MaxPerUser
         /\ passed' = [passed EXCEPT ![u] = passed[u] + 1]
      \/ count' = count /\ passed' = passed
  <2>1. \/ count' = Added(u, 1) /\ (IF count[u] + 1 > MaxPerUser
                                     THEN passed' = passed
                                     ELSE passed' = [passed EXCEPT ![u] = @ + 1])
        \/ (count' = count \/ count' = Added(u, 1)) /\ passed' = passed
    BY DEF RateIncr, Incr, RaisesIn, Raises
  <2>2. Added(u, 1) = [count EXCEPT ![u] = count[u] + 1]
    BY DEF Added
  <2>3. (count[u] + 1 > MaxPerUser) \/ (count[u] + 1 <= MaxPerUser)
    BY <1>2, LimitsAssumption
  <2>4. [passed EXCEPT ![u] = @ + 1] = [passed EXCEPT ![u] = passed[u] + 1]
    OBVIOUS
  <2> HIDE DEF u
  <2>5. CASE count[u] + 1 > MaxPerUser
    BY <2>1, <2>2, <2>5
  <2>6. CASE ~(count[u] + 1 > MaxPerUser)
    BY <2>1, <2>2, <2>3, <2>4, <2>6
  <2> QED BY <2>5, <2>6
<1>4. count' \in [Keys -> Int] /\ passed' \in [Users -> Nat] BY <1>1, <1>2, <1>3
<1>5. ASSUME NEW v \in Users PROVE passed'[v] <= count'[v] /\ passed'[v] <= MaxPerUser
  <2>0. passed[v] \in Nat /\ count[v] \in Int /\ passed[v] <= count[v] /\ passed[v] <= MaxPerUser
    BY DEF RateInv, Keys
  <2>1. CASE v = u
    <3>1. \/ count'[u] = count[u] + 1 /\ passed'[u] = passed[u]
          \/ count'[u] = count[u] + 1 /\ count[u] + 1 <= MaxPerUser /\ passed'[u] = passed[u] + 1
          \/ count'[u] = count[u] /\ passed'[u] = passed[u]
      BY <1>1, <1>2, <1>3
    <3> HIDE DEF u
    <3> QED BY <1>2, <2>1, <3>1
  <2>2. CASE v # u
    <3>1. count'[v] = count[v] /\ passed'[v] = passed[v]
      BY <1>1, <1>2, <1>3, <2>2 DEF Keys
    <3> QED BY <2>0, <3>1
  <2> QED BY <2>1, <2>2
<1> QED BY <1>4, <1>5 DEF RateInv

LEMMA RateInductive == RateInv /\ [RedisNext]_allVars => RateInv'
<1> SUFFICES ASSUME RateInv, [RedisNext]_allVars PROVE RateInv' OBVIOUS
<1>0. "inflight" \in Gates /\ "waiting" \in Gates /\ \A r : NextGate(r) \in Gates
  BY DEF Gates, NextGate
<1>1. ASSUME passed' = passed, count' = count PROVE RateInv'
  BY <1>1 DEF RateInv
<1>2. ASSUME NEW r \in Requests, RateIncr(r) PROVE RateInv'
  BY <1>2, RateCounted
<1>3. ASSUME NEW r \in Requests, NEW g \in Gates, NEW n \in {1, -1}, passed' = passed,
             count' = count \/ count' = Added(g, n)
      PROVE  RateInv'
  BY <1>3, RateKept
<1>4. ASSUME NEW r \in Requests, Probe(r) \/ Join(r) PROVE RateInv'
  <2>1. PICK g \in Gates : passed' = passed /\ (count' = count \/ count' = Added(g, 1))
    BY <1>0, <1>4 DEF Probe, Join, Claim, Incr, Leaves, sharedVars, RaisesIn, Raises
  <2> QED BY <1>3, <1>4, <2>1
<1>5. ASSUME NEW r \in Requests, Overshoot(r) \/ QueueFull(r) PROVE RateInv'
  <2>1. PICK g \in Gates : passed' = passed /\ (count' = count \/ count' = Added(g, -1))
    BY <1>0, <1>5 DEF Overshoot, QueueFull, Decr, RaisesIn, Raises
  <2> QED BY <1>3, <1>5, <2>1
<1>6. ASSUME NEW r \in Requests, GiveBack(r) PROVE RateInv'
  <2>1. PICK g \in Gates : passed' = passed /\ (count' = count \/ count' = Added(g, -1))
    BY <1>0, <1>6 DEF GiveBack, Decr, Raises
  <2> QED BY <1>3, <1>6, <2>1
<1>7. ASSUME NEW r \in Requests, Reset(r) PROVE RateInv'
  <2>1. PICK g \in Gates : passed' = passed /\ (count' = count \/ count' = [count EXCEPT ![g] = 0])
    BY <1>0, <1>7 DEF Reset, RepairFails
  <2> QED BY <2>1, RateKept
<1>8. ASSUME NEW r \in Requests,
             \/ RateExpire(r) \/ NoClient(r) \/ ProbeExpire(r) \/ JoinExpire(r) \/ Poll(r) \/ Admitted(r)
             \/ MemoryStep(r) \/ DegradedEnds(r) \/ Repair(r) \/ Gone(r)
      PROVE  RateInv'
  <2>1. passed' = passed /\ count' = count
    BY <1>8 DEF RateExpire, NoClient, ProbeExpire, JoinExpire, ClaimExpire, SetTtl, RaisesIn, Raises, Poll,
                Admitted, MemoryStep, DegradedEnds, Repair, RepairFails, Gone, Leaves, sharedVars
  <2> QED BY <1>1, <2>1
<1>9. ASSUME NEW k \in Keys, KeyExpires(k) PROVE RateInv'
  <2>1. /\ count' = [count EXCEPT ![k] = 0] /\ count \in [Keys -> Int] /\ passed \in [Users -> Nat]
        /\ passed' = [u \in Users |-> IF u = k THEN 0 ELSE passed[u]]
    BY <1>9 DEF KeyExpires, RateInv
  <2>2. count' \in [Keys -> Int] /\ passed' \in [Users -> Nat] BY <2>1
  <2>3. ASSUME NEW u \in Users PROVE passed'[u] <= count'[u] /\ passed'[u] <= MaxPerUser
    <3>1. count'[u] = (IF u = k THEN 0 ELSE count[u]) /\ passed'[u] = (IF u = k THEN 0 ELSE passed[u])
      BY <2>1 DEF Keys
    <3>2. passed[u] <= count[u] /\ passed[u] <= MaxPerUser BY DEF RateInv
    <3> QED BY <3>1, <3>2
  <2> QED BY <2>2, <2>3 DEF RateInv
<1>10. CASE UNCHANGED allVars
  BY <1>1, <1>10 DEF allVars, sharedVars
<1> QED
  BY <1>2, <1>4, <1>5, <1>6, <1>7, <1>8, <1>9, <1>10 DEF RedisNext, RedisStep, RedisEnded

\* No window lets more of a user's requests through than its limit, whatever
\* Redis raises: INCR counts a request before it is decided on.
THEOREM RateHolds == RedisSpec => []UserRateHolds
<1>1. RedisInit => RateInv
  BY DEF RedisInit, RateInv, Keys
<1>2. RateInv => UserRateHolds BY DEF RateInv, UserRateHolds
<1> QED BY <1>1, <1>2, RateInductive, PTL DEF RedisSpec

-----------------------------------------------------------------------------
(* Until a command raises, the guard implements AdmissionControl.          *)

\* What the caller has been told, as long as every command was answered.
RedisTold ==
    faults = 0 =>
        \A r \in Requests :
            /\ at[r] \notin {"degraded", "releasing", "repairing", "resetting", "gone"} => outcome[r] = "none"
            /\ at[r] = "releasing" /\ "inflight" \in slot[r] => outcome[r] = "admitted"

RedisPhases == [r \in Requests |-> RedisPhase(r)]

\* The phase of a request at station p that has counted itself in the gates s
\* and whose caller was told o.
PhaseAt(p, s, o) ==
    IF p \in {"inflightTtl", "admitted"} \/ "inflight" \in s THEN "running"
    ELSE IF p \in Undecided
           THEN IF p = "waitingTtl" \/ "waiting" \in s THEN "queued" ELSE "arriving"
    ELSE IF o = "admitted" THEN "served" ELSE "refused"

InPhase(s) == {q \in Requests : RedisPhases[q] = s}

\* The moves the promise allows.
Promised(from, to) ==
    \/ from = to
    \/ from \in {"arriving", "queued"} /\ to = "refused"
    \/ from = "running" /\ to = "served"
    \/ from \in {"arriving", "queued"} /\ to = "running" /\ Cardinality(InPhase("running")) < MaxConcurrent
    \/ from = "arriving" /\ to = "queued" /\ Cardinality(InPhase("queued")) < MaxWaiting

LEMMA PhaseHere == \A r \in Requests : RedisPhases[r] = PhaseAt(at[r], slot[r], outcome[r])
BY DEF RedisPhases, RedisPhase, PhaseAt

\* A request that runs, or queues, has counted itself; so a count below the
\* limit leaves room.
LEMMA Room ==
    ASSUME RedisInv, faults = 0
    PROVE  /\ count["inflight"] < MaxConcurrent => Cardinality(InPhase("running")) < MaxConcurrent
           /\ count["waiting"] < MaxWaiting => Cardinality(InPhase("queued")) < MaxWaiting
<1>1. ASSUME NEW gate \in Gates, NEW S, S \subseteq Units(gate), NEW limit \in Nat, count[gate] < limit
      PROVE  Cardinality(S) < limit
  <2>1. Units(gate) \subseteq Requests BY DEF Units, Waits
  <2>2. IsFiniteSet(Units(gate)) BY <2>1, FS_Subset
  <2>3. IsFiniteSet(S) /\ Cardinality(S) <= Cardinality(Units(gate)) BY <1>1, <2>2, FS_Subset
  <2>4. Cardinality(S) \in Nat /\ Cardinality(Units(gate)) \in Nat BY <2>2, <2>3, FS_CardinalityType
  <2>5. count[gate] = Cardinality(Units(gate)) BY DEF RedisInv, CountsTrue
  <2> QED BY <1>1, <2>3, <2>4, <2>5
<1>2. ASSUME NEW q \in Requests
      PROVE  /\ RedisPhases[q] = "running" => q \in Units("inflight")
             /\ RedisPhases[q] = "queued" => q \in Units("waiting")
  <2>1. AtStation(q) /\ at[q] \notin {"repairing", "resetting", "degraded"}
    BY DEF RedisInv, StationInv, AtStation, Fits, SharedTypes
  <2>2. RedisPhases[q] = "running" => at[q] \in {"inflightTtl", "admitted"} \/ "inflight" \in slot[q]
    BY PhaseHere DEF PhaseAt
  <2>3. RedisPhases[q] = "queued" => at[q] = "waitingTtl" \/ "waiting" \in slot[q]
    BY PhaseHere DEF PhaseAt
  <2>4. at[q] = "admitted" => "inflight" \in slot[q] BY <2>1 DEF AtStation, Fits
  <2> QED BY <2>1, <2>2, <2>3, <2>4 DEF Units, Waits, GivingUp
<1>3. InPhase("running") \subseteq Units("inflight") /\ InPhase("queued") \subseteq Units("waiting")
  BY <1>2 DEF InPhase
<1> QED BY <1>1, <1>3 DEF Gates

LEMMA SameCount == \A S : RedisAbstract!Cardinality(S) = Cardinality(S)
BY DEF RedisAbstract!Cardinality, Cardinality

\* A move that is promised is a step of the promise, or none.
LEMMA PromisedStep ==
    ASSUME NEW r \in Requests, NEW to, Promised(RedisPhases[r], to),
           RedisPhases' = [RedisPhases EXCEPT ![r] = to]
    PROVE  [RedisAbstract!Next]_RedisPhases
<1>1. RedisAbstract!Move(r, to)
  BY DEF RedisAbstract!Move, RedisPhases
<1>2. \A s : RedisAbstract!In(s) = InPhase(s)
  BY DEF RedisAbstract!In, InPhase, RedisPhases
<1>3. CASE RedisPhases[r] = to
  <2>1. RedisPhases' = RedisPhases BY <1>3 DEF RedisPhases
  <2> QED BY <2>1
<1>4. CASE RedisPhases[r] \in {"arriving", "queued"} /\ to = "refused"
  <2>1. RedisAbstract!Refuse(r) BY <1>1, <1>4 DEF RedisAbstract!Refuse, RedisPhases
  <2> QED BY <2>1 DEF RedisAbstract!Next
<1>5. CASE RedisPhases[r] = "running" /\ to = "served"
  <2>1. RedisAbstract!Serve(r) BY <1>1, <1>5 DEF RedisAbstract!Serve, RedisPhases
  <2> QED BY <2>1 DEF RedisAbstract!Next
<1>6. CASE RedisPhases[r] \in {"arriving", "queued"} /\ to = "running"
           /\ Cardinality(InPhase("running")) < MaxConcurrent
  <2>1. Cardinality(RedisAbstract!In("running")) < MaxConcurrent BY <1>2, <1>6
  <2>2. RedisAbstract!Admit(r) BY <1>1, <1>6, <2>1, SameCount DEF RedisAbstract!Admit, RedisPhases
  <2> QED BY <2>2 DEF RedisAbstract!Next
<1>7. CASE RedisPhases[r] = "arriving" /\ to = "queued" /\ Cardinality(InPhase("queued")) < MaxWaiting
  <2>1. Cardinality(RedisAbstract!In("queued")) < MaxWaiting BY <1>2, <1>7
  <2>2. RedisAbstract!Queue(r) BY <1>1, <1>7, <2>1, SameCount DEF RedisAbstract!Queue, RedisPhases
  <2> QED BY <2>2 DEF RedisAbstract!Next
<1> QED BY <1>3, <1>4, <1>5, <1>6, <1>7 DEF Promised

\* The same, by where the step takes the request.
LEMMA MovedStep ==
    ASSUME RedisTold, faults = 0, NEW r \in Requests, Only(r),
           \A q \in Requests \ {r} : outcome'[q] = outcome[q],
           NEW p, NEW s, NEW o, at'[r] = p, slot'[r] = s, outcome'[r] = o,
           p \notin {"degraded", "releasing", "repairing", "resetting", "gone"} => o = "none",
           p = "releasing" /\ "inflight" \in s => o = "admitted",
           Promised(PhaseAt(at[r], slot[r], outcome[r]), PhaseAt(p, s, o))
    PROVE  RedisTold' /\ [RedisAbstract!Next]_RedisPhases
<1>1. RedisTold' BY DEF RedisTold, Only
<1>2. ASSUME NEW q \in Requests
      PROVE  RedisPhases'[q] = IF q = r THEN PhaseAt(p, s, o) ELSE RedisPhases[q]
  BY DEF RedisPhases, RedisPhase, PhaseAt, Only
<1>3. RedisPhases' = [RedisPhases EXCEPT ![r] = PhaseAt(p, s, o)]
  <2>1. RedisPhases = [q \in Requests |-> RedisPhases[q]] /\ RedisPhases' = [q \in Requests |-> RedisPhases'[q]]
    BY DEF RedisPhases
  <2> HIDE DEF RedisPhases
  <2> QED BY <1>2, <2>1
<1>4. Promised(RedisPhases[r], PhaseAt(p, s, o)) BY PhaseHere
<1> QED BY <1>1, <1>3, <1>4, PromisedStep

\* A request's answered step, from station and gates as they are (a, s) to
\* station p, gates z and what its caller was told.
LEMMA Answered ==
    ASSUME RedisInv, RedisTold, faults = 0, NEW r \in Requests, SharedStep(r),
           NEW p, NEW z, NEW o, Await(r, p), z = slot'[r],
           (outcome' = outcome /\ o = outcome[r]) \/ Tell(r, o),
           p \notin {"degraded", "releasing", "repairing", "resetting", "gone"} => o = "none",
           p = "releasing" /\ "inflight" \in z => o = "admitted",
           Promised(PhaseAt(at[r], slot[r], outcome[r]), PhaseAt(p, z, o))
    PROVE  RedisTold' /\ [RedisAbstract!Next]_RedisPhases
<1>1. outcome \in [Requests -> Refusals \cup {"none", "admitted"}] /\ at \in [Requests -> Stations]
  BY DEF RedisInv, MemoryInv, TypeOK, SharedTypes
<1>2. outcome'[r] = o /\ \A q \in Requests \ {r} : outcome'[q] = outcome[q]
  BY <1>1 DEF Tell
<1>3. at'[r] = p BY <1>1 DEF Await
<1> QED BY <1>2, <1>3, MovedStep DEF SharedStep

LEMMA PromiseKept ==
    ASSUME Handled, RedisInv, RedisTold, NEW r \in Requests, RedisStep(r), faults' = 0
    PROVE  RedisTold' /\ [RedisAbstract!Next]_RedisPhases
<1> DEFINE Goal == RedisTold' /\ [RedisAbstract!Next]_RedisPhases
<1>0. SharedStep(r) BY RequestStep DEF RedisInv
<1>1. faults = 0 /\ faults' = faults
  BY <1>0 DEF SharedStep, RedisInv, SharedTypes
<1>2. AtStation(r) /\ slot \in [Requests -> SUBSET Gates] /\ slot[r] \in SUBSET Gates
  BY Stays DEF RedisInv, StationInv, SharedTypes
<1>3. PICK s \in SUBSET Gates : s = slot[r] BY <1>2
<1>4. PICK o : o = outcome[r] OBVIOUS
<1>5. faults # faults + 1 BY <1>1
<1>6. at[r] \notin {"degraded", "releasing", "repairing", "resetting", "gone"} => o = "none"
  BY <1>1, <1>4 DEF RedisTold
<1>7. at[r] \notin {"degraded", "repairing", "resetting"} BY <1>1, <1>2 DEF AtStation, Fits
<1>8. ASSUME NEW p, Await(r, p), slot' = slot, UNCHANGED outcome,
             p \notin {"degraded", "releasing", "repairing", "resetting", "gone"} => o = "none",
             p # "releasing",
             Promised(PhaseAt(at[r], s, o), PhaseAt(p, s, o))
      PROVE  Goal
  BY <1>0, <1>1, <1>3, <1>4, <1>8, Answered
<1>9. ASSUME NEW why \in Refusals, Await(r, "releasing"), Tell(r, why), slot' = slot,
             at[r] \in Undecided \cup {"queueFull"}, o = "none"
      PROVE  Goal
  <2>1. "inflight" \notin s /\ why # "admitted"
    BY <1>2, <1>3, <1>9 DEF AtStation, Fits, Undecided, Refusals
  <2>2. Promised(PhaseAt(at[r], s, o), PhaseAt("releasing", s, why))
    BY <1>9, <2>1 DEF Promised, PhaseAt, Undecided
  <2> QED BY <1>0, <1>1, <1>3, <1>4, <1>9, <2>1, <2>2, Answered
<1>10. CASE RateIncr(r)
  <2>1. at[r] = "rating" /\ slot' = slot /\
          \/ Await(r, "releasing") /\ Tell(r, "rate limited")
          \/ \E p \in {"rateTtl", "probing"} : Await(r, p) /\ outcome' = outcome
    BY <1>1, <1>5, <1>10 DEF RateIncr, Incr, Leaves, Release, RaisesIn, Raises, vars
  <2>2. s = {} /\ o = "none" BY <1>2, <1>3, <1>6, <2>1 DEF AtStation, Fits
  <2>3. ASSUME NEW p \in {"rateTtl", "probing"}
        PROVE  Promised(PhaseAt(at[r], s, o), PhaseAt(p, s, o))
    BY <2>1, <2>2 DEF Promised, PhaseAt, Undecided
  <2> QED BY <1>8, <1>9, <2>1, <2>2, <2>3 DEF Refusals, Undecided
<1>11. CASE RateExpire(r)
  <2>1. at[r] = "rateTtl" /\ slot' = slot /\ Await(r, "probing") /\ outcome' = outcome
    BY <1>1, <1>5, <1>11 DEF RateExpire, RaisesIn, Raises, vars
  <2>2. s = {} /\ o = "none" BY <1>2, <1>3, <1>6, <2>1 DEF AtStation, Fits
  <2>3. Promised(PhaseAt(at[r], s, o), PhaseAt("probing", s, o))
    BY <2>1, <2>2 DEF Promised, PhaseAt, Undecided
  <2> QED BY <1>8, <2>1, <2>2, <2>3
<1>12. CASE Probe(r)
  <2>1. at[r] = "probing" /\ outcome' = outcome /\
          \/ /\ Await(r, "inflightTtl") /\ slot' = slot /\ count["inflight"] + 1 = 1
          \/ /\ Await(r, "admitted") /\ Knows(r, "inflight") /\ count["inflight"] + 1 <= MaxConcurrent
          \/ /\ Await(r, "overshot") /\ slot' = slot
    BY <1>1, <1>5, <1>12 DEF Probe, Claim, Limit, RaisesIn, Raises, vars
  <2>2. "inflight" \notin s /\ o = "none" BY <1>2, <1>3, <1>6, <2>1 DEF AtStation, Fits
  <2>3. count["inflight"] \in Int BY DEF RedisInv, SharedTypes, Keys, Gates
  <2>4. CASE Await(r, "overshot") /\ slot' = slot
    <3>1. Promised(PhaseAt(at[r], s, o), PhaseAt("overshot", s, o))
      BY <2>1, <2>2 DEF Promised, PhaseAt, Undecided
    <3> QED BY <1>8, <2>1, <2>2, <2>4, <3>1
  <2>5. ASSUME count["inflight"] < MaxConcurrent, NEW p \in {"inflightTtl", "admitted"}, NEW z
        PROVE  Promised(PhaseAt(at[r], s, o), PhaseAt(p, z, o))
    <3>1. Cardinality(InPhase("running")) < MaxConcurrent BY <1>1, <2>5, Room
    <3>2. PhaseAt(at[r], s, o) \in {"arriving", "queued"} /\ PhaseAt(p, z, o) = "running"
      BY <2>1, <2>2 DEF PhaseAt, Undecided
    <3> QED BY <3>1, <3>2 DEF Promised
  <2>6. CASE Await(r, "inflightTtl") /\ slot' = slot /\ count["inflight"] + 1 = 1
    <3>1. count["inflight"] < MaxConcurrent BY <2>3, <2>6
    <3> QED BY <1>8, <2>1, <2>2, <2>5, <2>6, <3>1
  <2>7. CASE Await(r, "admitted") /\ Knows(r, "inflight") /\ count["inflight"] + 1 <= MaxConcurrent
    <3>1. count["inflight"] < MaxConcurrent BY <2>3, <2>7
    <3>2. PICK z : z = slot'[r] OBVIOUS
    <3>3. Promised(PhaseAt(at[r], slot[r], outcome[r]), PhaseAt("admitted", z, o))
      BY <1>3, <1>4, <2>5, <3>1
    <3> QED BY <1>0, <1>1, <1>4, <2>1, <2>2, <2>7, <3>2, <3>3, Answered
  <2> QED BY <2>1, <2>4, <2>6, <2>7
<1>13. CASE ProbeExpire(r)
  <2>1. at[r] = "inflightTtl" /\ Await(r, "admitted") /\ outcome' = outcome
    BY <1>1, <1>5, <1>13 DEF ProbeExpire, ClaimExpire, RaisesIn, Raises, vars
  <2>2. o = "none" BY <1>6, <2>1
  <2>3. PICK z : z = slot'[r] OBVIOUS
  <2>4. Promised(PhaseAt(at[r], slot[r], outcome[r]), PhaseAt("admitted", z, o))
    BY <2>1 DEF Promised, PhaseAt
  <2> QED BY <1>0, <1>1, <1>4, <2>1, <2>2, <2>3, <2>4, Answered
<1>14. CASE Overshoot(r)
  <2>1. at[r] = "overshot" /\ slot' = slot /\ outcome' = outcome
        /\ \E p \in {"checkingTime", "joining"} : Await(r, p)
    BY <1>1, <1>5, <1>14 DEF Overshoot, RaisesIn, Raises, vars
  <2>2. "inflight" \notin s /\ o = "none" BY <1>2, <1>3, <1>6, <2>1 DEF AtStation, Fits
  <2>3. ASSUME NEW p \in {"checkingTime", "joining"}
        PROVE  Promised(PhaseAt(at[r], s, o), PhaseAt(p, s, o))
    BY <2>1, <2>2 DEF Promised, PhaseAt, Undecided
  <2> QED BY <1>8, <2>1, <2>2, <2>3
<1>15. CASE Join(r) /\ MaxWaiting = 0
  <2>1. at[r] = "joining" /\ Await(r, "releasing") /\ Tell(r, "queue full") /\ slot' = slot
    BY <1>15 DEF Join, Leaves, Release, sharedVars
  <2>2. o = "none" BY <1>6, <2>1
  <2> QED BY <1>9, <2>1, <2>2 DEF Refusals, Undecided
<1>16. CASE Join(r) /\ MaxWaiting # 0
  <2>1. at[r] = "joining" /\ outcome' = outcome /\
          \/ /\ Await(r, "waitingTtl") /\ slot' = slot /\ count["waiting"] + 1 = 1
          \/ /\ Await(r, "checkingTime") /\ Knows(r, "waiting") /\ count["waiting"] + 1 <= MaxWaiting
          \/ /\ Await(r, "queueFull") /\ slot' = slot
    BY <1>1, <1>5, <1>16 DEF Join, Claim, Limit, RaisesIn, Raises, vars
  <2>2. s = {} /\ o = "none" BY <1>2, <1>3, <1>6, <2>1 DEF AtStation, Fits
  <2>3. count["waiting"] \in Int BY DEF RedisInv, SharedTypes, Keys, Gates
  <2>4. CASE Await(r, "queueFull") /\ slot' = slot
    <3>1. Promised(PhaseAt(at[r], s, o), PhaseAt("queueFull", s, o))
      BY <2>1, <2>2 DEF Promised, PhaseAt, Undecided
    <3> QED BY <1>8, <2>1, <2>2, <2>4, <3>1
  <2>5. ASSUME count["waiting"] < MaxWaiting
        PROVE  /\ Promised(PhaseAt(at[r], s, o), PhaseAt("waitingTtl", s, o))
               /\ Promised(PhaseAt(at[r], s, o), PhaseAt("checkingTime", {"waiting"}, o))
    <3>1. Cardinality(InPhase("queued")) < MaxWaiting BY <1>1, <2>5, Room
    <3>2. /\ PhaseAt(at[r], s, o) = "arriving" /\ PhaseAt("waitingTtl", s, o) = "queued"
          /\ PhaseAt("checkingTime", {"waiting"}, o) = "queued"
      BY <2>1, <2>2 DEF PhaseAt, Undecided
    <3> QED BY <3>1, <3>2 DEF Promised
  <2>6. CASE Await(r, "waitingTtl") /\ slot' = slot /\ count["waiting"] + 1 = 1
    <3>1. count["waiting"] < MaxWaiting BY <2>3, <1>16, <2>6
    <3> QED BY <1>8, <2>1, <2>2, <2>5, <2>6, <3>1
  <2>7. CASE Await(r, "checkingTime") /\ Knows(r, "waiting") /\ count["waiting"] + 1 <= MaxWaiting
    <3>1. count["waiting"] < MaxWaiting BY <2>3, <2>7
    <3>2. PICK z : z = {"waiting"} OBVIOUS
    <3>3. z = slot'[r] BY <1>2, <1>3, <2>2, <2>7, <3>2 DEF Knows
    <3>4. Promised(PhaseAt(at[r], slot[r], outcome[r]), PhaseAt("checkingTime", z, o))
      BY <1>3, <1>4, <2>5, <3>1, <3>2
    <3> QED BY <1>0, <1>1, <1>4, <2>1, <2>2, <2>7, <3>3, <3>4, Answered
  <2> QED BY <2>1, <2>4, <2>6, <2>7
<1>17. CASE JoinExpire(r)
  <2>1. at[r] = "waitingTtl" /\ Await(r, "checkingTime") /\ Knows(r, "waiting") /\ outcome' = outcome
    BY <1>1, <1>5, <1>17 DEF JoinExpire, ClaimExpire, RaisesIn, Raises, vars
  <2>2. s = {} /\ o = "none" BY <1>2, <1>3, <1>6, <2>1 DEF AtStation, Fits
  <2>3. PICK z : z = {"waiting"} OBVIOUS
  <2>4. z = slot'[r] BY <1>2, <1>3, <2>1, <2>2, <2>3 DEF Knows
  <2>5. Promised(PhaseAt(at[r], slot[r], outcome[r]), PhaseAt("checkingTime", z, o))
    BY <1>3, <2>1, <2>2, <2>3 DEF Promised, PhaseAt, Undecided
  <2> QED BY <1>0, <1>1, <1>4, <2>1, <2>2, <2>4, <2>5, Answered
<1>18. CASE QueueFull(r)
  <2>1. at[r] = "queueFull" /\ Await(r, "releasing") /\ Tell(r, "queue full") /\ slot' = slot
    BY <1>1, <1>5, <1>18 DEF QueueFull, Leaves, Release, RaisesIn, Raises
  <2>2. o = "none" BY <1>6, <2>1
  <2> QED BY <1>9, <2>1, <2>2 DEF Refusals
<1>19. CASE Poll(r)
  <2>1. at[r] = "checkingTime" /\ slot' = slot /\
          \/ Await(r, "probing") /\ outcome' = outcome
          \/ Await(r, "releasing") /\ Tell(r, "queue timeout")
    BY <1>19 DEF Poll, Leaves, Release, sharedVars, vars
  <2>2. s = {"waiting"} /\ o = "none" BY <1>2, <1>3, <1>6, <2>1 DEF AtStation, Fits
  <2>3. Promised(PhaseAt(at[r], s, o), PhaseAt("probing", s, o))
    BY <2>1, <2>2 DEF Promised, PhaseAt, Undecided
  <2> QED BY <1>8, <1>9, <2>1, <2>2, <2>3 DEF Refusals, Undecided
<1>20. CASE Admitted(r)
  <2>1. at[r] = "admitted" /\ Await(r, "releasing") /\ Tell(r, "admitted") /\ slot' = slot
    BY <1>20 DEF Admitted, Release, sharedVars
  <2>2. "inflight" \in s BY <1>2, <1>3, <2>1 DEF AtStation, Fits
  <2>3. Promised(PhaseAt(at[r], slot[r], outcome[r]), PhaseAt("releasing", s, "admitted"))
    BY <1>3, <2>1, <2>2 DEF Promised, PhaseAt
  <2> QED BY <1>0, <1>1, <1>3, <2>1, <2>3, Answered
<1>21. CASE GiveBack(r)
  <2>1. at[r] = "releasing" /\ s # {} /\ at' = at /\ outcome' = outcome /\ Forgets(r, NextGate(r))
    BY <1>1, <1>5, <1>3, <1>21 DEF GiveBack, Raises, vars
  <2>2. PICK z : z = slot'[r] OBVIOUS
  <2>3. z = s \ {NextGate(r)} BY <1>2, <1>3, <2>1, <2>2 DEF Forgets
  <2>4. Await(r, "releasing") BY <2>1 DEF Await, RedisInv, SharedTypes
  <2>5. "inflight" \in s => o = "admitted" BY <1>1, <1>3, <1>4, <2>1 DEF RedisTold
  <2>6. Promised(PhaseAt(at[r], slot[r], outcome[r]), PhaseAt("releasing", z, o))
    BY <1>3, <1>4, <2>1, <2>3, <2>5 DEF Promised, PhaseAt, Undecided, NextGate, Gates
  <2>7. "inflight" \in z => o = "admitted" BY <2>3, <2>5
  <2> QED BY <1>0, <1>1, <1>4, <2>1, <2>2, <2>4, <2>6, <2>7, Answered
<1>22. CASE Gone(r)
  <2>1. at[r] = "releasing" /\ Await(r, "gone") /\ slot' = slot /\ outcome' = outcome /\ s = {}
    BY <1>3, <1>22 DEF Gone, sharedVars, vars
  <2>2. Promised(PhaseAt(at[r], s, o), PhaseAt("gone", s, o))
    BY <2>1 DEF Promised, PhaseAt, Undecided
  <2> QED BY <1>8, <2>1, <2>2
<1>23. ~NoClient(r) BY <1>1, <1>5 DEF NoClient
<1>24. ~MemoryStep(r) /\ ~DegradedEnds(r) /\ ~Repair(r) /\ ~Reset(r)
  BY <1>7 DEF MemoryStep, DegradedEnds, Repair, Reset
<1> QED
  BY <1>10, <1>11, <1>12, <1>13, <1>14, <1>15, <1>16, <1>17, <1>18, <1>19, <1>20, <1>21, <1>22,
     <1>23, <1>24 DEF RedisStep

LEMMA PromiseStep ==
    ASSUME Handled
    PROVE  RedisInv /\ RedisTold /\ [RedisNext]_allVars
             => RedisTold' /\ [RedisAbstract!Next \/ faults' > 0]_[r \in Requests |-> RedisPhase(r)]
<1> SUFFICES ASSUME RedisInv, RedisTold, [RedisNext]_allVars
             PROVE  RedisTold' /\ [RedisAbstract!Next \/ faults' > 0]_RedisPhases
  BY DEF RedisPhases
<1>1. CASE faults' = 0 /\ at' = at /\ slot' = slot /\ outcome' = outcome /\ faults' = faults
  <2>1. RedisTold' BY <1>1 DEF RedisTold
  <2>2. RedisPhases' = RedisPhases BY <1>1 DEF RedisPhases, RedisPhase
  <2> QED BY <2>1, <2>2
<1>2. ASSUME NEW r \in Requests, RedisStep(r), faults' = 0
      PROVE  RedisTold' /\ [RedisAbstract!Next \/ faults' > 0]_RedisPhases
  <2>1. RedisTold' /\ [RedisAbstract!Next]_RedisPhases BY <1>2, PromiseKept
  <2> QED BY <2>1
<1>3. CASE faults' # 0
  <2>1. faults' \in Nat BY RedisInductive DEF RedisInv, SharedTypes
  <2>2. faults' > 0 BY <1>3, <2>1
  <2>3. RedisTold' BY <1>3 DEF RedisTold
  <2> QED BY <2>2, <2>3
<1>4. ASSUME NEW k \in Keys, KeyExpires(k)
      PROVE  at' = at /\ slot' = slot /\ outcome' = outcome /\ faults' = faults
  BY <1>4 DEF KeyExpires, vars
<1>5. UNCHANGED allVars => at' = at /\ slot' = slot /\ outcome' = outcome /\ faults' = faults
  BY DEF allVars, sharedVars, vars
<1> QED BY <1>1, <1>2, <1>3, <1>4, <1>5 DEF RedisNext, RedisEnded

\* Until a command raises, every behaviour of the shared counters, requests of
\* any number of workers interleaved between any two commands, is one the
\* promise allows: no probe that overshot, no place that is given up and no EXPIRE
\* between a count and its decision admits or queues one request too many.
THEOREM RedisGuardKeepsPromise == ASSUME Handled PROVE RedisSpec => RedisKeepsPromise
<1>1. RedisInit => RedisAbstract!Init /\ RedisTold
  <2> SUFFICES ASSUME RedisInit PROVE RedisAbstract!Init /\ RedisTold OBVIOUS
  <2>1. \A r \in Requests : at[r] = "rating" /\ slot[r] = {} /\ outcome[r] = "none"
    BY DEF RedisInit, InitialGuard
  <2> QED BY <2>1 DEF RedisAbstract!Init, RedisTold, RedisPhase, Undecided
<1> QED BY <1>1, RedisStart, RedisInductive, PromiseStep, PTL DEF RedisSpec, RedisKeepsPromise

=============================================================================
