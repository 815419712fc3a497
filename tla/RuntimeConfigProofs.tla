------------------------ MODULE RuntimeConfigProofs ------------------------
(***************************************************************************)
(* What a write makes of the configuration, for any number of documents,   *)
(* and the types of RuntimeConfig.                                         *)
(***************************************************************************)
EXTENDS RuntimeConfig, WellFoundedInduction, TLAPS

-----------------------------------------------------------------------------
(***************************************************************************)
(* The last of some documents.                                             *)
(***************************************************************************)
Last(S) == CHOOSE d \in S : \A e \in S : e <= d

LEMMA DocsAreNumbers == Len(DataIds) \in Nat /\ \A d \in Docs : d \in Nat /\ d <= Len(DataIds)
BY ConfigAssumption DEF Docs

LEMMA LastExists ==
    ASSUME NEW S \in SUBSET Docs, S # {}
    PROVE  \E d \in S : \A e \in S : e <= d
<1> DEFINE n == Len(DataIds)
           T == {n - d : d \in S}
           Less == OpToRel(<, Nat)
<1>1. n \in Nat /\ \A d \in S : d \in Nat /\ d <= n
  BY DocsAreNumbers
<1> HIDE DEF n
<1>2. T \subseteq Nat /\ T # {}
  BY <1>1
<1>3. \E x \in T : \A y \in T : ~(<<y, x>> \in Less)
  BY <1>2, NatLessThanWellFounded, WFMin
<1>4. PICK x \in T : \A y \in T : ~(y < x)
  BY <1>2, <1>3 DEF OpToRel
<1>5. PICK d \in S : x = n - d
  OBVIOUS
<1>6. \A e \in S : n - e \in T
  OBVIOUS
<1>7. ASSUME NEW e \in S PROVE e <= d
  <2>1. ~(n - e < n - d)
    BY <1>4, <1>5, <1>6
  <2>2. n \in Nat /\ e \in Nat /\ d \in Nat
    BY <1>1
  <2> HIDE DEF T
  <2> QED BY <2>1, <2>2
<1> QED BY <1>7

LEMMA LastIs ==
    ASSUME NEW S \in SUBSET Docs, S # {}
    PROVE  Last(S) \in S /\ \A e \in S : e <= Last(S)
BY LastExists DEF Last

LEMMA OnlyOneIsLast ==
    ASSUME NEW S \in SUBSET Docs, NEW d \in S, \A e \in S : e <= d
    PROVE  Last(S) = d
<1>1. Last(S) \in S /\ \A e \in S : e <= Last(S)
  BY LastIs
<1>2. Last(S) <= d /\ d <= Last(S)
  BY <1>1
<1>3. Last(S) \in Nat /\ d \in Nat
  BY <1>1, DocsAreNumbers
<1> QED BY <1>2, <1>3

Owning(docs, k) == {d \in Docs : docs[d][k] # Absent}

LEMMA EffectiveOf ==
    ASSUME NEW docs, NEW k \in Keys
    PROVE  Effective(docs)[k] = IF Owning(docs, k) = {} THEN Default ELSE docs[Last(Owning(docs, k))][k]
BY DEF Effective, Owning, Last

-----------------------------------------------------------------------------
(***************************************************************************)
(* Writes.                                                                 *)
(***************************************************************************)
\* A document that no edited key is routed to is not changed.
LEMMA ElsewhereUnchanged ==
    ASSUME NEW job, job.docs \in Documents, NEW d \in Docs,
           d \notin {Home(job, k) : k \in job.edited}
    PROVE  Merged(job, d) = job.docs[d]
<1>1. job.docs[d] \in [Keys -> Nat]
  BY DEF Documents
<1>2. \A k \in Keys : Merged(job, d)[k] = job.docs[d][k]
  BY DEF Merged
<1> QED BY <1>1, <1>2 DEF Merged

\* A write that names no document changes the configuration in force by exactly
\* what was edited, however many documents define the edited keys: each is
\* written to the last that does, which is the one that RemoteSettingsSource
\* lets win.
THEOREM WriteIsExact ==
    ASSUME NEW job, job.docs \in Documents, job.edited \in SUBSET Keys,
           job.value \in Nat \ {0}, job.target = 0
    PROVE  Effective([d \in Docs |-> Merged(job, d)]) =
             [k \in Keys |-> IF k \in job.edited THEN job.value ELSE Effective(job.docs)[k]]
<1> DEFINE docs == job.docs
           new == [d \in Docs |-> Merged(job, d)]
<1>1. ASSUME NEW k \in Keys
      PROVE  Effective(new)[k] = IF k \in job.edited THEN job.value ELSE Effective(docs)[k]
  <2> DEFINE old == Owning(docs, k)
             now == Owning(new, k)
  <2>1. \A d \in Docs : new[d][k] = IF k \in job.edited /\ Home(job, k) = d THEN job.value ELSE docs[d][k]
    BY DEF Merged
  <2>2. old \in SUBSET Docs /\ now \in SUBSET Docs
    BY DEF Owning
  <2>3. Effective(new)[k] = IF now = {} THEN Default ELSE new[Last(now)][k]
    BY EffectiveOf
  <2>4. Effective(docs)[k] = IF old = {} THEN Default ELSE docs[Last(old)][k]
    BY EffectiveOf
  <2>5. CASE k \notin job.edited
    <3>1. now = old
      BY <2>1, <2>5 DEF Owning
    <3>2. old # {} => Last(old) \in Docs
      BY <2>2, LastIs
    <3> HIDE DEF new, docs, old, now
    <3> QED BY <2>1, <2>3, <2>4, <2>5, <3>1, <3>2
  <2>6. CASE k \in job.edited /\ old = {}
    <3>1. Home(job, k) = Len(DataIds) /\ Len(DataIds) \in Docs
      BY <2>6, ConfigAssumption DEF Home, Owning, Docs
    <3>2. now = {Len(DataIds)}
      BY <2>1, <2>6, <3>1 DEF Owning, Absent
    <3>3. Last(now) = Len(DataIds)
      BY <2>2, <3>2, LastIs
    <3> HIDE DEF new, docs, old, now
    <3> QED BY <2>1, <2>3, <2>6, <3>1, <3>2, <3>3
  <2>7. CASE k \in job.edited /\ old # {}
    <3>1. Home(job, k) = Last(old)
      BY <2>7 DEF Home, Owning, Last
    <3>2. Last(old) \in old /\ Last(old) \in Docs
      BY <2>2, <2>7, LastIs
    <3>3. now = old
      BY <2>1, <2>7, <3>1, <3>2 DEF Owning, Absent
    <3> HIDE DEF new, docs, old, now
    <3> QED BY <2>1, <2>3, <2>7, <3>1, <3>2, <3>3
  <2> QED BY <2>5, <2>6, <2>7
<1> HIDE DEF new
<1>2. Effective(new) = [k \in Keys |-> Effective(new)[k]]
  BY DEF Effective
<1> QED BY <1>1, <1>2 DEF new

-----------------------------------------------------------------------------
(***************************************************************************)
(* Types.                                                                  *)
(***************************************************************************)
Places ==
    {"new", "over", "idle", "publish", "build"} \cup {"seed", "tick", "merge"} \cup Reloading

Job == [at : Places, next : 1..(Len(DataIds) + 1), docs : Documents, got : AllSettings,
        edited : SUBSET Keys, value : Nat, target : {0} \cup Docs, left : SUBSET Docs, sole : BOOLEAN]

Jobs == [Threads -> Job]

\* What a reload hands the runtime are settings, and what a write sets is a value.
Ready(j) ==
    /\ j.at = "swap" => j.got \in [Keys -> Nat]
    /\ j.at \in {"merge", "publish"} => j.value # 0

TypeInv ==
    /\ TypeOK
    /\ \A t \in Threads : Ready(jobs[t])

\* Jobs that differ at most in sole.
Alike(i, j) ==
    /\ i.at = j.at /\ i.next = j.next /\ i.docs = j.docs /\ i.got = j.got
    /\ i.edited = j.edited /\ i.value = j.value /\ i.target = j.target /\ i.left = j.left

\* Thread t goes on to job j, and the others keep theirs.
Step(t, j) ==
    /\ jobs' \in Jobs
    /\ Alike(jobs'[t], j)
    /\ \A u \in Threads \ {t} : Alike(jobs'[u], jobs[u])

LEMMA TypeParts ==
    TypeOK <=>
        /\ centre \in Documents /\ snapshot \in Documents /\ known \in Documents
        /\ settings \in AllSettings /\ runtime \in [Keys -> Nat] /\ derived \in AllSettings
        /\ jobs \in Jobs
        /\ changes \in 0..MaxChanges /\ faults \in 0..MaxFaults /\ disturbed \in BOOLEAN
BY DEF TypeOK, Jobs, Job, Places

LEMMA JobsOf == TypeOK => jobs \in Jobs
BY TypeParts

LEMMA BecomesStep ==
    ASSUME TypeOK, NEW t \in Threads, NEW j \in Job, Becomes(t, j)
    PROVE  Step(t, j)
BY JobsOf DEF Becomes, Step, Jobs, Alike

LEMMA DisturbStep ==
    ASSUME TypeOK, NEW t \in Threads, NEW j \in Job, NEW when, Disturb(when, [jobs EXCEPT ![t] = j])
    PROVE  Step(t, j)
<1> DEFINE next == [jobs EXCEPT ![t] = j]
<1>1. next \in Jobs /\ next[t] = j /\ \A u \in Threads \ {t} : next[u] = jobs[u]
  BY JobsOf DEF Jobs
<1> HIDE DEF next
<1>2. CASE jobs' = next
  BY <1>1, <1>2 DEF Step, Alike
<1>3. CASE jobs' = [u \in Threads |-> [next[u] EXCEPT !.sole = FALSE]]
  <2>1. \A i \in Job : [i EXCEPT !.sole = FALSE] \in Job /\ Alike([i EXCEPT !.sole = FALSE], i)
    BY DEF Job, Alike
  <2>2. \A u \in Threads : jobs'[u] = [next[u] EXCEPT !.sole = FALSE] /\ next[u] \in Job
    BY <1>1, <1>3 DEF Jobs
  <2>3. jobs' \in Jobs
    BY <1>3, <2>1, <2>2 DEF Jobs
  <2>4. \A u \in Threads : Alike(jobs'[u], next[u])
    BY <2>1, <2>2
  <2> QED BY <1>1, <2>3, <2>4 DEF Step
<1> QED BY <1>2, <1>3 DEF Disturb, next

LEMMA PollerIsThread ==
    /\ Poller \in Threads
    /\ \A w \in Writers : w \in Threads
    /\ \A q \in Queries : q \in Threads
BY DEF Threads

LEMMA EffectiveType ==
    ASSUME NEW docs \in Documents
    PROVE  Effective(docs) \in [Keys -> Nat]
<1>1. ASSUME NEW k \in Keys PROVE Effective(docs)[k] \in Nat
  <2>1. Owning(docs, k) \in SUBSET Docs
    BY DEF Owning
  <2>2. Owning(docs, k) # {} => Last(Owning(docs, k)) \in Docs
    BY <2>1, LastIs
  <2> QED BY <2>2, EffectiveOf DEF Documents, Default
<1> QED BY <1>1 DEF Effective

LEMMA HomeType ==
    ASSUME NEW j \in Job, NEW k \in Keys
    PROVE  Home(j, k) \in Docs
<1>1. Owning(j.docs, k) \in SUBSET Docs
  BY DEF Owning
<1>2. Owning(j.docs, k) # {} => Last(Owning(j.docs, k)) \in Docs
  BY <1>1, LastIs
<1>3. Len(DataIds) \in Docs
  BY ConfigAssumption DEF Docs
<1>4. j.target \in {0} \cup Docs
  BY DEF Job
<1> QED BY <1>2, <1>3, <1>4 DEF Home, Owning, Last

LEMMA MergedType ==
    ASSUME NEW j \in Job, NEW d \in Docs
    PROVE  Merged(j, d) \in [Keys -> Nat]
BY DEF Job, Merged, Documents

LEMMA NewJobType ==
    /\ Initially \in Documents
    /\ NewJob \in Job
    /\ 1 \in 1..(Len(DataIds) + 1)
<1>1. Initially \in Documents
  BY ConfigAssumption DEF Documents
<1>2. 1 \in 1..(Len(DataIds) + 1) /\ 0 \in Nat
  BY ConfigAssumption
<1>3. "new" \in Places
  BY DEF Places
<1> QED BY <1>1, <1>2, <1>3 DEF NewJob, Job, AllSettings

LEMMA RestsType ==
    ASSUME NEW place \in Places
    PROVE  /\ Rests(place) \in Job
           /\ Rests(place).at = place
<1> DEFINE n == NewJob
           j == [at |-> place, next |-> n.next, docs |-> n.docs, got |-> n.got,
                 edited |-> n.edited, value |-> n.value, target |-> n.target, left |-> n.left, sole |-> n.sole]
<1>1. n \in Job /\ Rests(place) = [n EXCEPT !.at = place]
  BY NewJobType DEF Rests
<1> HIDE DEF n
<1>2. Rests(place) = j /\ j \in Job /\ j.at = place
  BY <1>1 DEF Job
<1> QED BY <1>2

LEMMA GoesType ==
    ASSUME jobs \in Jobs, NEW t \in Threads, NEW place \in Places
    PROVE  /\ Goes(t, place) \in Job
           /\ Goes(t, place) = [at |-> place, next |-> jobs[t].next, docs |-> jobs[t].docs,
                                got |-> jobs[t].got, edited |-> jobs[t].edited, value |-> jobs[t].value,
                                target |-> jobs[t].target, left |-> jobs[t].left, sole |-> jobs[t].sole]
<1>1. jobs[t] \in Job
  BY DEF Jobs
<1> QED BY <1>1 DEF Goes, Job

LEMMA StartsFetchType ==
    ASSUME jobs \in Jobs, NEW t \in Threads, NEW place \in Places
    PROVE  /\ StartsFetch(t, place) \in Job
           /\ StartsFetch(t, place) = [at |-> place, next |-> 1, docs |-> Initially,
                                got |-> jobs[t].got, edited |-> jobs[t].edited, value |-> jobs[t].value,
                                target |-> jobs[t].target, left |-> jobs[t].left, sole |-> jobs[t].sole]
<1> DEFINE j == [at |-> place, next |-> 1, docs |-> Initially,
                 got |-> jobs[t].got, edited |-> jobs[t].edited, value |-> jobs[t].value,
                 target |-> jobs[t].target, left |-> jobs[t].left, sole |-> jobs[t].sole]
<1>1. jobs[t] \in Job
  BY DEF Jobs
<1>2. StartsFetch(t, place) = j
  <2> DEFINE i == jobs[t]
             a == [i EXCEPT !.at = place]
             b == [a EXCEPT !.next = 1]
             c == [b EXCEPT !.docs = Initially]
  <2>1. StartsFetch(t, place) = c
    BY DEF StartsFetch
  <2>2. i \in Job
    BY <1>1
  <2>3. j = [at |-> place, next |-> 1, docs |-> Initially, got |-> i.got, edited |-> i.edited,
             value |-> i.value, target |-> i.target, left |-> i.left, sole |-> i.sole]
    OBVIOUS
  <2> HIDE DEF i
  <2>4. a = [at |-> place, next |-> i.next, docs |-> i.docs, got |-> i.got, edited |-> i.edited,
             value |-> i.value, target |-> i.target, left |-> i.left, sole |-> i.sole]
    BY <2>2 DEF Job
  <2> HIDE DEF a
  <2>5. b = [at |-> place, next |-> 1, docs |-> i.docs, got |-> i.got, edited |-> i.edited,
             value |-> i.value, target |-> i.target, left |-> i.left, sole |-> i.sole]
    BY <2>4
  <2> HIDE DEF b
  <2>6. c = [at |-> place, next |-> 1, docs |-> Initially, got |-> i.got, edited |-> i.edited,
             value |-> i.value, target |-> i.target, left |-> i.left, sole |-> i.sole]
    BY <2>5
  <2> HIDE DEF c, j
  <2> QED BY <2>1, <2>3, <2>6
<1>3. j \in Job
  BY <1>1, NewJobType DEF Job
<1> QED BY <1>2, <1>3

LEMMA InitType == Init => TypeInv
<1> SUFFICES ASSUME Init PROVE TypeInv
  OBVIOUS
<1>1. Effective(Initially) \in [Keys -> Nat]
  BY NewJobType, EffectiveType
<1>2. jobs \in Jobs
  BY NewJobType DEF Init, Jobs
<1>3. \A t \in Threads : Ready(jobs[t])
  BY DEF Init, Ready, NewJob
<1>4. /\ centre \in Documents /\ snapshot \in Documents /\ known \in Documents
      /\ settings \in AllSettings /\ runtime \in [Keys -> Nat] /\ derived \in AllSettings
  BY <1>1, NewJobType DEF Init, AllSettings
<1>5. changes \in 0..MaxChanges /\ faults \in 0..MaxFaults
  BY ConfigAssumption DEF Init
<1>6. disturbed \in BOOLEAN
  BY DEF Init
<1> QED BY <1>2, <1>3, <1>4, <1>5, <1>6, TypeParts DEF TypeInv

LEMMA TakenType ==
    ASSUME jobs \in Jobs, NEW t \in Threads, jobs[t].next \in Docs, NEW text \in [Keys -> Nat]
    PROVE  \E j \in Job : Taken(t, text) = [jobs EXCEPT ![t] = j] /\ j.at = jobs[t].at /\ j.got = jobs[t].got /\ j.value = jobs[t].value
                     /\ j.next = jobs[t].next + 1 /\ j.docs = [jobs[t].docs EXCEPT ![jobs[t].next] = text]
                     /\ j.edited = jobs[t].edited /\ j.target = jobs[t].target /\ j.left = jobs[t].left
                     /\ j.sole = jobs[t].sole
<1> DEFINE i == jobs[t]
           next == i.next + 1
           docs == [i.docs EXCEPT ![i.next] = text]
           a == [i EXCEPT !.next = next]
           j == [a EXCEPT !.docs = docs]
           A == [jobs EXCEPT ![t] = a]
           B == [A EXCEPT ![t].docs[i.next] = text]
<1>1. i \in Job
  BY DEF Jobs
<1>2. i.next \in Docs /\ next \in 1..(Len(DataIds) + 1)
  BY DocsAreNumbers DEF Docs
<1>3. docs \in Documents
  BY <1>1, <1>2 DEF Job, Documents
<1>4. Taken(t, text) = [[jobs EXCEPT ![t].next = @ + 1] EXCEPT ![t].docs[i.next] = text]
  BY DEF Taken
<1>5. [jobs EXCEPT ![t].next = @ + 1] = A
  BY DEF Jobs
<1>6. Taken(t, text) = B
  BY <1>4, <1>5
<1>7. A[t] = a /\ \A u \in Threads \ {t} : A[u] = jobs[u]
  BY DEF Jobs
<1>8. a.docs = i.docs
  BY <1>1 DEF Job
<1>9. B = [jobs EXCEPT ![t] = j]
  <2> HIDE DEF a
  <2> QED BY <1>7, <1>8 DEF Jobs
<1> HIDE DEF next, docs, i
<1>10. j = [at |-> i.at, next |-> next, docs |-> docs, got |-> i.got, edited |-> i.edited,
            value |-> i.value, target |-> i.target, left |-> i.left, sole |-> i.sole]
  <2>1. a = [at |-> i.at, next |-> next, docs |-> i.docs, got |-> i.got, edited |-> i.edited,
             value |-> i.value, target |-> i.target, left |-> i.left, sole |-> i.sole]
    BY <1>1 DEF Job
  <2> HIDE DEF a
  <2> QED BY <2>1
<1> HIDE DEF a, B
<1>11. j \in Job /\ j.at = i.at /\ j.got = i.got /\ j.value = i.value /\ j.next = next /\ j.docs = docs
       /\ j.edited = i.edited /\ j.target = i.target /\ j.left = i.left /\ j.sole = i.sole
  BY <1>1, <1>2, <1>3, <1>10 DEF Job
<1> HIDE DEF j
<1> QED BY <1>6, <1>9, <1>11 DEF i, next, docs

LEMMA TakenPlain ==
    ASSUME jobs \in Jobs, NEW t \in Threads, jobs[t].next \in Docs, NEW text \in [Keys -> Nat]
    PROVE  \E j \in Job : Taken(t, text) = [jobs EXCEPT ![t] = j] /\ j.at = jobs[t].at /\ j.got = jobs[t].got /\ j.value = jobs[t].value
BY TakenType

-----------------------------------------------------------------------------
(***************************************************************************)
(* What the actions do.                                                    *)
(***************************************************************************)
\* Thread t goes on to a job that is ready, and not from publishing to a reload.
Moves(t) ==
    \E j \in Job :
        /\ Ready(j) /\ Step(t, j)
        /\ ~(jobs[t].at = "publish" /\ j.at = "candidate")

\* What is not in the jobs keeps its type.
RestTyped ==
    /\ centre' \in Documents /\ snapshot' \in Documents /\ known' \in Documents
    /\ settings' \in AllSettings /\ runtime' \in [Keys -> Nat] /\ derived' \in AllSettings
    /\ changes' \in 0..MaxChanges /\ faults' \in 0..MaxFaults /\ disturbed' \in BOOLEAN

LEMMA Moving ==
    ASSUME TypeInv, NEW t \in Threads, NEW j \in Job, Ready(j), Becomes(t, j),
           ~(jobs[t].at = "publish" /\ j.at = "candidate")
    PROVE  Moves(t)
BY BecomesStep DEF TypeInv, Moves

LEMMA FaultTyped == TypeInv /\ (Fault \/ UNCHANGED faults) => faults' \in 0..MaxFaults
<1>1. MaxFaults \in Nat
  BY ConfigAssumption
<1> QED BY <1>1, TypeParts DEF TypeInv, Fault

LEMMA JobOf == ASSUME TypeInv, NEW t \in Threads PROVE jobs[t] \in Job /\ Ready(jobs[t])
BY JobsOf DEF TypeInv, Jobs

LEMMA FetchMoves ==
    ASSUME TypeInv, NEW t \in Threads, FetchDocument(t) \/ UseSnapshot(t)
    PROVE  Moves(t) /\ RestTyped
<1> DEFINE d == jobs[t].next
<1>1. jobs \in Jobs /\ jobs[t] \in Job /\ d \in Docs /\ jobs[t].at \in Fetching
  BY JobsOf, JobOf DEF TypeInv, FetchDocument, UseSnapshot
<1>2. centre[d] \in [Keys -> Nat] /\ snapshot[d] \in [Keys -> Nat]
  BY <1>1, TypeParts DEF TypeInv, Documents
<1>3. CASE FetchDocument(t)
  <2>1. PICK j \in Job : Taken(t, centre[d]) = [jobs EXCEPT ![t] = j] /\ j.at = jobs[t].at /\ j.got = jobs[t].got /\ j.value = jobs[t].value
    BY <1>1, <1>2, TakenPlain
  <2>2. Becomes(t, j)
    BY <1>3, <2>1 DEF FetchDocument, Becomes
  <2>3. (Ready(j) /\ j.at # "candidate") \/ (Ready(j) /\ jobs[t].at # "publish")
    BY <1>1, <2>1, JobOf DEF Ready, Fetching
  <2>4. Moves(t)
    BY <2>2, <2>3, Moving
  <2>5. snapshot' \in Documents
    BY <1>2, <1>3, TypeParts DEF FetchDocument, TypeInv, Documents
  <2> QED BY <1>3, <2>4, <2>5, FaultTyped, TypeParts DEF FetchDocument, TypeInv, RestTyped
<1>4. CASE UseSnapshot(t)
  <2>1. PICK j \in Job : Taken(t, snapshot[d]) = [jobs EXCEPT ![t] = j] /\ j.at = jobs[t].at /\ j.got = jobs[t].got /\ j.value = jobs[t].value
    BY <1>1, <1>2, TakenPlain
  <2>2. Step(t, j)
    BY <1>4, <2>1, DisturbStep DEF UseSnapshot, TypeInv
  <2>3. Ready(j) /\ jobs[t].at # "publish"
    BY <1>1, <2>1, JobOf DEF Ready, Fetching
  <2>4. Moves(t)
    BY <2>2, <2>3 DEF Moves
  <2>5. disturbed' \in BOOLEAN
    BY <1>4 DEF UseSnapshot, Disturb
  <2> QED BY <1>4, <2>4, <2>5, FaultTyped, TypeParts DEF UseSnapshot, TypeInv, RestTyped
<1> QED BY <1>3, <1>4

LEMMA PollerMoves ==
    ASSUME TypeInv, StartPoller \/ Seed \/ Tick \/ Compare
    PROVE  Moves(Poller) /\ RestTyped
<1>1. Poller \in Threads /\ jobs \in Jobs /\ jobs[Poller] \in Job
  BY PollerIsThread, JobsOf, JobOf DEF TypeInv
<1>2. {"idle", "seed", "tick", "candidate"} \subseteq Places
  BY DEF Places, Reloading
<1>3. CASE StartPoller
  <2>1. StartsFetch(Poller, "seed") \in Job /\ StartsFetch(Poller, "seed").at = "seed"
    BY <1>1, <1>2, StartsFetchType
  <2>2. Moves(Poller)
    BY <1>1, <1>3, <2>1, Moving DEF StartPoller, Ready
  <2> QED BY <1>3, <2>2, TypeParts DEF StartPoller, TypeInv, RestTyped
<1>4. CASE Tick
  <2>1. StartsFetch(Poller, "tick") \in Job /\ StartsFetch(Poller, "tick").at = "tick"
    BY <1>1, <1>2, StartsFetchType
  <2>2. Moves(Poller)
    BY <1>1, <1>4, <2>1, Moving DEF Tick, Ready
  <2> QED BY <1>4, <2>2, TypeParts DEF Tick, TypeInv, RestTyped
<1>5. Rests("idle") \in Job /\ Rests("idle").at = "idle" /\ jobs[Poller].docs \in Documents
  BY <1>1, <1>2, RestsType DEF Job
<1>6. CASE Seed
  <2> DEFINE when == ~(Quiet /\ Follow(known'))
  <2>1. Disturb(when, [jobs EXCEPT ![Poller] = Rests("idle")])
    BY <1>6 DEF Seed
  <2> HIDE DEF when
  <2>2. Step(Poller, Rests("idle"))
    BY <1>1, <1>5, <2>1, DisturbStep DEF TypeInv
  <2>3. Moves(Poller)
    BY <1>5, <2>2 DEF Moves, Ready
  <2>4. disturbed' \in BOOLEAN
    BY <2>1 DEF Disturb
  <2> QED BY <1>5, <1>6, <2>3, <2>4, TypeParts DEF Seed, TypeInv, RestTyped
<1>7. CASE Compare
  <2>1. StartsFetch(Poller, "candidate") \in Job /\ StartsFetch(Poller, "candidate").at = "candidate"
    BY <1>1, <1>2, StartsFetchType
  <2>2. jobs[Poller].at = "tick"
    BY <1>7 DEF Compare, Fetched
  <2>3. CASE known' = known
    BY <1>1, <1>5, <1>7, <2>2, <2>3, Moving, TypeParts DEF Compare, Ready, TypeInv, RestTyped
  <2>4. CASE known' # known
    BY <1>1, <1>5, <1>7, <2>1, <2>2, <2>4, Moving, TypeParts DEF Compare, Ready, TypeInv, RestTyped
  <2> QED BY <2>3, <2>4
<1> QED BY <1>3, <1>4, <1>6, <1>7

LEMMA SoleType ==
    ASSUME NEW a \in Job, NEW s \in BOOLEAN
    PROVE  [a EXCEPT !.sole = s] \in Job /\ [a EXCEPT !.sole = s].at = a.at
BY DEF Job

LEMMA ReloadMoves ==
    ASSUME TypeInv, NEW t \in Threads, ReloadStep(t)
    PROVE  Moves(t) /\ RestTyped
<1>1. jobs \in Jobs /\ jobs[t] \in Job /\ Ready(jobs[t])
  BY JobsOf, JobOf DEF TypeInv
<1>2. {"idle", "over", "clear", "get", "load", "swap", "build", "drop"} \subseteq Places
  BY DEF Places, Reloading
<1>3. jobs[t].docs \in Documents /\ Effective(jobs[t].docs) \in [Keys -> Nat]
  BY <1>1, EffectiveType DEF Job
<1>4. \A place \in {"idle", "over", "clear", "drop"} :
        Rests(place) \in Job /\ Rests(place).at = place /\ Ready(Rests(place))
  BY <1>2, RestsType DEF Ready
<1>5. CASE Validate(t)
  <2>1. Becomes(t, Rests("clear"))
    BY <1>5 DEF Validate
  <2>2. Moves(t)
    BY <1>4, <2>1, Moving
  <2> QED BY <1>5, <2>2, TypeParts DEF Validate, TypeInv, RestTyped
<1>6. CASE AbortReload(t)
  <2> DEFINE place == Aborted(t)
  <2>1. place \in {"idle", "over"}
    BY DEF Aborted
  <2>2. Disturb(TRUE, [jobs EXCEPT ![t] = Rests(place)])
    BY <1>6 DEF AbortReload
  <2> HIDE DEF place
  <2>3. Step(t, Rests(place))
    BY <1>4, <2>1, <2>2, DisturbStep DEF TypeInv
  <2>4. Moves(t)
    BY <1>4, <2>1, <2>3 DEF Moves
  <2>5. disturbed' \in BOOLEAN
    BY <2>2 DEF Disturb
  <2> QED BY <1>6, <2>4, <2>5, FaultTyped, TypeParts DEF AbortReload, TypeInv, RestTyped
<1>7. CASE Clear(t)
  <2> DEFINE i == jobs[t]
             a == [i EXCEPT !.at = "get"]
             j == [a EXCEPT !.sole = TRUE]
             when == ~(\A u \in Threads \ {t} : ~Busy(u))
  <2>1. Disturb(when, [[jobs EXCEPT ![t].at = "get"] EXCEPT ![t].sole = TRUE])
    BY <1>7 DEF Clear
  <2>2. [jobs EXCEPT ![t].at = "get"] = [jobs EXCEPT ![t] = a]
    OBVIOUS
  <2>3. [[jobs EXCEPT ![t] = a] EXCEPT ![t].sole = TRUE] = [jobs EXCEPT ![t] = j]
    <3> HIDE DEF a
    <3> QED BY <1>1 DEF Jobs
  <2> HIDE DEF i, when
  <2>4. a = [at |-> "get", next |-> i.next, docs |-> i.docs, got |-> i.got, edited |-> i.edited,
             value |-> i.value, target |-> i.target, left |-> i.left, sole |-> i.sole]
    BY <1>1 DEF Job, i
  <2> HIDE DEF a
  <2>5. a \in Job /\ a.at = "get"
    BY <1>1, <1>2, <2>4 DEF Job, i
  <2>6. Disturb(when, [jobs EXCEPT ![t] = j])
    BY <2>1, <2>2, <2>3
  <2> HIDE DEF j
  <2>7. j \in Job /\ j.at = "get"
    BY <2>5, SoleType DEF j
  <2>8. Step(t, j) /\ Ready(j)
    BY <2>6, <2>7, DisturbStep DEF TypeInv, Ready
  <2>9. Moves(t)
    BY <2>7, <2>8 DEF Moves
  <2>10. disturbed' \in BOOLEAN
    BY <2>6 DEF Disturb
  <2>11. settings' \in AllSettings
    BY <1>7 DEF Clear, CacheCleared, AllSettings
  <2> QED BY <1>7, <2>9, <2>10, <2>11, TypeParts DEF Clear, TypeInv, RestTyped
<1>8. CASE GetSettings(t)
  <2>1. CASE settings # Nothing
    <3> DEFINE place == IF t \in Queries THEN "build" ELSE "swap"
               g == Goes(t, place)
               j == [g EXCEPT !.got = settings]
    <3>1. place \in {"build", "swap"} /\ settings \in [Keys -> Nat]
      BY <2>1, TypeParts DEF TypeInv, AllSettings
    <3>2. Becomes(t, j)
      BY <1>8, <2>1 DEF GetSettings
    <3> HIDE DEF place
    <3>3. g \in Job /\ g.at = place
      BY <1>1, <1>2, <3>1, GoesType
    <3> HIDE DEF g
    <3>4. j \in Job /\ j.at = place /\ j.got = settings
      BY <3>1, <3>3 DEF Job, AllSettings
    <3> HIDE DEF j
    <3>5. Ready(j)
      BY <3>1, <3>4 DEF Ready
    <3>6. Moves(t)
      BY <3>1, <3>2, <3>4, <3>5, Moving
    <3> QED BY <1>8, <3>6, TypeParts DEF GetSettings, TypeInv, RestTyped
  <2>2. CASE settings = Nothing
    <3>1. StartsFetch(t, "load") \in Job /\ StartsFetch(t, "load").at = "load"
      BY <1>1, <1>2, StartsFetchType
    <3>2. Becomes(t, StartsFetch(t, "load"))
      BY <1>8, <2>2 DEF GetSettings
    <3>3. Ready(StartsFetch(t, "load"))
      BY <3>1 DEF Ready
    <3>4. Moves(t)
      BY <3>1, <3>2, <3>3, Moving
    <3> QED BY <1>8, <3>4, TypeParts DEF GetSettings, TypeInv, RestTyped
  <2> QED BY <2>1, <2>2
<1>9. CASE Load(t)
  <2> DEFINE place == IF t \in Queries THEN "build" ELSE "swap"
             loaded == Effective(jobs[t].docs)
             g == StartsFetch(t, place)
             j == [g EXCEPT !.got = loaded]
  <2>1. place \in {"build", "swap"}
    OBVIOUS
  <2>2. Becomes(t, j) /\ settings' \in {loaded, settings}
    BY <1>9 DEF Load
  <2>3. loaded \in [Keys -> Nat]
    BY <1>3
  <2> HIDE DEF place, loaded
  <2>4. g \in Job /\ g.at = place
    BY <1>1, <1>2, <2>1, StartsFetchType
  <2> HIDE DEF g
  <2>5. j \in Job /\ j.at = place /\ j.got = loaded
    BY <2>3, <2>4 DEF Job, AllSettings
  <2> HIDE DEF j
  <2>6. Ready(j)
    BY <2>1, <2>3, <2>5 DEF Ready
  <2>7. Moves(t)
    BY <2>1, <2>2, <2>5, <2>6, Moving
  <2>8. settings' \in AllSettings
    BY <2>2, <2>3, TypeParts DEF TypeInv, AllSettings
  <2> QED BY <1>9, <2>7, <2>8, TypeParts DEF Load, TypeInv, RestTyped
<1>10. CASE Swap(t)
  <2> DEFINE g == Rests("drop")
             j == [g EXCEPT !.sole = jobs[t].sole]
  <2>1. Becomes(t, j) /\ runtime' = jobs[t].got /\ jobs[t].at = "swap"
    BY <1>10 DEF Swap
  <2>2. g \in Job /\ g.at = "drop" /\ jobs[t].sole \in BOOLEAN
    BY <1>1, <1>4 DEF Job
  <2> HIDE DEF g
  <2>3. j \in Job /\ j.at = "drop"
    BY <2>2 DEF Job
  <2> HIDE DEF j
  <2>4. Moves(t)
    BY <2>1, <2>3, Moving DEF Ready
  <2>5. runtime' \in [Keys -> Nat]
    BY <1>1, <2>1 DEF Ready
  <2> QED BY <1>10, <2>4, <2>5, TypeParts DEF Swap, TypeInv, RestTyped
<1>11. CASE DropCaches(t)
  <2> DEFINE place == IF t = Poller THEN "idle" ELSE "over"
  <2>1. Becomes(t, Rests(place)) /\ place \in {"idle", "over"}
    BY <1>11 DEF DropCaches
  <2> HIDE DEF place
  <2>2. Moves(t)
    BY <1>4, <2>1, Moving
  <2>3. disturbed' \in BOOLEAN /\ derived' \in AllSettings
    BY <1>11 DEF DropCaches, AllSettings
  <2> QED BY <1>11, <2>2, <2>3, TypeParts DEF DropCaches, TypeInv, RestTyped
<1> QED BY <1>5, <1>6, <1>7, <1>8, <1>9, <1>10, <1>11 DEF ReloadStep

LEMMA QueryMoves ==
    ASSUME TypeInv, NEW q \in Queries, StartQuery(q) \/ Build(q)
    PROVE  Moves(q) /\ RestTyped
<1>1. q \in Threads /\ jobs \in Jobs /\ jobs[q] \in Job
  BY PollerIsThread, JobsOf, JobOf DEF TypeInv
<1>2. {"get", "over"} \subseteq Places
  BY DEF Places, Reloading
<1>3. CASE StartQuery(q)
  <2>1. Goes(q, "get") \in Job /\ Goes(q, "get").at = "get"
    BY <1>1, <1>2, GoesType
  <2>2. Moves(q)
    BY <1>1, <1>3, <2>1, Moving DEF StartQuery, Ready
  <2> QED BY <1>3, <2>2, TypeParts DEF StartQuery, TypeInv, RestTyped
<1>4. CASE Build(q)
  <2>1. Rests("over") \in Job /\ Rests("over").at = "over"
    BY <1>2, RestsType
  <2>2. Moves(q)
    BY <1>1, <1>4, <2>1, Moving DEF Build, Ready
  <2>3. derived' \in AllSettings
    BY <1>1, <1>4, TypeParts DEF Build, Job, TypeInv
  <2> QED BY <1>4, <2>2, <2>3, TypeParts DEF Build, TypeInv, RestTyped
<1> QED BY <1>3, <1>4

LEMMA WriterMoves ==
    ASSUME TypeInv, NEW w \in Writers,
           StartReload(w) \/ StartWrite(w) \/ Route(w) \/ \E d \in Docs : RefuseWrite(w, d)
    PROVE  Moves(w) /\ RestTyped
<1>1. w \in Threads /\ jobs \in Jobs /\ jobs[w] \in Job /\ Ready(jobs[w])
  BY PollerIsThread, JobsOf, JobOf DEF TypeInv
<1>2. {"candidate", "merge", "publish", "over"} \subseteq Places
  BY DEF Places, Reloading
<1>3. CASE StartReload(w)
  <2>1. StartsFetch(w, "candidate") \in Job /\ StartsFetch(w, "candidate").at = "candidate"
    BY <1>1, <1>2, StartsFetchType
  <2>2. jobs[w].at = "new"
    BY <1>3 DEF StartReload
  <2>3. Moves(w)
    BY <1>1, <1>3, <2>1, <2>2, Moving DEF StartReload, Ready
  <2> QED BY <1>3, <2>3, TypeParts DEF StartReload, TypeInv, RestTyped
<1>4. CASE StartWrite(w)
  <2>1. PICK edited \in SUBSET Keys \ {{}}, target \in Targets :
          Becomes(w, [StartsFetch(w, "merge") EXCEPT !.edited = edited, !.value = changes + 1, !.target = target])
    BY <1>4 DEF StartWrite
  <2> DEFINE g == StartsFetch(w, "merge")
             a == [g EXCEPT !.edited = edited]
             b == [a EXCEPT !.value = changes + 1]
             j == [b EXCEPT !.target = target]
  <2>2. Becomes(w, j)
    BY <2>1
  <2>3. changes + 1 \in 0..MaxChanges /\ changes + 1 \in Nat /\ changes + 1 # 0
    <3>1. MaxChanges \in Nat /\ changes \in 0..MaxChanges
      BY ConfigAssumption, TypeParts DEF TypeInv
    <3>2. changes < MaxChanges
      BY <1>4 DEF StartWrite
    <3> QED BY <3>1, <3>2
  <2>4. edited \in SUBSET Keys /\ target \in {0} \cup Docs
    BY ConfigAssumption
  <2>5. g \in Job /\ g.at = "merge"
    BY <1>1, <1>2, StartsFetchType
  <2> HIDE DEF g
  <2>6. a \in Job /\ a.at = "merge"
    BY <2>4, <2>5 DEF Job
  <2> HIDE DEF a
  <2>7. b \in Job /\ b.at = "merge" /\ b.value = changes + 1
    BY <2>3, <2>6 DEF Job
  <2> HIDE DEF b
  <2>8. j \in Job /\ j.at = "merge" /\ j.value = changes + 1
    BY <2>4, <2>7 DEF Job
  <2> HIDE DEF j
  <2>9. Moves(w)
    BY <1>1, <2>2, <2>3, <2>8, Moving DEF Ready
  <2> QED BY <1>4, <2>3, <2>9, TypeParts DEF StartWrite, TypeInv, RestTyped
<1>5. CASE Route(w)
  <2> DEFINE g == Goes(w, "publish")
             homes == {Home(jobs[w], k) : k \in jobs[w].edited}
             j == [g EXCEPT !.left = homes]
  <2>1. Becomes(w, j) /\ jobs[w].at = "merge"
    BY <1>5 DEF Route, Fetched
  <2>2. homes \in SUBSET Docs
    BY <1>1, HomeType DEF Job
  <2>3. g \in Job /\ g.at = "publish" /\ g.value = jobs[w].value
    BY <1>1, <1>2, GoesType
  <2> HIDE DEF g, homes
  <2>4. j \in Job /\ j.at = "publish" /\ j.value = jobs[w].value
    BY <2>2, <2>3 DEF Job
  <2> HIDE DEF j
  <2>5. Ready(j)
    BY <1>1, <2>1, <2>4 DEF Ready
  <2>6. Moves(w)
    BY <1>1, <2>1, <2>4, <2>5, Moving
  <2> QED BY <1>5, <2>6, TypeParts DEF Route, TypeInv, RestTyped
<1>6. ASSUME NEW d \in Docs, RefuseWrite(w, d) PROVE Moves(w) /\ RestTyped
  <2>1. Rests("over") \in Job /\ Rests("over").at = "over"
    BY <1>2, RestsType
  <2>2. Moves(w)
    BY <1>1, <1>6, <2>1, Moving DEF RefuseWrite, Ready
  <2>3. centre' \in Documents
    <3>1. Merged(jobs[w], d) \in [Keys -> Nat]
      BY <1>1, MergedType
    <3> QED BY <1>6, <3>1, TypeParts DEF RefuseWrite, TypeInv, Documents
  <2> QED BY <1>6, <2>2, <2>3, FaultTyped, TypeParts DEF RefuseWrite, TypeInv, RestTyped
<1> QED BY <1>3, <1>4, <1>5, <1>6

LEMMA PublishSteps ==
    ASSUME TypeInv, NEW w \in Writers, NEW d \in Docs, Publish(w, d)
    PROVE  /\ \E j \in Job : Ready(j) /\ Step(w, j)
           /\ RestTyped
           /\ \/ Moves(w)
              \/ jobs[w].left = {d}
<1>1. w \in Threads /\ jobs \in Jobs /\ jobs[w] \in Job /\ Ready(jobs[w])
  BY PollerIsThread, JobsOf, JobOf DEF TypeInv
<1> DEFINE rest == jobs[w].left \ {d}
           i == jobs[w]
           j == [i EXCEPT !.left = rest]
<1>2. rest \in SUBSET Docs /\ i.at = "publish" /\ d \in i.left
  BY <1>1 DEF Job, Publish
<1>3. centre' \in Documents
  <2>1. Merged(jobs[w], d) \in [Keys -> Nat]
    BY <1>1, MergedType
  <2> QED BY <2>1, TypeParts DEF Publish, TypeInv, Documents
<1>4. RestTyped
  BY <1>3, TypeParts DEF Publish, TypeInv, RestTyped
<1>5. CASE rest = {}
  <2>1. Rests("candidate") \in Job /\ Rests("candidate").at = "candidate"
    BY RestsType DEF Places, Reloading
  <2>2. Step(w, Rests("candidate")) /\ Ready(Rests("candidate"))
    BY <1>1, <1>5, <2>1, BecomesStep DEF Publish, TypeInv, Ready
  <2>3. jobs[w].left = {d}
    BY <1>2, <1>5
  <2> QED BY <1>4, <2>1, <2>2, <2>3
<1>6. CASE rest # {}
  <2>1. Becomes(w, j)
    BY <1>6 DEF Publish
  <2> HIDE DEF rest
  <2>2. j \in Job /\ j.at = i.at /\ j.value = i.value /\ j.got = i.got
    BY <1>1, <1>2 DEF Job
  <2>3. Ready(j)
    BY <1>1, <2>2 DEF Ready
  <2> HIDE DEF j
  <2>4. Moves(w)
    BY <1>1, <1>2, <2>1, <2>2, <2>3, Moving
  <2> QED BY <1>4, <2>4 DEF Moves
<1> QED BY <1>5, <1>6

-----------------------------------------------------------------------------
(***************************************************************************)
(* The theorems of the specification.                                      *)
(***************************************************************************)
LEMMA StepReady ==
    ASSUME TypeInv, NEW t \in Threads, NEW j \in Job, Ready(j), Step(t, j), RestTyped
    PROVE  TypeInv'
<1>1. \A u \in Threads : Ready(jobs'[u])
  BY DEF TypeInv, Step, Alike, Ready
<1>2. jobs' \in Jobs
  BY DEF Step
<1> QED BY <1>1, <1>2, TypeParts DEF TypeInv, RestTyped, TypeOK, Jobs, Job, Places

LEMMA EditTyped == TypeInv /\ Edit => TypeInv'
<1> SUFFICES ASSUME TypeInv, Edit PROVE TypeInv'
  OBVIOUS
<1>1. PICK e \in Edits : centre' = [centre EXCEPT ![e[1]][e[2]] = changes + 1]
  BY DEF Edit
<1>2. changes + 1 \in 0..MaxChanges /\ changes + 1 \in Nat
  <2>1. MaxChanges \in Nat /\ changes \in 0..MaxChanges
    BY ConfigAssumption, TypeParts DEF TypeInv
  <2>2. changes < MaxChanges
    BY DEF Edit
  <2> QED BY <2>1, <2>2
<1>3. centre' \in Documents
  <2>1. e[1] \in Docs /\ e[2] \in Keys
    BY ConfigAssumption
  <2> QED BY <1>1, <1>2, <2>1, TypeParts DEF TypeInv, Documents
<1> QED BY <1>2, <1>3, TypeParts DEF Edit, TypeInv, TypeOK, Jobs, Job, Places

\* Every step that is not an edit in the console is a thread's.
LEMMA StepCases ==
    ASSUME TypeInv, Next
    PROVE  \/ Edit
           \/ RestTyped /\ \E t \in Threads : Moves(t)
           \/ \E w \in Writers, d \in Docs : Publish(w, d)
<1>1. CASE Edit
  BY <1>1
<1>2. CASE PollerStep
  BY <1>2, PollerIsThread, PollerMoves, FetchMoves, ReloadMoves DEF PollerStep
<1>3. ASSUME NEW w \in Writers, WriterStep(w)
      PROVE  \/ RestTyped /\ Moves(w)
             \/ \E d \in Docs : Publish(w, d)
  BY <1>3, PollerIsThread, WriterMoves, FetchMoves, ReloadMoves DEF WriterStep
<1>4. ASSUME NEW q \in Queries, QueryStep(q)
      PROVE  RestTyped /\ Moves(q)
  <2>1. CASE StartQuery(q) \/ Build(q)
    BY <2>1, QueryMoves
  <2>2. CASE FetchDocument(q) \/ UseSnapshot(q)
    BY <2>2, PollerIsThread, FetchMoves
  <2>3. CASE GetSettings(q) \/ Load(q)
    BY <2>3, PollerIsThread, ReloadMoves DEF ReloadStep
  <2> QED BY <1>4, <2>1, <2>2, <2>3 DEF QueryStep
<1> QED BY <1>1, <1>2, <1>3, <1>4, PollerIsThread DEF Next

LEMMA NextTyped == TypeInv /\ [Next]_vars => TypeInv'
<1> SUFFICES ASSUME TypeInv, [Next]_vars PROVE TypeInv'
  OBVIOUS
<1>1. CASE UNCHANGED vars
  BY <1>1 DEF vars, TypeInv, TypeOK, Ready
<1>2. CASE Next
  <2>1. CASE Edit
    BY <2>1, EditTyped
  <2>2. CASE RestTyped /\ \E t \in Threads : Moves(t)
    BY <2>2, StepReady DEF Moves
  <2>3. ASSUME NEW w \in Writers, NEW d \in Docs, Publish(w, d) PROVE TypeInv'
    BY <2>3, PollerIsThread, PublishSteps, StepReady
  <2> QED BY <1>2, <2>1, <2>2, <2>3, StepCases
<1> QED BY <1>1, <1>2

\* Settings, documents and the locals of every thread keep their types; above
\* all, what a reload gives the query runtime are settings, never the cleared
\* cache.
THEOREM TypeCorrect == Spec => []TypeOK
<1>1. TypeInv => TypeOK
  BY DEF TypeInv
<1> QED BY <1>1, InitType, NextTyped, PTL DEF Spec

LEMMA PublishExact ==
    ASSUME TypeInv, NEW w \in Writers, NEW d \in Docs, Publish(w, d), jobs[w].left = {d},
           jobs[w].target = 0, Untouched(w)
    PROVE  Effective(centre') =
             [k \in Keys |-> IF k \in jobs[w].edited THEN jobs[w].value ELSE Effective(jobs[w].docs)[k]]
<1> DEFINE job == jobs[w]
           homes == {Home(job, k) : k \in job.edited}
           new == [c \in Docs |-> Merged(job, c)]
<1>1. job \in Job /\ job.value # 0
  BY PollerIsThread, JobOf DEF Publish, Ready
<1>2. job.docs \in Documents /\ job.edited \in SUBSET Keys /\ job.value \in Nat \ {0}
  BY <1>1 DEF Job
<1>3. centre' = [centre EXCEPT ![d] = Merged(job, d)]
  BY DEF Publish
<1>4. centre \in Documents
  BY TypeParts DEF TypeInv
<1>5. \A c \in Docs : centre[c] = IF c \in homes \ {d} THEN Merged(job, c) ELSE job.docs[c]
  BY DEF Untouched
<1>6. \A c \in Docs : c \notin homes => Merged(job, c) = job.docs[c]
  BY <1>2, ElsewhereUnchanged
<1> HIDE DEF homes
<1>7. \A c \in Docs : centre'[c] = Merged(job, c)
  <2> SUFFICES ASSUME NEW c \in Docs PROVE centre'[c] = Merged(job, c)
    OBVIOUS
  <2>1. CASE c = d
    BY <1>3, <1>4, <2>1 DEF Documents
  <2>2. CASE c # d
    BY <1>3, <1>4, <1>5, <1>6, <2>2 DEF Documents
  <2> QED BY <2>1, <2>2
<1>8. centre' = new
  BY <1>3, <1>4, <1>7 DEF Documents
<1>9. Effective(new) = [k \in Keys |-> IF k \in job.edited THEN job.value ELSE Effective(job.docs)[k]]
  BY <1>2, WriteIsExact
<1> HIDE DEF new
<1> QED BY <1>8, <1>9

\* However the documents overlap and whatever else is going on, a write that
\* names no document and that nothing comes between changes the configuration
\* in force by exactly what was edited.
THEOREM WritesChangeWhatWasEdited == Spec => WritesAreExact
<1> DEFINE Exact ==
      \A w \in Writers :
        /\ jobs[w].at = "publish" /\ jobs'[w].at = "candidate"
        /\ jobs[w].target = 0 /\ Untouched(w)
        => Effective(centre') =
             [k \in Keys |-> IF k \in jobs[w].edited THEN jobs[w].value ELSE Effective(jobs[w].docs)[k]]
<1>1. TypeInv /\ [Next]_vars => [Exact]_vars
  <2> SUFFICES ASSUME TypeInv, Next, NEW w \in Writers,
                      jobs[w].at = "publish", jobs'[w].at = "candidate",
                      jobs[w].target = 0, Untouched(w)
               PROVE  Effective(centre') =
                        [k \in Keys |-> IF k \in jobs[w].edited THEN jobs[w].value ELSE Effective(jobs[w].docs)[k]]
    OBVIOUS
  <2>1. w \in Threads
    BY PollerIsThread
  <2>2. ASSUME NEW t \in Threads, Moves(t) PROVE FALSE
    BY <2>1, <2>2 DEF Moves, Step, Alike
  <2>3. ~Edit
    BY DEF Edit
  <2>4. PICK v \in Writers, d \in Docs : Publish(v, d)
    BY <2>2, <2>3, StepCases
  <2>5. v = w
    BY <2>1, <2>4, PublishSteps DEF Step, Alike
  <2>6. jobs[w].left = {d}
    BY <2>2, <2>1, <2>4, <2>5, PublishSteps
  <2> QED BY <2>4, <2>5, <2>6, PublishExact
<1> QED BY <1>1, InitType, NextTyped, PTL DEF Spec, WritesAreExact

-----------------------------------------------------------------------------
(***************************************************************************)
(* Agreement: what is in force follows the documents.                      *)
(*                                                                         *)
(* First, no text of a document comes back once it has been replaced: each *)
(* change brings a value of its own into the document it changes.          *)
(***************************************************************************)
\* No text of document d, wherever it is held, has value x.
Free(x, d) ==
    \A k \in Keys :
        /\ centre[d][k] # x /\ snapshot[d][k] # x /\ known[d][k] # x
        /\ \A u \in Threads : jobs[u].docs[d][k] # x

\* A write whose value is still to be published, and where.
Pending(job) == job.at \in {"merge", "publish"}
Awaits(job, d) == job.at = "publish" => d \in job.left
Homed(job) == job.at = "publish" => \A d \in job.left : \E k \in job.edited : Home(job, k) = d

ValuesInv ==
    /\ \A x \in (changes + 1)..MaxChanges, d \in Docs : Free(x, d)
    /\ \A w \in Writers : Pending(jobs[w]) =>
         /\ jobs[w].value \in 1..changes
         /\ \A d \in Docs : Awaits(jobs[w], d) => Free(jobs[w].value, d)
         /\ \A v \in Writers \ {w} : Pending(jobs[v]) => jobs[v].value # jobs[w].value
         /\ Homed(jobs[w])

\* Every text of document d but the centre's is a copy of an older one.
Copied(d) ==
    /\ snapshot'[d] \in {snapshot[d], centre[d]}
    /\ known'[d] = known[d] \/ \E u \in Threads : known'[d] = jobs[u].docs[d]
    /\ \A u \in Threads : jobs'[u].docs[d] \in {Initially[d], centre[d], snapshot[d], jobs[u].docs[d]}

\* The write of thread t replaces document d, which job j no longer awaits.
Replaces(t, j, d) ==
    /\ t \in Writers /\ jobs[t].at = "publish" /\ d \in jobs[t].left
    /\ centre'[d] = Merged(jobs[t], d)
    /\ ~(Pending(j) /\ Awaits(j, d))

\* What a thread's step does to the values of the documents.
ValuesStep(t, j) ==
    /\ changes' = changes
    /\ \A d \in Docs : Copied(d) /\ (centre'[d] = centre[d] \/ Replaces(t, j, d))
    /\ Pending(j) /\ t \in Writers =>
         /\ Pending(jobs[t]) /\ j.value = jobs[t].value /\ Homed(j)
         /\ \A d \in Docs : Awaits(j, d) => Awaits(jobs[t], d)

LEMMA FreeKept ==
    ASSUME NEW d \in Docs, NEW x \in 1..MaxChanges, Free(x, d), Copied(d),
           \A k \in Keys : centre'[d][k] # x
    PROVE  Free(x, d)'
<1>1. \A k \in Keys : Initially[d][k] # x
  BY ConfigAssumption
<1> QED BY <1>1 DEF Free, Copied

LEMMA AlikeHome ==
    ASSUME NEW i, NEW j, Alike(i, j)
    PROVE  /\ Pending(i) <=> Pending(j)
           /\ \A d : Awaits(i, d) <=> Awaits(j, d)
           /\ Homed(i) <=> Homed(j)
           /\ i.value = j.value
<1>1. \A k : Home(i, k) = Home(j, k)
  BY DEF Alike, Home
<1> QED BY <1>1 DEF Alike, Pending, Awaits, Homed

LEMMA ValuesKept ==
    ASSUME TypeInv, ValuesInv, NEW t \in Threads, NEW j \in Job, Step(t, j), ValuesStep(t, j)
    PROVE  ValuesInv'
<1>0. /\ changes' = changes /\ changes \in 0..MaxChanges /\ MaxChanges \in Nat
      /\ \A w \in Writers : w \in Threads
  BY PollerIsThread, ConfigAssumption, TypeParts DEF TypeInv, ValuesStep
\* What is free stays free, but for what t publishes where it publishes it.
<1>1. ASSUME NEW x \in 1..MaxChanges, NEW d \in Docs, Free(x, d),
             Replaces(t, j, d) => x # jobs[t].value
      PROVE  Free(x, d)'
  <2>1. ASSUME NEW k \in Keys PROVE centre'[d][k] # x
    <3>1. CASE centre'[d] = centre[d]
      BY <1>1, <3>1 DEF Free
    <3>2. CASE Replaces(t, j, d)
      <4>1. jobs[t].docs[d][k] # x
        BY <1>1 DEF Free
      <4>2. centre'[d][k] = jobs[t].value \/ centre'[d][k] = jobs[t].docs[d][k]
        BY <3>2 DEF Merged, Replaces
      <4> QED BY <1>1, <3>2, <4>1, <4>2
    <3> QED BY <3>1, <3>2 DEF ValuesStep
  <2>2. Copied(d)
    BY DEF ValuesStep
  <2> QED BY <1>1, <2>1, <2>2, FreeKept
<1>2. ASSUME NEW d \in Docs, Replaces(t, j, d)
      PROVE  t \in Writers /\ Pending(jobs[t]) /\ jobs[t].value \in 1..changes
  BY <1>2 DEF Replaces, Pending, ValuesInv
<1>3. ASSUME NEW x \in (changes + 1)..MaxChanges, NEW d \in Docs
      PROVE  Free(x, d)'
  <2>1. Free(x, d) /\ x \in 1..MaxChanges
    BY <1>0 DEF ValuesInv
  <2>2. Replaces(t, j, d) => x # jobs[t].value
    BY <1>0, <1>2
  <2> QED BY <1>1, <2>1, <2>2
\* The writers that are pending were so before, with the values they have now.
<1>4. \A w \in Writers : jobs'[w].at = IF w = t THEN j.at ELSE jobs[w].at
  BY <1>0 DEF Step, Alike
<1>5. ASSUME NEW w \in Writers, Pending(jobs'[w])
      PROVE  /\ Pending(jobs[w]) /\ jobs'[w].value = jobs[w].value /\ Homed(jobs'[w])
             /\ \A d \in Docs : Awaits(jobs'[w], d) => Awaits(jobs[w], d)
             /\ \A d \in Docs : w = t /\ Awaits(jobs'[w], d) => ~Replaces(t, j, d)
  <2>1. CASE w = t
    <3>1. Alike(jobs'[t], j)
      BY DEF Step
    <3>2. Pending(j) /\ jobs'[t].value = j.value /\ (Homed(jobs'[t]) <=> Homed(j))
          /\ \A d : Awaits(jobs'[t], d) <=> Awaits(j, d)
      BY <1>5, <2>1, <3>1, AlikeHome
    <3> QED BY <2>1, <3>2 DEF ValuesStep, Replaces
  <2>2. CASE w # t
    <3>1. Alike(jobs'[w], jobs[w])
      BY <1>0, <2>2 DEF Step
    <3>2. Pending(jobs[w]) /\ jobs'[w].value = jobs[w].value /\ (Homed(jobs'[w]) <=> Homed(jobs[w]))
          /\ \A d : Awaits(jobs'[w], d) <=> Awaits(jobs[w], d)
      BY <1>5, <3>1, AlikeHome
    <3> QED BY <2>2, <3>2 DEF ValuesInv
  <2> QED BY <2>1, <2>2
<1>6. ASSUME NEW w \in Writers, Pending(jobs'[w])
      PROVE  /\ jobs'[w].value \in 1..changes'
             /\ \A d \in Docs : Awaits(jobs'[w], d) => (Free(jobs[w].value, d))'
             /\ \A v \in Writers \ {w} : Pending(jobs'[v]) => jobs'[v].value # jobs'[w].value
             /\ Homed(jobs'[w])
  <2>1. PICK x \in 1..changes : x = jobs[w].value
    BY <1>5, <1>6 DEF ValuesInv
  <2>2. jobs'[w].value = x /\ x \in 1..MaxChanges
    BY <1>0, <1>5, <1>6, <2>1
  <2>3. ASSUME NEW d \in Docs, Awaits(jobs'[w], d) PROVE Free(x, d)'
    <3>1. Free(x, d)
      BY <1>5, <1>6, <2>1, <2>3 DEF ValuesInv
    <3>2. Replaces(t, j, d) => x # jobs[t].value
      <4>1. CASE w = t
        BY <1>5, <1>6, <2>3, <4>1
      <4>2. CASE w # t
        BY <1>2, <1>5, <1>6, <2>1, <4>2 DEF ValuesInv
      <4> QED BY <4>1, <4>2
    <3> QED BY <1>1, <2>2, <3>1, <3>2
  <2>4. ASSUME NEW v \in Writers \ {w}, Pending(jobs'[v]) PROVE jobs'[v].value # x
    BY <1>5, <1>6, <2>1, <2>4 DEF ValuesInv
  <2>5. \A d \in Docs : Awaits(jobs'[w], d) => (Free(jobs[w].value, d))'
    BY <2>2, <2>3 DEF Free
  <2> QED BY <1>0, <1>5, <1>6, <2>2, <2>4, <2>5
<1>7. \A w \in Writers : (Pending(jobs[w]))' <=> Pending(jobs'[w])
  BY DEF Pending
<1>8. \A w \in Writers : (Homed(jobs[w]))' <=> Homed(jobs'[w])
  BY DEF Homed, Home
<1>9. \A w \in Writers : \A d \in Docs :
        (Awaits(jobs[w], d))' <=> Awaits(jobs'[w], d)
  BY DEF Awaits
<1>10. \A x \in (changes' + 1)..MaxChanges, d \in Docs : Free(x, d)'
  BY <1>0, <1>3
<1> QED BY <1>6, <1>7, <1>8, <1>9, <1>10 DEF ValuesInv

\* A document that changes does not become what the poller compared last.
NoReturn == \A d \in Docs : centre'[d] = centre[d] \/ centre'[d] # known[d]

LEMMA StepNoReturn ==
    ASSUME TypeInv, ValuesInv, NEW t \in Threads, NEW j \in Job, ValuesStep(t, j)
    PROVE  NoReturn
<1> SUFFICES ASSUME NEW d \in Docs, Replaces(t, j, d) PROVE centre'[d] # known[d]
  BY DEF ValuesStep, NoReturn
<1>1. Pending(jobs[t]) /\ Awaits(jobs[t], d) /\ t \in Writers
  BY DEF Replaces, Pending, Awaits
<1>2. Free(jobs[t].value, d) /\ Homed(jobs[t])
  BY <1>1 DEF ValuesInv
<1>3. PICK k \in jobs[t].edited : Home(jobs[t], k) = d
  BY <1>2 DEF Homed, Replaces
<1>4. k \in Keys
  BY JobOf DEF Job
<1>5. centre'[d][k] = jobs[t].value
  BY <1>3, <1>4 DEF Replaces, Merged
<1>6. known[d][k] # jobs[t].value
  BY <1>2, <1>4 DEF Free
<1> QED BY <1>5, <1>6

LEMMA EditValues ==
    ASSUME TypeInv, ValuesInv, Edit
    PROVE  ValuesInv' /\ NoReturn
<1> DEFINE n == changes + 1
<1>1. n \in 1..MaxChanges /\ changes' = n /\ changes \in Nat /\ MaxChanges \in Nat
  <2>1. MaxChanges \in Nat /\ changes \in 0..MaxChanges
    BY ConfigAssumption, TypeParts DEF TypeInv
  <2> QED BY <2>1 DEF Edit
<1>2. PICK e \in Edits : centre' = [centre EXCEPT ![e[1]][e[2]] = n]
  BY DEF Edit
<1>3. e[1] \in Docs /\ e[2] \in Keys
  BY ConfigAssumption
<1>4. centre \in Documents
  BY TypeParts DEF TypeInv
<1> HIDE DEF n
<1>5. ASSUME NEW d \in Docs, NEW k \in Keys
      PROVE  centre'[d][k] = IF d = e[1] /\ k = e[2] THEN n ELSE centre[d][k]
  BY <1>2, <1>3, <1>4 DEF Documents
<1>6. \A d \in Docs : d # e[1] => centre'[d] = centre[d]
  BY <1>2, <1>3, <1>4 DEF Documents
<1>7. \A d \in Docs : Copied(d)
  BY DEF Edit, Copied
<1>8. ASSUME NEW x \in 1..MaxChanges, NEW d \in Docs, Free(x, d), x # n
      PROVE  Free(x, d)'
  <2>1. \A k \in Keys : centre'[d][k] # x
    BY <1>5, <1>8 DEF Free
  <2> QED BY <1>7, <1>8, <2>1, FreeKept
<1>9. jobs' = jobs
  BY DEF Edit
<1>10. ASSUME NEW x \in (changes' + 1)..MaxChanges, NEW d \in Docs PROVE Free(x, d)'
  <2>1. x \in (changes + 1)..MaxChanges /\ x \in 1..MaxChanges /\ x # n
    BY <1>1 DEF n
  <2> QED BY <1>8, <2>1 DEF ValuesInv
<1>11. ASSUME NEW w \in Writers, Pending(jobs[w]), NEW d \in Docs, Awaits(jobs[w], d)
       PROVE  (Free(jobs[w].value, d))'
  <2>1. PICK x \in 1..changes : x = jobs[w].value
    BY <1>11 DEF ValuesInv
  <2>2. x \in 1..MaxChanges /\ x # n
    BY <1>1, <2>1 DEF n
  <2>3. Free(x, d)
    BY <1>11, <2>1 DEF ValuesInv
  <2>4. Free(x, d)'
    BY <1>8, <2>2, <2>3
  <2> QED BY <1>9, <2>1, <2>4 DEF Free
<1>12. \A w \in Writers : Pending(jobs[w]) => jobs[w].value \in 1..changes'
  <2>1. \A x \in 1..changes : x \in 1..changes'
    BY <1>1 DEF n
  <2> QED BY <2>1 DEF ValuesInv
<1>13. ValuesInv'
  BY <1>9, <1>10, <1>11, <1>12 DEF ValuesInv, Pending, Awaits, Homed, Home
<1>14. NoReturn
  <2>1. Free(n, e[1])
    BY <1>1, <1>3 DEF ValuesInv, n
  <2>2. known[e[1]][e[2]] # n
    BY <1>3, <2>1 DEF Free
  <2> QED BY <1>3, <1>5, <1>6, <2>2 DEF NoReturn
<1> QED BY <1>13, <1>14

-----------------------------------------------------------------------------
(***************************************************************************)
(* What agrees with the documents, unless the poller's next look finds a   *)
(* change.                                                                 *)
(***************************************************************************)
\* The settings x follow documents k, if these are still in the centre.
Agrees(c, k, x) == c = k => x = Effective(k)

\* What a job has fetched for settings, or has taken of them, agrees.
Honest(c, k, job) ==
    /\ job.at = "load" => \A d \in Docs : d < job.next => job.docs[d] = k[d] \/ c[d] # k[d]
    /\ job.at \in {"swap", "build"} => Agrees(c, k, job.got)

Reloaders == Threads \ Queries
Renewing == {"get", "load", "swap"}    \* the runtime is yet to be replaced
Refilling == Renewing \cup {"drop"}    \* the caches are yet to be dropped

\* Nothing was missed, or a reload that runs by itself is about to repair it.
Trust == ~disturbed \/ \E t \in Threads : jobs[t].sole

\* The poller's last digest is in force, or a reload has begun to fetch it.
Unsettled == {"new", "seed", "candidate", "clear"}
Settled == jobs[Poller].at \notin Unsettled

Body ==
    /\ settings = Nothing \/ Agrees(centre, known, settings)
    /\ \A t \in Threads : Honest(centre, known, jobs[t])
    /\ Agrees(centre, known, runtime) \/ \E t \in Reloaders : jobs[t].at \in Renewing
    /\ \/ derived = Nothing \/ Agrees(centre, known, derived)
       \/ \E t \in Reloaders : jobs[t].at \in Refilling

AgreeInv == Trust /\ Settled => Body

\* What the step of t makes of the settings in use is agreed, or renewed by
\* the reload that t goes on with.
Keeps(t, j) ==
    /\ settings' \in {Nothing, settings} \/ Agrees(centre', known', settings')
    /\ \/ runtime' = runtime /\ (t \in Reloaders /\ jobs[t].at \in Renewing => j.at \in Renewing)
       \/ Agrees(centre', known', runtime')
    /\ \/ derived' = derived /\ (t \in Reloaders /\ jobs[t].at \in Refilling => j.at \in Refilling)
       \/ derived' = Nothing \/ Agrees(centre', known', derived')

LEMMA AgreesKept ==
    ASSUME TypeInv, RestTyped, NoReturn, known' = known, NEW x
    PROVE  /\ Agrees(centre, known, x) => Agrees(centre', known', x)
           /\ \A job : Honest(centre, known, job) => Honest(centre', known', job)
<1>1. centre \in Documents /\ centre' \in Documents /\ known \in Documents
  BY TypeParts DEF TypeInv, RestTyped
<1>2. centre' = known => centre = known
  BY <1>1 DEF NoReturn, Documents
<1>3. \A y : Agrees(centre, known, y) => Agrees(centre', known', y)
  BY <1>2 DEF Agrees
<1>4. \A d \in Docs : centre[d] # known[d] => centre'[d] # known'[d]
  BY DEF NoReturn
<1> QED BY <1>3, <1>4 DEF Honest

LEMMA BodyKept ==
    ASSUME TypeInv, RestTyped, NoReturn, known' = known, Body,
           NEW t \in Threads, NEW j \in Job, jobs' = [jobs EXCEPT ![t] = j],
           Honest(centre', known', j), Keeps(t, j)
    PROVE  Body'
<1>1. \A u \in Threads : jobs'[u] = IF u = t THEN j ELSE jobs[u]
  BY JobsOf DEF TypeInv, Jobs
<1>2. settings' = Nothing \/ Agrees(centre', known', settings')
  BY AgreesKept DEF Body, Keeps
<1>3. \A u \in Threads : Honest(centre', known', jobs'[u])
  BY <1>1, AgreesKept DEF Body
<1>4. ASSUME NEW S, \E u \in Reloaders : jobs[u].at \in S,
             t \in Reloaders /\ jobs[t].at \in S => j.at \in S
      PROVE  \E u \in Reloaders : jobs'[u].at \in S
  BY <1>1, <1>4 DEF Reloaders
<1>5. Agrees(centre', known', runtime') \/ \E u \in Reloaders : jobs'[u].at \in Renewing
  <2>1. CASE runtime' = runtime /\ (t \in Reloaders /\ jobs[t].at \in Renewing => j.at \in Renewing)
    <3>1. CASE Agrees(centre, known, runtime)
      BY <2>1, <3>1, AgreesKept
    <3>2. CASE \E u \in Reloaders : jobs[u].at \in Renewing
      BY <1>4, <2>1, <3>2
    <3> QED BY <3>1, <3>2 DEF Body
  <2> QED BY <2>1 DEF Keeps
<1>6. \/ derived' = Nothing \/ Agrees(centre', known', derived')
      \/ \E u \in Reloaders : jobs'[u].at \in Refilling
  <2>1. CASE derived' = derived /\ (t \in Reloaders /\ jobs[t].at \in Refilling => j.at \in Refilling)
    <3>1. CASE derived = Nothing \/ Agrees(centre, known, derived)
      BY <2>1, <3>1, AgreesKept
    <3>2. CASE \E u \in Reloaders : jobs[u].at \in Refilling
      BY <1>4, <2>1, <3>2
    <3> QED BY <3>1, <3>2 DEF Body
  <2> QED BY <2>1 DEF Keeps
<1> QED BY <1>2, <1>3, <1>5, <1>6 DEF Body, Agrees, Honest, Reloaders

\* A thread goes on and settles nothing that was not settled before.
LEMMA Carried ==
    ASSUME TypeInv, RestTyped, AgreeInv, NoReturn, known' = known,
           NEW t \in Threads, NEW j \in Job,
           Trust' => Trust /\ jobs' = [jobs EXCEPT ![t] = j],
           t = Poller /\ j.at \notin Unsettled => jobs[t].at \notin Unsettled,
           Trust' /\ Body => Honest(centre', known', j) /\ Keeps(t, j)
    PROVE  AgreeInv'
<1> SUFFICES ASSUME Trust', Settled' PROVE Body'
  BY DEF AgreeInv
<1>1. jobs'[Poller] = IF Poller = t THEN j ELSE jobs[Poller]
  BY PollerIsThread, JobsOf DEF TypeInv, Jobs
<1>2. Settled
  BY <1>1 DEF Settled
<1>3. Body
  BY <1>2 DEF AgreeInv
<1> QED BY <1>3, BodyKept

LEMMA BecomesTrust ==
    ASSUME TypeInv, NEW t \in Threads, NEW j \in Job, Becomes(t, j),
           disturbed' = disturbed, j.sole => jobs[t].sole
    PROVE  Trust' => Trust /\ jobs' = [jobs EXCEPT ![t] = j]
BY JobsOf DEF TypeInv, Jobs, Becomes, Trust

LEMMA DisturbTrust ==
    ASSUME TypeInv, NEW when, NEW next \in Jobs, Disturb(when, next)
    PROVE  Trust' => ~when /\ disturbed' = disturbed /\ jobs' = next
<1>1. ASSUME when PROVE ~Trust'
  <2>1. \A i \in Job : [i EXCEPT !.sole = FALSE].sole = FALSE
    BY DEF Job
  <2>2. \A u \in Threads : jobs'[u] = [next[u] EXCEPT !.sole = FALSE] /\ next[u] \in Job
    BY <1>1 DEF Disturb, Jobs
  <2>3. \A u \in Threads : ~jobs'[u].sole
    BY <2>1, <2>2
  <2> QED BY <1>1, <2>3 DEF Disturb, Trust
<1>2. disturbed \in BOOLEAN
  BY TypeParts DEF TypeInv
<1>3. ASSUME ~when PROVE disturbed' = disturbed /\ jobs' = next
  BY <1>2, <1>3 DEF Disturb
<1> QED BY <1>1, <1>3

\* Thread t goes on to job j, which is none of a write's, and no document changes.
Turns(t, j) ==
    /\ j \in Job /\ Step(t, j) /\ ~Pending(j)
    /\ j.docs \in {Initially, jobs[t].docs}
    /\ centre' = centre /\ snapshot' = snapshot /\ changes' = changes
    /\ known' = known \/ \E u \in Threads : known' = jobs[u].docs

LEMMA TurnsValues ==
    ASSUME TypeInv, ValuesInv, NEW t \in Threads, NEW j, Turns(t, j)
    PROVE  ValuesInv' /\ NoReturn
<1>1. \A u \in Threads : jobs'[u].docs \in {Initially, jobs[u].docs}
  BY DEF Turns, Step, Alike
<1>2. ASSUME NEW d \in Docs PROVE Copied(d)
  BY <1>1 DEF Copied, Turns
<1>3. ValuesStep(t, j)
  BY <1>2 DEF ValuesStep, Turns
<1> QED BY <1>3, ValuesKept, StepNoReturn DEF Turns

LEMMA RestsFields ==
    ASSUME NEW place
    PROVE  Rests(place) = [at |-> place, next |-> 1, docs |-> Initially, got |-> Nothing,
                           edited |-> {}, value |-> 0, target |-> 0, left |-> {}, sole |-> FALSE]
<1> DEFINE n == NewJob
<1>1. n \in Job /\ Rests(place) = [n EXCEPT !.at = place]
  BY NewJobType DEF Rests
<1>2. /\ n.next = 1 /\ n.docs = Initially /\ n.got = Nothing /\ n.edited = {}
      /\ n.value = 0 /\ n.target = 0 /\ n.left = {} /\ n.sole = FALSE
  BY DEF NewJob
<1> HIDE DEF n
<1> QED BY <1>1, <1>2 DEF Job

\* A thread goes on and touches no settings.
LEMMA Passed ==
    ASSUME TypeInv, RestTyped, AgreeInv, NoReturn, known' = known,
           NEW t \in Threads, NEW j \in Job,
           Trust' => Trust /\ jobs' = [jobs EXCEPT ![t] = j],
           t = Poller /\ j.at \notin Unsettled => jobs[t].at \notin Unsettled,
           j.at \notin {"load", "swap", "build"}, jobs[t].at \notin Refilling,
           UNCHANGED <<settings, runtime, derived>>
    PROVE  AgreeInv'
<1>1. Honest(centre', known', j) /\ Keeps(t, j)
  BY DEF Honest, Keeps, Refilling
<1> QED BY <1>1, Carried

LEMMA BecomesTurns ==
    ASSUME TypeInv, NEW t \in Threads, NEW j \in Job, Becomes(t, j), ~Pending(j),
           j.docs \in {Initially, jobs[t].docs},
           UNCHANGED <<centre, snapshot, changes>>,
           known' = known \/ \E u \in Threads : known' = jobs[u].docs
    PROVE  Turns(t, j)
BY BecomesStep DEF TypeInv, Turns

-----------------------------------------------------------------------------
(***************************************************************************)
(* The invariants, action by action.                                       *)
(***************************************************************************)
AllInv == TypeInv /\ ValuesInv /\ AgreeInv

LEMMA PollerAgrees ==
    ASSUME AllInv, RestTyped, StartPoller \/ Seed \/ Tick \/ Compare
    PROVE  ValuesInv' /\ AgreeInv'
<1>1. Poller \in Threads /\ jobs \in Jobs /\ jobs[Poller] \in Job /\ TypeInv
  BY PollerIsThread, JobsOf, JobOf DEF TypeInv, AllInv
<1>2. {"idle", "seed", "tick", "candidate"} \subseteq Places
  BY DEF Places, Reloading
<1>3. ASSUME NEW place \in {"seed", "tick", "candidate"}
      PROVE  LET j == StartsFetch(Poller, place)
             IN  j \in Job /\ j.at = place /\ j.docs = Initially /\ j.sole = jobs[Poller].sole /\ ~Pending(j)
  <2>1. place \in Places
    BY <1>2
  <2> QED BY <1>1, <2>1, StartsFetchType DEF Pending
<1>4. Rests("idle") \in Job /\ Rests("idle").at = "idle" /\ Rests("idle").docs = Initially
      /\ ~Rests("idle").sole /\ ~Pending(Rests("idle"))
  BY <1>2, RestsType, RestsFields DEF Pending
<1>5. CASE StartPoller
  <2> DEFINE j == StartsFetch(Poller, "seed")
  <2>1. Becomes(Poller, j) /\ UNCHANGED <<centre, snapshot, settings, runtime, derived, known, changes, faults, disturbed>>
        /\ jobs[Poller].at = "new"
    BY <1>5 DEF StartPoller
  <2>2. j \in Job /\ j.at = "seed" /\ j.docs = Initially /\ j.sole = jobs[Poller].sole /\ ~Pending(j)
    BY <1>3
  <2> HIDE DEF j
  <2>3. Turns(Poller, j)
    BY <1>1, <2>1, <2>2, BecomesTurns
  <2>4. ValuesInv' /\ NoReturn
    BY <1>1, <2>3, TurnsValues DEF AllInv
  <2>5. AgreeInv'
    BY <1>1, <2>1, <2>2, <2>4, BecomesTrust, Passed DEF AllInv, Unsettled, Refilling, Renewing
  <2> QED BY <2>4, <2>5
<1>6. CASE Tick
  <2> DEFINE j == StartsFetch(Poller, "tick")
  <2>1. Becomes(Poller, j) /\ UNCHANGED <<centre, snapshot, settings, runtime, derived, known, changes, faults, disturbed>>
        /\ jobs[Poller].at = "idle"
    BY <1>6 DEF Tick
  <2>2. j \in Job /\ j.at = "tick" /\ j.docs = Initially /\ j.sole = jobs[Poller].sole /\ ~Pending(j)
    BY <1>3
  <2> HIDE DEF j
  <2>3. Turns(Poller, j)
    BY <1>1, <2>1, <2>2, BecomesTurns
  <2>4. ValuesInv' /\ NoReturn
    BY <1>1, <2>3, TurnsValues DEF AllInv
  <2>5. AgreeInv'
    BY <1>1, <2>1, <2>2, <2>4, BecomesTrust, Passed DEF AllInv, Unsettled, Refilling, Renewing
  <2> QED BY <2>4, <2>5
<1>7. CASE Compare
  <2> DEFINE j == IF known' = known THEN Rests("idle") ELSE StartsFetch(Poller, "candidate")
  <2>1. /\ Becomes(Poller, j) /\ UNCHANGED <<centre, snapshot, settings, runtime, derived, changes, faults, disturbed>>
        /\ jobs[Poller].at = "tick" /\ known' = jobs[Poller].docs
    BY <1>7 DEF Compare, Fetched
  <2>2. j \in Job /\ j.docs = Initially /\ (j.sole => jobs[Poller].sole) /\ ~Pending(j)
    BY <1>3, <1>4
  <2>3. IF known' = known THEN j.at = "idle" ELSE j.at = "candidate"
    BY <1>3, <1>4
  <2> HIDE DEF j
  <2>4. Turns(Poller, j)
    BY <1>1, <2>1, <2>2, BecomesTurns
  <2>5. ValuesInv' /\ NoReturn
    BY <1>1, <2>4, TurnsValues DEF AllInv
  <2>6. CASE known' = known
    BY <1>1, <2>1, <2>2, <2>3, <2>5, <2>6, BecomesTrust, Passed DEF AllInv, Unsettled, Refilling, Renewing
  <2>7. CASE known' # known
    <3>1. jobs'[Poller].at = "candidate"
      BY <1>1, <2>1, <2>3, <2>7 DEF Becomes, Jobs
    <3> QED BY <2>5, <3>1 DEF AgreeInv, Settled, Unsettled
  <2> QED BY <2>5, <2>6, <2>7
<1>8. CASE Seed
  <2> DEFINE j == Rests("idle")
             next == [jobs EXCEPT ![Poller] = j]
             when == ~(Quiet /\ Follow(known'))
  <2>1. /\ Disturb(when, next) /\ UNCHANGED <<centre, snapshot, settings, runtime, derived, changes, faults>>
        /\ known' = jobs[Poller].docs
    BY <1>8 DEF Seed
  <2>2. next \in Jobs /\ \A u \in Threads : next[u] = IF u = Poller THEN j ELSE jobs[u]
    BY <1>1, <1>4 DEF Jobs
  <2> HIDE DEF next, when, j
  <2>3. Step(Poller, j)
    BY <1>1, <1>4, <2>1, DisturbStep DEF TypeInv, j, next
  <2>4. Turns(Poller, j)
    BY <1>1, <1>4, <2>1, <2>3 DEF Turns, j
  <2>5. ValuesInv'
    BY <1>1, <2>4, TurnsValues DEF AllInv
  <2>6. ASSUME Trust' PROVE Body'
    <3>1. ~when /\ jobs' = next
      BY <1>1, <2>1, <2>2, <2>6, DisturbTrust
    <3>2. Quiet /\ Follow(known')
      BY <3>1 DEF when
    <3>3. \A u \in Threads : jobs'[u].at \notin {"load", "swap", "build"}
      BY <1>4, <2>2, <3>1, <3>2 DEF Quiet, Busy, Reloading, j
    <3> QED BY <2>1, <3>2, <3>3 DEF Body, Honest, Agrees, Follow
  <2> QED BY <2>5, <2>6 DEF AgreeInv
<1> QED BY <1>5, <1>6, <1>7, <1>8

LEMMA RestingPlaces ==
    ASSUME NEW place \in {"idle", "over", "clear", "drop", "candidate"}
    PROVE  LET j == Rests(place)
           IN  j \in Job /\ j.at = place /\ j.docs = Initially /\ j.sole = FALSE /\ ~Pending(j)
<1>1. place \in Places
  BY DEF Places, Reloading
<1> QED BY <1>1, RestsType, RestsFields DEF Pending

LEMMA ValidateAgrees ==
    ASSUME AllInv, RestTyped, NEW t \in Threads, Validate(t)
    PROVE  ValuesInv' /\ AgreeInv'
<1> DEFINE j == Rests("clear")
<1>1. Becomes(t, j) /\ UNCHANGED <<centre, snapshot, settings, runtime, derived, known, changes, faults, disturbed>>
      /\ jobs[t].at = "candidate" /\ TypeInv
  BY DEF Validate, Fetched, AllInv
<1>2. j \in Job /\ j.at = "clear" /\ j.docs = Initially /\ j.sole = FALSE /\ ~Pending(j)
  BY RestingPlaces
<1> HIDE DEF j
<1>3. Turns(t, j)
  BY <1>1, <1>2, BecomesTurns
<1>4. ValuesInv' /\ NoReturn
  BY <1>1, <1>3, TurnsValues DEF AllInv
<1>5. AgreeInv'
  BY <1>1, <1>2, <1>4, BecomesTrust, Passed DEF AllInv, Unsettled, Refilling, Renewing
<1> QED BY <1>4, <1>5

LEMMA AbortAgrees ==
    ASSUME AllInv, RestTyped, NEW t \in Threads, AbortReload(t)
    PROVE  ValuesInv' /\ AgreeInv'
<1> DEFINE j == Rests(Aborted(t))
           next == [jobs EXCEPT ![t] = j]
<1>1. Disturb(TRUE, next) /\ UNCHANGED <<centre, snapshot, settings, runtime, derived, known, changes>> /\ TypeInv
  BY DEF AbortReload, AllInv
<1>2. j \in Job /\ j.docs = Initially /\ ~Pending(j)
  BY RestingPlaces DEF Aborted
<1> HIDE DEF j
<1>3. next \in Jobs
  BY <1>1, <1>2, JobsOf DEF TypeInv, Jobs
<1>4. Step(t, j)
  BY <1>1, <1>2, DisturbStep DEF TypeInv
<1> HIDE DEF next
<1>5. Turns(t, j)
  BY <1>1, <1>2, <1>4 DEF Turns
<1>6. ~Trust'
  BY <1>1, <1>3, DisturbTrust
<1> QED BY <1>1, <1>5, <1>6, TurnsValues DEF AllInv, AgreeInv

LEMMA ClearAgrees ==
    ASSUME AllInv, RestTyped, NEW t \in Threads, t \notin Queries, Clear(t)
    PROVE  ValuesInv' /\ AgreeInv'
<1> DEFINE i == jobs[t]
           a == [i EXCEPT !.at = "get"]
           j == [a EXCEPT !.sole = TRUE]
           next == [jobs EXCEPT ![t] = j]
           when == ~(\A u \in Threads \ {t} : ~Busy(u))
<1>1. Disturb(when, [[jobs EXCEPT ![t].at = "get"] EXCEPT ![t].sole = TRUE])
      /\ UNCHANGED <<centre, snapshot, runtime, derived, known, changes, faults>>
      /\ TypeInv /\ jobs \in Jobs /\ i \in Job /\ settings' = Nothing
  BY JobsOf, JobOf DEF Clear, AllInv, TypeInv, CacheCleared
<1>2. [jobs EXCEPT ![t].at = "get"] = [jobs EXCEPT ![t] = a]
  OBVIOUS
<1>3. [[jobs EXCEPT ![t] = a] EXCEPT ![t].sole = TRUE] = next
  <2> HIDE DEF a
  <2> QED BY <1>1 DEF Jobs
<1>4. Disturb(when, next)
  BY <1>1, <1>2, <1>3
<1> HIDE DEF i, when
<1>5. a = [at |-> "get", next |-> i.next, docs |-> i.docs, got |-> i.got, edited |-> i.edited,
           value |-> i.value, target |-> i.target, left |-> i.left, sole |-> i.sole]
  BY <1>1 DEF Job
<1> HIDE DEF a
<1>6. "get" \in Places
  BY DEF Places, Reloading
<1>7. a \in Job /\ a.at = "get" /\ a.docs = i.docs
  BY <1>1, <1>5, <1>6 DEF Job
<1>8. j \in Job /\ j.at = "get" /\ j.docs = i.docs
  BY <1>7 DEF Job
<1> HIDE DEF j
<1>9. next \in Jobs /\ \A u \in Threads : next[u] = IF u = t THEN j ELSE jobs[u]
  BY <1>1, <1>8 DEF Jobs
<1>10. Step(t, j)
  BY <1>1, <1>4, <1>8, DisturbStep DEF TypeInv
<1>11. Turns(t, j)
  BY <1>1, <1>8, <1>10 DEF Turns, Pending, i
<1>12. ValuesInv'
  BY <1>1, <1>11, TurnsValues DEF AllInv
<1> HIDE DEF next
\* Nobody else reloads or fills a cache, and t is to replace everything.
<1>13. ASSUME Trust' PROVE Body'
  <2>1. ~when /\ jobs' = next
    BY <1>1, <1>4, <1>9, <1>13, DisturbTrust
  <2>2. \A u \in Threads : jobs'[u].at \notin {"load", "swap", "build"}
    BY <1>8, <1>9, <2>1 DEF when, Busy, Reloading
  <2>3. t \in Reloaders /\ jobs'[t].at = "get"
    BY <1>8, <1>9, <2>1 DEF Reloaders
  <2> QED BY <1>1, <2>2, <2>3 DEF Body, Honest, Renewing, Refilling, Reloaders
<1> QED BY <1>12, <1>13 DEF AgreeInv

LEMMA GetAgrees ==
    ASSUME AllInv, RestTyped, NEW t \in Threads, GetSettings(t)
    PROVE  ValuesInv' /\ AgreeInv'
<1>1. TypeInv /\ jobs \in Jobs /\ jobs[t] \in Job /\ jobs[t].at = "get"
      /\ UNCHANGED <<centre, snapshot, settings, runtime, derived, known, changes, faults, disturbed>>
  BY JobsOf, JobOf DEF AllInv, TypeInv, GetSettings
<1> SUFFICES ASSUME NEW j \in Job, Becomes(t, j), j.docs \in {Initially, jobs[t].docs}, ~Pending(j),
                    j.sole = jobs[t].sole, j.at \notin Unsettled,
                    t \in Reloaders => j.at \in Renewing,
                    Body => Honest(centre, known, j)
             PROVE  ValuesInv' /\ AgreeInv'
  <2>1. CASE settings # Nothing
    <3> DEFINE place == IF t \in Queries THEN "build" ELSE "swap"
               g == Goes(t, place)
               j == [g EXCEPT !.got = settings]
    <3>1. place \in {"build", "swap"} /\ settings \in AllSettings
      BY <1>1, TypeParts DEF TypeInv
    <3>2. Becomes(t, j)
      BY <2>1 DEF GetSettings
    <3>3. t \in Reloaders => place = "swap"
      BY DEF Reloaders
    <3> HIDE DEF place
    <3>4. g \in Job /\ g.at = place /\ g.docs = jobs[t].docs /\ g.sole = jobs[t].sole
      <4>1. place \in Places
        BY <3>1 DEF Places, Reloading
      <4> QED BY <1>1, <4>1, GoesType
    <3> HIDE DEF g
    <3>5. j \in Job /\ j.at = place /\ j.got = settings /\ j.docs = jobs[t].docs /\ j.sole = jobs[t].sole
      BY <3>1, <3>4 DEF Job
    <3> HIDE DEF j
    <3>6. Body => Honest(centre, known, j)
      BY <2>1, <3>1, <3>5 DEF Body, Honest
    <3> QED BY <3>1, <3>2, <3>3, <3>5, <3>6 DEF Pending, Unsettled, Renewing
  <2>2. CASE settings = Nothing
    <3> DEFINE j == StartsFetch(t, "load")
    <3>1. "load" \in Places
      BY DEF Places, Reloading
    <3>2. j \in Job /\ j.at = "load" /\ j.docs = Initially /\ j.next = 1 /\ j.sole = jobs[t].sole
      BY <1>1, <3>1, StartsFetchType
    <3>3. Becomes(t, j)
      BY <2>2 DEF GetSettings
    <3> HIDE DEF j
    <3>4. \A d \in Docs : ~(d < 1)
      BY DocsAreNumbers DEF Docs
    <3>5. Honest(centre, known, j)
      BY <3>2, <3>4 DEF Honest
    <3> QED BY <3>2, <3>3, <3>5 DEF Pending, Unsettled, Renewing
  <2> QED BY <2>1, <2>2
<1>2. Turns(t, j)
  BY <1>1, BecomesTurns
<1>3. ValuesInv' /\ NoReturn
  BY <1>1, <1>2, TurnsValues DEF AllInv
<1>4. Keeps(t, j)
  BY <1>1 DEF Keeps, Refilling
<1>5. Trust' => Trust /\ jobs' = [jobs EXCEPT ![t] = j]
  BY <1>1, BecomesTrust
<1>6. AgreeInv'
  BY <1>1, <1>3, <1>4, <1>5, Carried DEF AllInv, Unsettled
<1> QED BY <1>3, <1>6

LEMMA LoadAgrees ==
    ASSUME AllInv, RestTyped, NEW t \in Threads, Load(t)
    PROVE  ValuesInv' /\ AgreeInv'
<1> DEFINE place == IF t \in Queries THEN "build" ELSE "swap"
           loaded == Effective(jobs[t].docs)
           g == StartsFetch(t, place)
           j == [g EXCEPT !.got = loaded]
<1>1. TypeInv /\ jobs \in Jobs /\ jobs[t] \in Job /\ jobs[t].at = "load" /\ jobs[t].next > Len(DataIds)
      /\ UNCHANGED <<centre, snapshot, runtime, derived, known, changes, faults, disturbed>>
  BY JobsOf, JobOf DEF AllInv, TypeInv, Load, Fetched
<1>2. Becomes(t, j) /\ settings' \in {settings, loaded}
  BY DEF Load
<1>3. place \in {"build", "swap"} /\ (t \in Reloaders => place = "swap")
  BY DEF Reloaders
<1>4. loaded \in AllSettings
  BY <1>1, EffectiveType DEF Job, AllSettings
\* Nothing that was fetched has changed since, if the centre is as the poller knows it.
<1>5. Body => Agrees(centre, known, loaded)
  <2> SUFFICES ASSUME Body, centre = known PROVE jobs[t].docs = known
    BY DEF Agrees
  <2>1. \A d \in Docs : d < jobs[t].next
    BY <1>1, DocsAreNumbers DEF Job
  <2>2. \A d \in Docs : jobs[t].docs[d] = known[d]
    BY <1>1, <2>1 DEF Body, Honest
  <2>3. jobs[t].docs \in Documents /\ known \in Documents
    BY <1>1, TypeParts DEF Job, TypeInv
  <2> QED BY <2>2, <2>3 DEF Documents
<1> HIDE DEF place, loaded
<1>6. g \in Job /\ g.at = place /\ g.docs = Initially /\ g.sole = jobs[t].sole
  <2>1. place \in Places
    BY <1>3 DEF Places, Reloading
  <2> QED BY <1>1, <2>1, StartsFetchType
<1> HIDE DEF g
<1>7. j \in Job /\ j.at = place /\ j.got = loaded /\ j.docs = Initially /\ j.sole = jobs[t].sole
  BY <1>4, <1>6 DEF Job
<1> HIDE DEF j
<1>8. Turns(t, j)
  BY <1>1, <1>2, <1>3, <1>7, BecomesTurns DEF Pending
<1>9. ValuesInv' /\ NoReturn
  BY <1>1, <1>8, TurnsValues DEF AllInv
<1>10. Body => Honest(centre', known', j)
  BY <1>1, <1>3, <1>5, <1>7 DEF Honest
<1>11. Body => Keeps(t, j)
  BY <1>1, <1>2, <1>3, <1>5, <1>7 DEF Keeps, Renewing, Refilling
<1>12. Trust' => Trust /\ jobs' = [jobs EXCEPT ![t] = j]
  BY <1>1, <1>2, <1>7, BecomesTrust
<1>13. AgreeInv'
  BY <1>1, <1>7, <1>9, <1>10, <1>11, <1>12, Carried DEF AllInv, Unsettled
<1> QED BY <1>9, <1>13

LEMMA SwapAgrees ==
    ASSUME AllInv, RestTyped, NEW t \in Threads, Swap(t)
    PROVE  ValuesInv' /\ AgreeInv'
<1> DEFINE g == Rests("drop")
           j == [g EXCEPT !.sole = jobs[t].sole]
<1>1. TypeInv /\ jobs[t] \in Job /\ jobs[t].at = "swap" /\ Becomes(t, j) /\ runtime' = jobs[t].got
      /\ UNCHANGED <<centre, snapshot, settings, derived, known, changes, faults, disturbed>>
  BY JobOf DEF AllInv, Swap
<1>2. g \in Job /\ g.at = "drop" /\ g.docs = Initially /\ jobs[t].sole \in BOOLEAN
  BY <1>1, RestingPlaces DEF Job
<1> HIDE DEF g
<1>3. j \in Job /\ j.at = "drop" /\ j.docs = Initially /\ j.sole = jobs[t].sole
  BY <1>2 DEF Job
<1> HIDE DEF j
<1>4. Turns(t, j)
  BY <1>1, <1>3, BecomesTurns DEF Pending
<1>5. ValuesInv' /\ NoReturn
  BY <1>1, <1>4, TurnsValues DEF AllInv
<1>6. Body => Agrees(centre', known', runtime')
  BY <1>1 DEF Body, Honest
<1>7. Body => Honest(centre', known', j) /\ Keeps(t, j)
  BY <1>1, <1>3, <1>6 DEF Honest, Keeps, Refilling
<1>8. AgreeInv'
  BY <1>1, <1>3, <1>5, <1>7, BecomesTrust, Carried DEF AllInv, Unsettled
<1> QED BY <1>5, <1>8

LEMMA DropAgrees ==
    ASSUME AllInv, RestTyped, NEW t \in Threads, DropCaches(t)
    PROVE  ValuesInv' /\ AgreeInv'
<1> DEFINE j == Rests(IF t = Poller THEN "idle" ELSE "over")
<1>1. TypeInv /\ jobs[t].at = "drop" /\ Becomes(t, j) /\ derived' = Nothing
      /\ disturbed' = (disturbed /\ ~jobs[t].sole)
      /\ UNCHANGED <<centre, snapshot, settings, runtime, known, changes, faults>>
  BY DEF AllInv, DropCaches
<1>2. j \in Job /\ j.at \in {"idle", "over"} /\ j.docs = Initially /\ j.sole = FALSE
  BY RestingPlaces
<1> HIDE DEF j
<1>3. Turns(t, j)
  BY <1>1, <1>2, BecomesTurns DEF Pending
<1>4. ValuesInv' /\ NoReturn
  BY <1>1, <1>3, TurnsValues DEF AllInv
<1>5. Trust' => Trust /\ jobs' = [jobs EXCEPT ![t] = j]
  BY <1>1, <1>2, JobsOf DEF TypeInv, Jobs, Becomes, Trust
<1>6. Honest(centre', known', j) /\ Keeps(t, j)
  BY <1>1, <1>2 DEF Honest, Keeps, Renewing
<1>7. AgreeInv'
  BY <1>1, <1>2, <1>4, <1>5, <1>6, Carried DEF AllInv, Unsettled
<1> QED BY <1>4, <1>7

LEMMA QueryAgrees ==
    ASSUME AllInv, RestTyped, NEW q \in Queries, StartQuery(q) \/ Build(q)
    PROVE  ValuesInv' /\ AgreeInv'
<1>1. q \in Threads /\ jobs \in Jobs /\ jobs[q] \in Job /\ TypeInv /\ q # Poller /\ q \notin Reloaders
  BY PollerIsThread, JobsOf, JobOf, ThreadsAssumption DEF AllInv, TypeInv, Reloaders
<1>2. CASE StartQuery(q)
  <2> DEFINE j == Goes(q, "get")
  <2>1. Becomes(q, j) /\ jobs[q].at = "new"
        /\ UNCHANGED <<centre, snapshot, settings, runtime, derived, known, changes, faults, disturbed>>
    BY <1>2 DEF StartQuery
  <2>2. "get" \in Places
    BY DEF Places, Reloading
  <2>3. j \in Job /\ j.at = "get" /\ j.docs = jobs[q].docs /\ j.sole = jobs[q].sole
    BY <1>1, <2>2, GoesType
  <2> HIDE DEF j
  <2>4. Turns(q, j)
    BY <1>1, <2>1, <2>3, BecomesTurns DEF Pending
  <2>5. ValuesInv' /\ NoReturn
    BY <1>1, <2>4, TurnsValues DEF AllInv
  <2>6. AgreeInv'
    BY <1>1, <2>1, <2>3, <2>5, BecomesTrust, Passed DEF AllInv, Refilling, Renewing
  <2> QED BY <2>5, <2>6
<1>3. CASE Build(q)
  <2> DEFINE j == Rests("over")
  <2>1. Becomes(q, j) /\ jobs[q].at = "build" /\ derived' \in {jobs[q].got, derived}
        /\ UNCHANGED <<centre, snapshot, settings, runtime, known, changes, faults, disturbed>>
    BY <1>3 DEF Build
  <2>2. j \in Job /\ j.at = "over" /\ j.docs = Initially /\ j.sole = FALSE
    BY RestingPlaces
  <2> HIDE DEF j
  <2>3. Turns(q, j)
    BY <1>1, <2>1, <2>2, BecomesTurns DEF Pending
  <2>4. ValuesInv' /\ NoReturn
    BY <1>1, <2>3, TurnsValues DEF AllInv
  <2>5. Body => Agrees(centre', known', jobs[q].got)
    BY <1>1, <2>1 DEF Body, Honest
  <2>6. Body => Honest(centre', known', j) /\ Keeps(q, j)
    BY <1>1, <2>1, <2>2, <2>5 DEF Honest, Keeps
  <2>7. AgreeInv'
    BY <1>1, <2>1, <2>2, <2>4, <2>6, BecomesTrust, Carried DEF AllInv
  <2> QED BY <2>4, <2>7
<1> QED BY <1>2, <1>3

LEMMA FetchAgrees ==
    ASSUME AllInv, RestTyped, NEW t \in Threads, FetchDocument(t) \/ UseSnapshot(t)
    PROVE  ValuesInv' /\ AgreeInv'
<1> DEFINE d == jobs[t].next
           text == IF FetchDocument(t) THEN centre[d] ELSE snapshot[d]
           i == jobs[t]
<1>1. TypeInv /\ jobs \in Jobs /\ i \in Job /\ d \in Docs /\ i.at \in Fetching
      /\ UNCHANGED <<centre, settings, runtime, derived, known, changes>>
      /\ snapshot' \in {snapshot, [snapshot EXCEPT ![d] = centre[d]]}
  BY JobsOf, JobOf DEF AllInv, TypeInv, FetchDocument, UseSnapshot
<1>2. snapshot \in Documents /\ text \in [Keys -> Nat]
  BY <1>1, TypeParts DEF TypeInv, Documents
<1>3. text \in {centre[d], snapshot[d]}
  OBVIOUS
<1>4. PICK j \in Job :
        /\ Taken(t, text) = [jobs EXCEPT ![t] = j] /\ j.at = i.at /\ j.got = i.got /\ j.value = i.value
        /\ j.next = i.next + 1 /\ j.docs = [i.docs EXCEPT ![i.next] = text]
        /\ j.edited = i.edited /\ j.target = i.target /\ j.left = i.left
        /\ j.sole = i.sole
  BY <1>1, <1>2, TakenType
<1>5. /\ Step(t, j)
      /\ Trust' => Trust /\ jobs' = [jobs EXCEPT ![t] = j]
      /\ Trust' /\ i.at = "load" => text = centre[d] \/ text = known[d]
  <2>1. CASE FetchDocument(t)
    <3>1. Becomes(t, j) /\ disturbed' = disturbed
      BY <1>4, <2>1 DEF FetchDocument, Becomes
    <3> QED BY <1>1, <1>4, <2>1, <3>1, BecomesStep, BecomesTrust DEF TypeInv
  <2>2. CASE ~FetchDocument(t)
    <3> DEFINE when == i.at = "load" /\ snapshot[d] # known[d]
               next == [jobs EXCEPT ![t] = j]
    <3>1. Disturb(when, next)
      BY <1>4, <2>2 DEF UseSnapshot
    <3>2. next \in Jobs /\ next[t] = j /\ \A u \in Threads \ {t} : next[u] = jobs[u]
      BY <1>1 DEF Jobs
    <3>3. Step(t, j)
      BY <1>1, <3>1, DisturbStep DEF TypeInv
    <3> HIDE DEF when, next
    <3>4. Trust' => ~when /\ disturbed' = disturbed /\ jobs' = next
      BY <1>1, <3>1, <3>2, DisturbTrust
    <3>5. ASSUME disturbed' = disturbed, jobs' = next, Trust' PROVE Trust
      BY <1>4, <3>2, <3>5 DEF Trust
    <3> QED BY <2>2, <3>3, <3>4, <3>5 DEF when, next
  <2> QED BY <2>1, <2>2
<1>6. i.docs \in Documents
  BY <1>1 DEF Job
<1>7. \A c \in Docs : j.docs[c] = IF c = d THEN text ELSE i.docs[c]
  BY <1>1, <1>4, <1>6 DEF Documents
<1> HIDE DEF text
<1>8. ASSUME NEW c \in Docs PROVE Copied(c)
  <2>1. snapshot'[c] \in {snapshot[c], centre[c]}
    BY <1>1, <1>2 DEF Documents
  <2>2. \A u \in Threads : jobs'[u].docs = IF u = t THEN j.docs ELSE jobs[u].docs
    BY <1>5 DEF Step, Alike
  <2>3. j.docs[c] \in {centre[c], snapshot[c], i.docs[c]}
    BY <1>3, <1>7
  <2> QED BY <1>1, <2>1, <2>2, <2>3 DEF Copied
<1>9. ValuesStep(t, j)
  <2>1. Pending(j) => Pending(i) /\ j.at # "publish" /\ i.at # "publish"
    BY <1>1, <1>4 DEF Pending, Fetching
  <2> QED BY <1>1, <1>4, <1>8, <2>1 DEF ValuesStep, Homed, Awaits
<1>10. ValuesInv' /\ NoReturn
  BY <1>1, <1>5, <1>9, ValuesKept, StepNoReturn DEF AllInv
<1>11. ASSUME Trust', Body PROVE Honest(centre', known', j)
  <2>1. Honest(centre, known, i)
    BY <1>11 DEF Body
  <2>2. ASSUME i.at = "load", NEW c \in Docs, c < j.next
        PROVE  j.docs[c] = known[c] \/ centre[c] # known[c]
    <3>1. CASE c = d
      BY <1>5, <1>7, <1>11, <2>2, <3>1
    <3>2. CASE c # d
      <4>1. c < i.next
        BY <1>1, <1>4, <2>2, <3>2, DocsAreNumbers
      <4> QED BY <1>7, <2>1, <2>2, <3>2, <4>1 DEF Honest
    <3> QED BY <3>1, <3>2
  <2> QED BY <1>1, <1>4, <2>1, <2>2 DEF Honest
<1>12. Keeps(t, j)
  BY <1>1, <1>4 DEF Keeps
<1>13. AgreeInv'
  BY <1>1, <1>4, <1>5, <1>10, <1>11, <1>12, Carried DEF AllInv
<1> QED BY <1>10, <1>13

LEMMA WriterIsApart ==
    ASSUME NEW w \in Writers
    PROVE  w \in Threads /\ w # Poller
BY PollerIsThread, ThreadsAssumption

LEMMA StartReloadAgrees ==
    ASSUME AllInv, RestTyped, NEW w \in Writers, StartReload(w)
    PROVE  ValuesInv' /\ AgreeInv'
<1> DEFINE j == StartsFetch(w, "candidate")
<1>1. TypeInv /\ jobs \in Jobs /\ jobs[w].at = "new" /\ Becomes(w, j) /\ w \in Threads /\ w # Poller
      /\ UNCHANGED <<centre, snapshot, settings, runtime, derived, known, changes, faults, disturbed>>
  BY WriterIsApart, JobsOf DEF AllInv, TypeInv, StartReload
<1>2. "candidate" \in Places
  BY DEF Places, Reloading
<1>3. j \in Job /\ j.at = "candidate" /\ j.docs = Initially /\ j.sole = jobs[w].sole
  BY <1>1, <1>2, StartsFetchType
<1> HIDE DEF j
<1>4. Turns(w, j)
  BY <1>1, <1>3, BecomesTurns DEF Pending
<1>5. ValuesInv' /\ NoReturn
  BY <1>1, <1>4, TurnsValues DEF AllInv
<1>6. AgreeInv'
  BY <1>1, <1>3, <1>5, BecomesTrust, Passed DEF AllInv, Refilling, Renewing
<1> QED BY <1>5, <1>6

LEMMA StartWriteAgrees ==
    ASSUME AllInv, RestTyped, NEW w \in Writers, StartWrite(w)
    PROVE  ValuesInv' /\ AgreeInv'
<1>0. PICK n : n = changes + 1
  OBVIOUS
<1>1. /\ TypeInv /\ ValuesInv /\ jobs \in Jobs /\ jobs[w].at = "new" /\ w \in Threads /\ w # Poller
      /\ UNCHANGED <<centre, snapshot, settings, runtime, derived, known, faults, disturbed>>
  BY WriterIsApart, JobsOf DEF AllInv, TypeInv, StartWrite
<1>2. n \in 1..MaxChanges /\ changes' = n /\ changes \in Nat /\ MaxChanges \in Nat /\ n \in Nat
  <2>1. MaxChanges \in Nat /\ changes \in 0..MaxChanges
    BY <1>1, ConfigAssumption, TypeParts DEF TypeInv
  <2> QED BY <1>0, <2>1 DEF StartWrite
<1>3. PICK edited \in SUBSET Keys \ {{}}, target \in Targets :
        Becomes(w, [StartsFetch(w, "merge") EXCEPT !.edited = edited, !.value = n, !.target = target])
  BY <1>0 DEF StartWrite
<1> DEFINE g == StartsFetch(w, "merge")
           a == [g EXCEPT !.edited = edited]
           b == [a EXCEPT !.value = n]
           j == [b EXCEPT !.target = target]
<1>4. Becomes(w, j)
  BY <1>3
<1>5. edited \in SUBSET Keys /\ target \in {0} \cup Docs
  BY ConfigAssumption
<1>6. "merge" \in Places
  BY DEF Places
<1>7. g \in Job /\ g.at = "merge" /\ g.docs = Initially /\ g.sole = jobs[w].sole
  BY <1>1, <1>6, StartsFetchType
<1> HIDE DEF g
<1>8. a \in Job /\ a.at = "merge" /\ a.docs = Initially /\ a.sole = jobs[w].sole
  BY <1>5, <1>7 DEF Job
<1> HIDE DEF a
<1>9. b \in Job /\ b.at = "merge" /\ b.docs = Initially /\ b.sole = jobs[w].sole /\ b.value = n
  BY <1>2, <1>8 DEF Job
<1> HIDE DEF b
<1>10. j \in Job /\ j.at = "merge" /\ j.docs = Initially /\ j.sole = jobs[w].sole /\ j.value = n
  BY <1>5, <1>9 DEF Job
<1> HIDE DEF j
<1>11. \A u \in Threads : jobs'[u] = IF u = w THEN j ELSE jobs[u]
  BY <1>1, <1>4 DEF Becomes, Jobs
<1>12. \A d \in Docs : Copied(d)
  BY <1>1, <1>10, <1>11 DEF Copied
<1>13. ASSUME NEW x \in 1..MaxChanges, NEW d \in Docs, Free(x, d)
       PROVE  Free(x, d)'
  <2>1. \A k \in Keys : centre'[d][k] # x
    BY <1>1, <1>13 DEF Free
  <2> QED BY <1>12, <1>13, <2>1, FreeKept
\* The new value is in no text; those of the other writes are less.
<1>14. ASSUME NEW d \in Docs PROVE Free(n, d)'
  <2>1. n \in (changes + 1)..MaxChanges
    BY <1>0, <1>2
  <2>2. Free(n, d)
    BY <1>1, <2>1 DEF ValuesInv
  <2> QED BY <1>2, <1>13, <2>2
<1>15. ASSUME NEW x \in (changes' + 1)..MaxChanges, NEW d \in Docs PROVE Free(x, d)'
  <2>1. x \in (changes + 1)..MaxChanges /\ x \in 1..MaxChanges
    BY <1>0, <1>2
  <2> QED BY <1>1, <1>13, <2>1 DEF ValuesInv
<1>16. ASSUME NEW v \in Writers \ {w}, Pending(jobs[v])
       PROVE  /\ jobs[v].value \in 1..changes' /\ jobs[v].value # n /\ Homed(jobs[v])
              /\ \A d \in Docs : Awaits(jobs[v], d) => (Free(jobs[v].value, d))'
  <2>1. PICK x \in 1..changes : x = jobs[v].value
    BY <1>1, <1>16 DEF ValuesInv
  <2>2. x \in 1..MaxChanges /\ x \in 1..changes' /\ x # n
    BY <1>0, <1>2, <2>1
  <2>3. \A d \in Docs : Awaits(jobs[v], d) => Free(x, d)
    BY <1>1, <1>16, <2>1 DEF ValuesInv
  <2>4. \A d \in Docs : Awaits(jobs[v], d) => Free(x, d)'
    BY <1>13, <2>2, <2>3
  <2>5. jobs'[v] = jobs[v]
    BY <1>11, PollerIsThread
  <2>6. \A d \in Docs : (Free(jobs[v].value, d))' <=> Free(x, d)'
    BY <2>1, <2>5 DEF Free
  <2> QED BY <1>1, <1>16, <2>1, <2>2, <2>4, <2>6 DEF ValuesInv
<1>17. jobs'[w] = j /\ \A v \in Writers \ {w} : jobs'[v] = jobs[v]
  BY <1>1, <1>11, PollerIsThread
<1>18. ASSUME NEW d \in Docs PROVE (Free(jobs[w].value, d))'
  BY <1>10, <1>14, <1>17 DEF Free
<1>19. n \in 1..changes'
  BY <1>2
<1>20. Homed(j)
  BY <1>10 DEF Homed
<1>21. ASSUME NEW v \in Writers, Pending(jobs'[v])
       PROVE  /\ jobs'[v].value \in 1..changes'
              /\ \A d \in Docs : Awaits(jobs'[v], d) => (Free(jobs[v].value, d))'
              /\ \A u \in Writers \ {v} : Pending(jobs'[u]) => jobs'[u].value # jobs'[v].value
              /\ Homed(jobs'[v])
  <2>1. CASE v = w
    BY <1>10, <1>16, <1>17, <1>18, <1>19, <1>20, <2>1
  <2>2. CASE v # w
    <3>1. \A u \in Writers \ {v} : Pending(jobs'[u]) => jobs'[u].value # jobs'[v].value
      BY <1>1, <1>10, <1>16, <1>17, <1>21, <2>2 DEF ValuesInv
    <3> QED BY <1>16, <1>17, <1>21, <2>2, <3>1
  <2> QED BY <2>1, <2>2
<1>22. \A v \in Writers :
         /\ (Pending(jobs[v]))' <=> Pending(jobs'[v])
         /\ (Homed(jobs[v]))' <=> Homed(jobs'[v])
         /\ \A d \in Docs : (Awaits(jobs[v], d))' <=> Awaits(jobs'[v], d)
  BY DEF Pending, Homed, Home, Awaits
<1>23. ValuesInv'
  BY <1>15, <1>21, <1>22 DEF ValuesInv
<1>24. AgreeInv'
  <2>1. NoReturn
    BY <1>1 DEF NoReturn
  <2> QED BY <1>1, <1>4, <1>10, <2>1, BecomesTrust, Passed DEF AllInv, Refilling, Renewing
<1> QED BY <1>23, <1>24

LEMMA RouteAgrees ==
    ASSUME AllInv, RestTyped, NEW w \in Writers, Route(w)
    PROVE  ValuesInv' /\ AgreeInv'
<1> DEFINE i == jobs[w]
           g == Goes(w, "publish")
           homes == {Home(i, k) : k \in i.edited}
           j == [g EXCEPT !.left = homes]
<1>1. TypeInv /\ jobs \in Jobs /\ i \in Job /\ i.at = "merge" /\ Becomes(w, j) /\ w \in Threads /\ w # Poller
      /\ UNCHANGED <<centre, snapshot, settings, runtime, derived, known, changes, faults, disturbed>>
  BY WriterIsApart, JobsOf, JobOf DEF AllInv, TypeInv, Route, Fetched
<1>2. homes \in SUBSET Docs
  BY <1>1, HomeType DEF Job
<1>3. "publish" \in Places
  BY DEF Places
<1>4. /\ g \in Job /\ g.at = "publish" /\ g.value = i.value /\ g.docs = i.docs
      /\ g.edited = i.edited /\ g.target = i.target /\ g.sole = i.sole
  BY <1>1, <1>3, GoesType
<1>5. \A d \in homes : \E k \in i.edited : Home(i, k) = d
  OBVIOUS
<1> HIDE DEF g, homes
<1>6. /\ j \in Job /\ j.at = "publish" /\ j.value = i.value /\ j.docs = i.docs
      /\ j.edited = i.edited /\ j.target = i.target /\ j.sole = i.sole /\ j.left = homes
  BY <1>2, <1>4 DEF Job
<1> HIDE DEF j
<1>7. Homed(j)
  <2>1. \A k : Home(j, k) = Home(i, k)
    BY <1>6 DEF Home
  <2> QED BY <1>5, <1>6, <2>1 DEF Homed
<1>8. Step(w, j)
  BY <1>1, <1>6, BecomesStep DEF TypeInv
<1>9. \A u \in Threads : jobs'[u].docs = jobs[u].docs
  BY <1>6, <1>8 DEF Step, Alike
<1>10. ValuesStep(w, j)
  BY <1>1, <1>6, <1>7, <1>9 DEF ValuesStep, Copied, Pending, Awaits
<1>11. ValuesInv' /\ NoReturn
  BY <1>1, <1>6, <1>8, <1>10, ValuesKept, StepNoReturn DEF AllInv
<1>12. AgreeInv'
  BY <1>1, <1>6, <1>11, BecomesTrust, Passed DEF AllInv, Refilling, Renewing
<1> QED BY <1>11, <1>12

\* The centre takes a document, or refuses it and may have taken it.
LEMMA PublishAgrees ==
    ASSUME AllInv, RestTyped, NEW w \in Writers, NEW d \in Docs, Publish(w, d) \/ RefuseWrite(w, d)
    PROVE  ValuesInv' /\ AgreeInv'
<1> DEFINE i == jobs[w]
           rest == i.left \ {d}
<1>1. TypeInv /\ jobs \in Jobs /\ i \in Job /\ i.at = "publish" /\ d \in i.left /\ w \in Threads /\ w # Poller
      /\ UNCHANGED <<snapshot, settings, runtime, derived, known, changes, disturbed>>
      /\ centre' \in {centre, [centre EXCEPT ![d] = Merged(i, d)]}
  BY WriterIsApart, JobsOf, JobOf DEF AllInv, TypeInv, Publish, RefuseWrite
<1>2. PICK j \in Job :
        /\ Becomes(w, j) /\ j.docs \in {Initially, i.docs} /\ (j.sole => i.sole)
        /\ j.at \in {"over", "candidate", "publish"}
        /\ j.at = "publish" => /\ j.left = rest /\ j.value = i.value /\ j.edited = i.edited
                               /\ j.docs = i.docs /\ j.target = i.target
  <2>1. CASE Publish(w, d) /\ rest # {}
    <3> DEFINE j == [i EXCEPT !.left = rest]
    <3>1. Becomes(w, j)
      BY <2>1 DEF Publish
    <3>2. rest \in SUBSET Docs
      BY <1>1 DEF Job
    <3> HIDE DEF i, rest
    <3>3. /\ j \in Job /\ j.at = i.at /\ j.left = rest /\ j.value = i.value /\ j.edited = i.edited
          /\ j.docs = i.docs /\ j.target = i.target /\ j.sole = i.sole
      BY <1>1, <3>2 DEF Job
    <3> HIDE DEF j
    <3> QED BY <1>1, <3>1, <3>3
  <2>2. CASE Publish(w, d) /\ rest = {}
    <3> DEFINE j == Rests("candidate")
    <3>1. j \in Job /\ j.at = "candidate" /\ j.docs = Initially /\ j.sole = FALSE
      BY RestingPlaces
    <3>2. Becomes(w, j)
      BY <2>2 DEF Publish
    <3> HIDE DEF j
    <3> QED BY <3>1, <3>2
  <2>3. CASE RefuseWrite(w, d)
    <3> DEFINE j == Rests("over")
    <3>1. j \in Job /\ j.at = "over" /\ j.docs = Initially /\ j.sole = FALSE
      BY RestingPlaces
    <3>2. Becomes(w, j)
      BY <2>3 DEF RefuseWrite
    <3> HIDE DEF j
    <3> QED BY <3>1, <3>2
  <2> QED BY <2>1, <2>2, <2>3
<1>3. Step(w, j)
  BY <1>1, <1>2, BecomesStep DEF TypeInv
<1>4. \A u \in Threads : jobs'[u].docs \in {Initially, jobs[u].docs}
  BY <1>2, <1>3 DEF Step, Alike
<1>5. \A c \in Docs : Copied(c)
  BY <1>1, <1>4 DEF Copied
<1>6. ~(Pending(j) /\ Awaits(j, d))
  BY <1>2 DEF Pending, Awaits
<1>7. \A c \in Docs : centre'[c] = centre[c] \/ Replaces(w, j, c)
  <2>1. centre \in Documents
    BY <1>1, TypeParts DEF TypeInv
  <2>2. \A c \in Docs : centre'[c] = centre[c] \/ (c = d /\ centre'[c] = Merged(i, d))
    BY <1>1, <2>1 DEF Documents
  <2> QED BY <1>1, <1>6, <2>2 DEF Replaces
<1>8. Pending(j) => Homed(j)
  <2>1. Homed(i)
    BY <1>1 DEF AllInv, ValuesInv, Pending
  <2>2. ASSUME j.at = "publish", NEW k PROVE Home(j, k) = Home(i, k)
    <3>1. j.docs = i.docs /\ j.target = i.target
      BY <1>2, <2>2
    <3> QED BY <3>1 DEF Home
  <2> QED BY <1>1, <1>2, <2>1, <2>2 DEF Homed, Pending
<1>9. ValuesStep(w, j)
  BY <1>1, <1>2, <1>5, <1>7, <1>8 DEF ValuesStep, Pending, Awaits
<1>10. ValuesInv' /\ NoReturn
  BY <1>1, <1>3, <1>9, ValuesKept, StepNoReturn DEF AllInv
<1>11. AgreeInv'
  BY <1>1, <1>2, <1>10, BecomesTrust, Passed DEF AllInv, Refilling, Renewing
<1> QED BY <1>10, <1>11

LEMMA EditAgrees ==
    ASSUME AllInv, RestTyped, Edit
    PROVE  ValuesInv' /\ AgreeInv'
<1>1. ValuesInv' /\ NoReturn
  BY EditValues DEF AllInv
<1>2. UNCHANGED <<snapshot, settings, runtime, derived, known, jobs, faults, disturbed>>
  BY DEF Edit
<1>3. ASSUME Trust', Settled' PROVE Body'
  <2>1. Trust /\ Settled
    BY <1>2, <1>3 DEF Trust, Settled
  <2>2. Body
    BY <2>1 DEF AllInv, AgreeInv
  <2> QED BY <1>1, <1>2, <2>2, AgreesKept DEF AllInv, Body
<1> QED BY <1>1, <1>3 DEF AgreeInv

LEMMA InitInv == Init => AllInv
<1> SUFFICES ASSUME Init PROVE AllInv
  OBVIOUS
<1>1. TypeInv
  BY InitType
<1>2. \A t \in Threads : jobs[t].at = "new" /\ jobs[t].docs = Initially
  BY DEF Init, NewJob
<1>3. \A x \in 1..MaxChanges, d \in Docs, k \in Keys : Initially[d][k] # x
  BY ConfigAssumption
<1>4. changes = 0 /\ centre = Initially /\ snapshot = Initially /\ known = Initially
  BY DEF Init
<1>5. ASSUME NEW x \in (changes + 1)..MaxChanges, NEW d \in Docs PROVE Free(x, d)
  <2>1. x \in 1..MaxChanges
    BY <1>4
  <2> QED BY <1>2, <1>3, <1>4, <2>1 DEF Free
<1>6. ValuesInv
  BY <1>2, <1>5, PollerIsThread DEF ValuesInv, Pending
<1>7. AgreeInv
  BY <1>2, PollerIsThread DEF AgreeInv, Settled, Unsettled
<1> QED BY <1>1, <1>6, <1>7 DEF AllInv

LEMMA ReloadAgrees ==
    ASSUME AllInv, NEW t \in Threads, t \notin Queries, ReloadStep(t)
    PROVE  ValuesInv' /\ AgreeInv'
<1>1. RestTyped
  BY ReloadMoves DEF AllInv
<1> QED BY <1>1, ValidateAgrees, AbortAgrees, ClearAgrees, GetAgrees, LoadAgrees, SwapAgrees, DropAgrees DEF ReloadStep

LEMMA NextInv == AllInv /\ [Next]_vars => AllInv'
<1> SUFFICES ASSUME AllInv, [Next]_vars PROVE AllInv'
  OBVIOUS
<1>1. TypeInv'
  BY NextTyped DEF AllInv
<1>2. CASE UNCHANGED vars
  BY <1>1, <1>2 DEF vars, AllInv, ValuesInv, AgreeInv, Free, Pending, Awaits, Homed, Home, Trust, Settled,
     Body, Honest, Agrees
<1>3. CASE Edit
  <2>1. RestTyped
    BY <1>1, TypeParts DEF TypeInv, RestTyped, TypeOK
  <2> QED BY <1>1, <1>3, <2>1, EditAgrees DEF AllInv
<1>4. CASE PollerStep
  <2>1. Poller \in Threads /\ Poller \notin Queries
    BY PollerIsThread, ThreadsAssumption
  <2>2. CASE StartPoller \/ Seed \/ Tick \/ Compare
    BY <1>1, <2>2, PollerMoves, PollerAgrees DEF AllInv
  <2>3. CASE FetchDocument(Poller) \/ UseSnapshot(Poller)
    BY <1>1, <2>1, <2>3, FetchMoves, FetchAgrees DEF AllInv
  <2>4. CASE ReloadStep(Poller)
    BY <1>1, <2>1, <2>4, ReloadAgrees DEF AllInv
  <2> QED BY <1>4, <2>2, <2>3, <2>4 DEF PollerStep
<1>5. ASSUME NEW w \in Writers, WriterStep(w) PROVE AllInv'
  <2>1. w \in Threads /\ w \notin Queries
    BY PollerIsThread, ThreadsAssumption
  <2>2. CASE StartReload(w)
    BY <1>1, <2>2, WriterMoves, StartReloadAgrees DEF AllInv
  <2>3. CASE StartWrite(w)
    BY <1>1, <2>3, WriterMoves, StartWriteAgrees DEF AllInv
  <2>4. CASE FetchDocument(w) \/ UseSnapshot(w)
    BY <1>1, <2>1, <2>4, FetchMoves, FetchAgrees DEF AllInv
  <2>5. CASE Route(w)
    BY <1>1, <2>5, WriterMoves, RouteAgrees DEF AllInv
  <2>6. ASSUME NEW d \in Docs, Publish(w, d) \/ RefuseWrite(w, d) PROVE AllInv'
    <3>1. RestTyped
      BY <2>6, WriterMoves, PublishSteps DEF AllInv
    <3> QED BY <1>1, <2>6, <3>1, PublishAgrees DEF AllInv
  <2>7. CASE ReloadStep(w)
    BY <1>1, <2>1, <2>7, ReloadAgrees DEF AllInv
  <2> QED BY <1>5, <2>2, <2>3, <2>4, <2>5, <2>6, <2>7 DEF WriterStep
<1>6. ASSUME NEW q \in Queries, QueryStep(q) PROVE AllInv'
  <2>1. q \in Threads
    BY PollerIsThread
  <2>2. CASE StartQuery(q) \/ Build(q)
    BY <1>1, <2>2, QueryMoves, QueryAgrees DEF AllInv
  <2>3. CASE FetchDocument(q) \/ UseSnapshot(q)
    BY <1>1, <2>1, <2>3, FetchMoves, FetchAgrees DEF AllInv
  <2>4. CASE GetSettings(q) \/ Load(q)
    <3>1. RestTyped
      BY <2>1, <2>4, ReloadMoves DEF ReloadStep, AllInv
    <3> QED BY <1>1, <2>1, <2>4, <3>1, GetAgrees, LoadAgrees DEF AllInv
  <2> QED BY <1>6, <2>2, <2>3, <2>4 DEF QueryStep
<1> QED BY <1>2, <1>3, <1>4, <1>5, <1>6 DEF Next

LEMMA InvAgrees == AllInv => Agreement
<1> SUFFICES ASSUME AllInv, Quiet, jobs[Poller].at \in {"idle", "tick"}, ~disturbed, known = centre
             PROVE  Follow(centre)
  BY DEF Agreement
<1>1. Body
  BY DEF AllInv, AgreeInv, Trust, Settled, Unsettled
<1>2. \A t \in Reloaders : jobs[t].at \notin Refilling
  BY DEF Quiet, Busy, Reloading, Refilling, Renewing, Reloaders
<1> QED BY <1>1, <1>2 DEF Body, Agrees, Follow, Refilling

\* Whatever is written, edited, missed by a fetch or refused, and however
\* reloads, queries and looks of the poller interleave: when none of them is
\* under way and nothing went unnoticed that no later reload has repaired, the
\* settings, the query runtime and the caches follow the documents, unless the
\* poller's next look at them finds a change.
THEOREM WhatIsInForceAgrees == Spec => []Agreement
<1> QED BY InitInv, NextInv, InvAgrees, PTL DEF Spec

=============================================================================
