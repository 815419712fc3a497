--------------------------- MODULE QueryGuardRedis ---------------------------
(***************************************************************************)
(* QueryLoadGuard._acquire_redis (app/services/query/guard.py): admission  *)
(* by counters shared between workers, with the in-memory guard under it.  *)
(*                                                                         *)
(* One action is one Redis command, so requests of any worker interleave   *)
(* between commands.  A command may raise, before or after Redis has       *)
(* carried it out; a counter with a time to live may expire.  An absent    *)
(* key and a key at zero with no time to live answer every command alike   *)
(* and are one value here.  pc and permits are one worker's in-memory      *)
(* guard, entered by the requests for which Redis stopped answering.       *)
(***************************************************************************)
EXTENDS QueryGuardMemory

CONSTANTS
    MaxPolls,       \* probes a queued request makes before acquire_timeout_ms
    MaxFaults,      \* bound: commands that raise and connections refused
    FaultyAt,       \* the places whose command may raise
    Errors,         \* what a failing command raises
    ExpiringKeys    \* the keys whose time to live may run out

Gates == {"inflight", "waiting"}
Keys == Gates \cup Users

ASSUME RedisAssumption ==
    /\ Gates \cap Users = {}
    /\ MaxPolls \in Nat \ {0}
    /\ MaxFaults \in Nat
    /\ Errors \subseteq {"OSError", "RedisError"}
    /\ ExpiringKeys \subseteq Keys

VARIABLES
    at,        \* where the request is in _acquire_redis
    count,     \* the shared counters
    ttl,       \* the keys that have a time to live
    slot,      \* _RedisSlot: the gates the request knows it has counted in
    polls,     \* probes that found the gate full
    passed,    \* requests let through since the user's window opened (history)
    faults,    \* commands and connections that failed (history, for the bound)
    resets     \* gates a repair has set to zero (history)

sharedVars == <<count, ttl, slot, polls, passed, faults, resets>>
allVars == <<vars, at, sharedVars>>

\* Mutant: only a malformed reply is caught.
CaughtMalformed == {}

\* What the guard's handlers catch besides ValueError and TypeError.
Caught == {"OSError"}

Limit == [inflight |-> MaxConcurrent, waiting |-> MaxWaiting]

Await(r, where) == at' = [at EXCEPT ![r] = where]

Waits(places) == {r \in Requests : at[r] \in places}

RedisInit ==
    /\ InitialGuard("outside")
    /\ at = [r \in Requests |-> "rating"]
    /\ count = [k \in Keys |-> 0]
    /\ ttl = {}
    /\ slot = [r \in Requests |-> {}]
    /\ polls = [r \in Requests |-> 0]
    /\ passed = [u \in Users |-> 0]
    /\ faults = 0
    /\ resets = {}

-----------------------------------------------------------------------------
(* Commands                                                                *)

Added(k, n) == [count EXCEPT ![k] = @ + n]

Incr(k) == count' = Added(k, 1) /\ UNCHANGED <<ttl, faults>>
Decr(k) == count' = Added(k, -1) /\ UNCHANGED <<ttl, faults>>
SetTtl(k) == ttl' = ttl \cup {k} /\ UNCHANGED <<count, faults>>

\* The command raises; Redis may have carried it out or not.
Raises(r, newCount, newTtl) ==
    /\ faults < MaxFaults
    /\ at[r] \in FaultyAt
    /\ faults' = faults + 1
    /\ \/ UNCHANGED <<count, ttl>>
       \/ count' = newCount /\ ttl' = newTtl
    /\ UNCHANGED <<slot, polls, passed, resets>>

Release(r) == Await(r, "releasing")

\* The request is turned away, or fails, and what it counted is released.
Leaves(r, why) == Release(r) /\ Tell(r, why) /\ UNCHANGED memoryVars

\* An error the handlers know degrades to the in-memory guard.
GivesUpOnRedis(r) ==
    \E e \in Errors :
        IF e \in Caught
          THEN /\ Await(r, "degraded")
               /\ Goto(r, "arriving")
               /\ UNCHANGED <<permits, waiting, inflight, queued, recorded, outcome>>
          ELSE Leaves(r, "failed")

RaisesIn(r, newCount, newTtl) == Raises(r, newCount, newTtl) /\ GivesUpOnRedis(r)

-----------------------------------------------------------------------------
(* _within_user_rate                                                       *)

\* Mutant: the count is compared as it was before this request.
RateIncrReadFirst(r) ==
    LET u == UserOf[r] IN
    /\ at[r] = "rating"
    /\ \/ /\ Incr(u)
          /\ IF count[u] > MaxPerUser
               THEN Leaves(r, "rate limited") /\ UNCHANGED passed
               ELSE /\ Await(r, IF count[u] = 0 THEN "rateTtl" ELSE "probing")
                    /\ passed' = [passed EXCEPT ![u] = @ + 1]
                    /\ UNCHANGED vars
          /\ UNCHANGED <<slot, polls, resets>>
       \/ RaisesIn(r, Added(u, 1), ttl)

RateIncr(r) ==
    LET u == UserOf[r]
        n == count[u] + 1 IN
    /\ at[r] = "rating"
    /\ \/ /\ Incr(u)
          /\ IF n > MaxPerUser
               THEN Leaves(r, "rate limited") /\ UNCHANGED passed
               ELSE /\ Await(r, IF n = 1 THEN "rateTtl" ELSE "probing")
                    /\ passed' = [passed EXCEPT ![u] = @ + 1]
                    /\ UNCHANGED vars
          /\ UNCHANGED <<slot, polls, resets>>
       \/ RaisesIn(r, Added(u, 1), ttl)

RateExpire(r) ==
    /\ at[r] = "rateTtl"
    /\ \/ SetTtl(UserOf[r]) /\ Await(r, "probing") /\ UNCHANGED <<vars, slot, polls, passed, resets>>
       \/ RaisesIn(r, count, ttl \cup {UserOf[r]})

-----------------------------------------------------------------------------
(* _take_inflight and _join_queue                                          *)

Knows(r, gate) == slot' = [slot EXCEPT ![r] = @ \cup {gate}]

\* Mutant: one request too many is granted.
ClaimOneMore(r, gate, from, expiring, granted, overshot) ==
    LET n == count[gate] + 1 IN
    /\ at[r] = from
    /\ \/ /\ Incr(gate)
          /\ CASE n = 1 -> Await(r, expiring) /\ UNCHANGED slot
               [] n # 1 /\ n <= Limit[gate] + 1 -> Await(r, granted) /\ Knows(r, gate)
               [] OTHER -> Await(r, overshot) /\ UNCHANGED slot
          /\ UNCHANGED <<vars, polls, passed, resets>>
       \/ RaisesIn(r, Added(gate, 1), ttl)

\* INCR, then EXPIRE on a count of one, then the decision on the count.
Claim(r, gate, from, expiring, granted, overshot) ==
    LET n == count[gate] + 1 IN
    /\ at[r] = from
    /\ \/ /\ Incr(gate)
          /\ CASE n = 1 -> Await(r, expiring) /\ UNCHANGED slot
               [] n # 1 /\ n <= Limit[gate] -> Await(r, granted) /\ Knows(r, gate)
               [] OTHER -> Await(r, overshot) /\ UNCHANGED slot
          /\ UNCHANGED <<vars, polls, passed, resets>>
       \/ RaisesIn(r, Added(gate, 1), ttl)

ClaimExpire(r, gate, expiring, granted) ==
    /\ at[r] = expiring
    /\ \/ SetTtl(gate) /\ Await(r, granted) /\ Knows(r, gate)
          /\ UNCHANGED <<vars, polls, passed, resets>>
       \/ RaisesIn(r, count, ttl \cup {gate})

Probe(r) == Claim(r, "inflight", "probing", "inflightTtl", "admitted", "overshot")

ProbeExpire(r) == ClaimExpire(r, "inflight", "inflightTtl", "admitted")

\* Mutant: an overshooting probe keeps its count.
OvershootKept(r) ==
    /\ at[r] = "overshot"
    /\ Await(r, IF "waiting" \in slot[r] THEN "checkingTime" ELSE "joining")
    /\ UNCHANGED <<vars, sharedVars>>

\* The probe overshot: give the count back, then queue or keep polling.
Overshoot(r) ==
    /\ at[r] = "overshot"
    /\ \/ /\ Decr("inflight")
          /\ Await(r, IF "waiting" \in slot[r] THEN "checkingTime" ELSE "joining")
          /\ UNCHANGED <<vars, slot, polls, passed, resets>>
       \/ RaisesIn(r, Added("inflight", -1), ttl)

Join(r) ==
    IF MaxWaiting = 0
      THEN at[r] = "joining" /\ Leaves(r, "queue full") /\ UNCHANGED sharedVars
      ELSE Claim(r, "waiting", "joining", "waitingTtl", "checkingTime", "queueFull")

JoinExpire(r) == ClaimExpire(r, "waiting", "waitingTtl", "checkingTime")

QueueFull(r) ==
    /\ at[r] = "queueFull"
    /\ \/ Decr("waiting") /\ Leaves(r, "queue full") /\ UNCHANGED <<slot, polls, passed, resets>>
       \/ RaisesIn(r, Added("waiting", -1), ttl)

\* Mutant: a request that has waited too long polls on.
PollAlways(r) ==
    /\ at[r] = "checkingTime"
    /\ polls' = [polls EXCEPT ![r] = IF @ < MaxPolls THEN @ + 1 ELSE @]
    /\ Await(r, "probing")
    /\ UNCHANGED <<vars, count, ttl, slot, passed, faults, resets>>

\* The elapsed time decides; it allows at most MaxPolls more probes.
Poll(r) ==
    /\ at[r] = "checkingTime"
    /\ \/ /\ polls[r] < MaxPolls
          /\ polls' = [polls EXCEPT ![r] = @ + 1]
          /\ Await(r, "probing")
          /\ UNCHANGED <<vars, count, ttl, slot, passed, faults, resets>>
       \/ Leaves(r, "queue timeout") /\ UNCHANGED sharedVars

-----------------------------------------------------------------------------
(* The body, and _release_redis_slot                                       *)

Admitted(r) ==
    /\ at[r] = "admitted"
    /\ Release(r)
    /\ Tell(r, "admitted")
    /\ UNCHANGED <<memoryVars, sharedVars>>

\* _get_redis_client is in its cooldown, or cannot connect.
NoClient(r) ==
    /\ at[r] = "rating"
    /\ faults < MaxFaults
    /\ faults' = faults + 1
    /\ Await(r, "degraded")
    /\ Goto(r, "arriving")
    /\ UNCHANGED <<permits, waiting, inflight, queued, recorded, outcome>>
    /\ UNCHANGED <<count, ttl, slot, polls, passed, resets>>

\* The request is the in-memory guard's until that guard lets it go.
MemoryStep(r) ==
    /\ at[r] = "degraded"
    /\ Step(r)
    /\ UNCHANGED <<at, sharedVars>>

DegradedEnds(r) ==
    /\ at[r] = "degraded"
    /\ pc[r] = "gone"
    /\ Release(r)
    /\ UNCHANGED <<vars, sharedVars>>

\* The waiting count first, the inflight count second.
NextGate(r) == IF "waiting" \in slot[r] THEN "waiting" ELSE "inflight"

Forgets(r, gate) == slot' = [slot EXCEPT ![r] = @ \ {gate}]

\* _give_back: an uncaught error leaves the finally block, and whatever
\* else was to be given back is not.
GiveBack(r) ==
    LET gate == NextGate(r) IN
    /\ at[r] = "releasing"
    /\ slot[r] # {}
    /\ \/ Decr(gate) /\ Forgets(r, gate) /\ UNCHANGED <<vars, at, polls, passed, resets>>
       \/ /\ Raises(r, Added(gate, -1), ttl)
          /\ \E e \in Errors :
                IF e \in Caught THEN Await(r, "repairing") /\ UNCHANGED vars
                ELSE /\ Await(r, "gone") /\ Tell(r, "failed") /\ UNCHANGED memoryVars

\* A repair that raises is logged and dropped.
RepairFails(r, newCount, newTtl) ==
    /\ faults < MaxFaults
    /\ at[r] \in FaultyAt
    /\ faults' = faults + 1
    /\ \/ UNCHANGED <<count, ttl>>
       \/ count' = newCount /\ ttl' = newTtl
    /\ Release(r)
    /\ Forgets(r, NextGate(r))

\* GET; a count within twice the limit is left as it is.
Repair(r) ==
    LET gate == NextGate(r) IN
    /\ at[r] = "repairing"
    /\ \/ /\ UNCHANGED <<count, ttl, faults>>
          /\ IF count[gate] > 2 * Limit[gate]
               THEN Await(r, "resetting") /\ UNCHANGED slot
               ELSE Release(r) /\ Forgets(r, gate)
       \/ RepairFails(r, count, ttl)
    /\ UNCHANGED <<vars, polls, passed, resets>>

\* SET 0 EX, by now on whatever the counter has become.
Reset(r) ==
    LET gate == NextGate(r)
        zeroed == [count EXCEPT ![gate] = 0] IN
    /\ at[r] = "resetting"
    /\ \/ /\ count' = zeroed
          /\ ttl' = ttl \cup {gate}
          /\ Release(r)
          /\ Forgets(r, gate)
          /\ UNCHANGED faults
       \/ RepairFails(r, zeroed, ttl \cup {gate})
    /\ resets' = resets \cup {gate}
    /\ UNCHANGED <<vars, polls, passed>>

Gone(r) ==
    /\ at[r] = "releasing"
    /\ slot[r] = {}
    /\ Await(r, "gone")
    /\ UNCHANGED <<vars, sharedVars>>

\* Redis drops a key whose time has run out.
KeyExpires(k) ==
    /\ k \in ttl \cap ExpiringKeys
    /\ count' = [count EXCEPT ![k] = 0]
    /\ ttl' = ttl \ {k}
    /\ passed' = [u \in Users |-> IF u = k THEN 0 ELSE passed[u]]
    /\ UNCHANGED <<vars, at, slot, polls, faults, resets>>

RedisStep(r) ==
    \/ RateIncr(r) \/ RateExpire(r) \/ NoClient(r)
    \/ Probe(r) \/ ProbeExpire(r) \/ Overshoot(r)
    \/ Join(r) \/ JoinExpire(r) \/ QueueFull(r) \/ Poll(r)
    \/ Admitted(r) \/ MemoryStep(r) \/ DegradedEnds(r)
    \/ GiveBack(r) \/ Repair(r) \/ Reset(r) \/ Gone(r)

AllGone == \A r \in Requests : at[r] = "gone"

RedisEnded == AllGone /\ UNCHANGED allVars

RedisNext == (\E r \in Requests : RedisStep(r)) \/ (\E k \in Keys : KeyExpires(k)) \/ RedisEnded

\* A thread runs on; a command answers or raises; a body ends.
RedisSpec == RedisInit /\ [][RedisNext]_allVars /\ \A r \in Requests : WF_allVars(RedisStep(r))

-----------------------------------------------------------------------------
Stations == {"rating", "rateTtl", "probing", "inflightTtl", "overshot", "joining", "waitingTtl",
             "queueFull", "checkingTime", "admitted", "degraded", "releasing", "repairing",
             "resetting", "gone"}

GivingUp(r, gate) == at[r] \in {"repairing", "resetting"} /\ NextGate(r) = gate

\* The requests that account for one unit of a gate's counter.
Units(gate) ==
    {r \in Requests : gate \in slot[r] /\ ~GivingUp(r, gate)}
      \cup Waits(IF gate = "inflight" THEN {"inflightTtl", "overshot"}
                                    ELSE {"waitingTtl", "queueFull"})

\* While every command is answered, each counter is at every instant the
\* number of requests that have counted themselves and not yet uncounted
\* themselves, overshooting probes included; a command that raises can only
\* leave it too high, until a repair resets it.
CountsTrue ==
    \A gate \in Gates :
        /\ faults = 0 => count[gate] = Cardinality(Units(gate))
        /\ gate \notin resets => count[gate] >= Cardinality(Units(gate))

\* Within one window the shared counter lets no user past its limit, however
\* its requests interleave - INCR is check and record in one.
UserRateHolds == \A u \in Users : passed[u] <= MaxPerUser

\* Requests running on a Redis slot.
SlotHolders == Waits({"inflightTtl", "admitted"})

\* dependencies.py composes the guard for "bounded server-wide concurrency":
\* the cluster's slots keep their bound until a repair resets the counter
\* under the requests it counts, each worker's fallback guard always.
BoundedConcurrency ==
    /\ "inflight" \notin resets => Cardinality(SlotHolders) <= MaxConcurrent
    /\ Cardinality(Holders) <= MaxConcurrent

\* A command that fails never fails the request it was issued for.
NoRequestFails == \A r \in Requests : outcome[r] # "failed"

\* Every request leaves, whatever Redis does.
EveryoneLeaves == <>AllGone

\* The stations of a request that is neither refused nor given a slot.
Undecided == {"rating", "rateTtl", "probing", "overshot", "joining", "waitingTtl", "checkingTime"}

RedisPhase(r) ==
    IF at[r] \in {"inflightTtl", "admitted"} \/ "inflight" \in slot[r] THEN "running"
    ELSE IF at[r] \in Undecided
           THEN IF at[r] = "waitingTtl" \/ "waiting" \in slot[r] THEN "queued" ELSE "arriving"
    ELSE IF outcome[r] = "admitted" THEN "served" ELSE "refused"

RedisAbstract == INSTANCE AdmissionControl WITH
    MaxRunning <- MaxConcurrent, MaxQueued <- MaxWaiting,
    status <- [r \in Requests |-> RedisPhase(r)]

\* Until a command raises, the shared counters implement the same promise
\* as the in-process guard, step by step.
RedisKeepsPromise ==
    RedisAbstract!Init /\ [][RedisAbstract!Next \/ faults' > 0]_[r \in Requests |-> RedisPhase(r)]

=============================================================================
