--------------------------- MODULE RuntimeConfig ---------------------------
(***************************************************************************)
(* Configuration at run time: documents in a configuration centre, the     *)
(* Settings built from them, what is built from the Settings, the poller   *)
(* that looks for changes, and the administrators who write documents and  *)
(* reload.                                                                 *)
(*                                                                         *)
(* The poller, every administrator's request and every query run on a      *)
(* thread of their own.  Each document is fetched by a call of its own     *)
(* (RemoteDocuments.all), get_settings is a cache without a lock, and no   *)
(* lock spans a reload: each step of them is an action.                    *)
(***************************************************************************)
EXTENDS Integers, FiniteSets, Sequences

CONSTANTS
    DataIds,     \* NACOS_DATA_IDS: a later document overrides an earlier one
    Keys,        \* editable settings, known by their alias
    Initially,   \* the documents when the process starts
    Writers,     \* administrators' requests: a write, or a reload alone
    Queries,     \* requests that read settings and fill a cache from them
    Edits,       \* bound: what is edited in the console, pairs of document and key
    Targets,     \* bound: the documents a write names, 0 for none
    MaxChanges,  \* bound: edits in the console and writes
    MaxFaults    \* bound: calls to the centre, and reloads, that fail

Docs == 1..Len(DataIds)
Absent == 0      \* the document does not define the key
Default == 0     \* no document does

ASSUME ConfigAssumption ==
    /\ Len(DataIds) \in Nat \ {0}
    /\ Initially \in [Docs -> [Keys -> Nat]]
    /\ \A d \in Docs, k \in Keys : Initially[d][k] \notin 1..MaxChanges
    /\ Edits \subseteq Docs \X Keys /\ Targets \subseteq {0} \cup Docs
    /\ MaxChanges \in Nat /\ MaxFaults \in Nat

VARIABLES
    centre,     \* the documents; a value is known by the change that set it
    snapshot,   \* the last text of each that arrived
    settings,   \* what get_settings has cached
    runtime,    \* the settings of _query_runtime
    derived,    \* the settings that a cache was built from: one stands for each
    known,      \* the poller's last digest
    jobs,       \* what each thread is doing
    changes, faults,
    disturbed   \* a change may have been missed, and no reload has repaired it (history)

vars == <<centre, snapshot, settings, runtime, derived, known, jobs, changes, faults, disturbed>>

Poller == "poller"
Threads == {Poller} \cup Writers \cup Queries

ASSUME ThreadsAssumption == Poller \notin Writers \cup Queries /\ Writers \cap Queries = {}

Nothing == << >>  \* no settings: a cache that has been cleared

\* RemoteSettingsSource.__call__: values of later documents win.
Effective(docs) ==
    [k \in Keys |->
        LET owning == {d \in Docs : docs[d][k] # Absent}
        IN  IF owning = {} THEN Default
            ELSE docs[CHOOSE d \in owning : \A e \in owning : e <= d][k]]

NewJob == [at |-> "new", next |-> 1, docs |-> Initially, got |-> Nothing,
           edited |-> {}, value |-> 0, target |-> 0, left |-> {}, sole |-> FALSE]

\* The settings are built at import, before anything is started.
Init ==
    /\ centre = Initially /\ snapshot = Initially /\ known = Initially
    /\ settings = Effective(Initially) /\ runtime = settings
    /\ derived = Nothing
    /\ jobs = [t \in Threads |-> NewJob]
    /\ changes = 0 /\ faults = 0
    /\ disturbed = FALSE

Reloading == {"candidate", "clear", "get", "load", "swap", "drop"}
Busy(t) == jobs[t].at \in Reloading \cup {"build"}
Quiet == \A t \in Threads : ~Busy(t)

\* Settings, the runtime and the caches built from settings follow the documents.
Follow(docs) ==
    /\ settings \in {Nothing, Effective(docs)}
    /\ runtime = Effective(docs)
    /\ derived \in {Nothing, Effective(docs)}

\* The locals of a thread that has ended, or of the poller between two looks.
Rests(place) == [NewJob EXCEPT !.at = place]

Goes(t, place) == [jobs[t] EXCEPT !.at = place]
StartsFetch(t, purpose) == [jobs[t] EXCEPT !.at = purpose, !.next = 1, !.docs = Initially]
Becomes(t, job) == jobs' = [jobs EXCEPT ![t] = job]

\* Something may go unnoticed from here on, and no reload under way repairs it.
Disturb(when, next) ==
    /\ disturbed' = (disturbed \/ when)
    /\ jobs' = IF when THEN [t \in Threads |-> [next[t] EXCEPT !.sole = FALSE]] ELSE next

Fault == faults < MaxFaults /\ faults' = faults + 1

-----------------------------------------------------------------------------
(***************************************************************************)
(* The documents.                                                          *)
(***************************************************************************)
\* Somebody saves a document in the centre's own console.
Edit ==
    /\ changes < MaxChanges
    /\ changes' = changes + 1
    /\ \E e \in Edits : centre' = [centre EXCEPT ![e[1]][e[2]] = changes + 1]
    /\ UNCHANGED <<snapshot, settings, runtime, derived, known, jobs, faults, disturbed>>

Fetching == {"seed", "tick", "merge", "candidate", "load"}
Fetched(t, purpose) == jobs[t].at = purpose /\ jobs[t].next > Len(DataIds)

Taken(t, text) == [jobs EXCEPT ![t].next = @ + 1, ![t].docs[jobs[t].next] = text]

\* _document: the next document's text, which also becomes its snapshot.
FetchDocument(t) ==
    LET d == jobs[t].next
    IN  /\ jobs[t].at \in Fetching /\ d \in Docs
        /\ jobs' = Taken(t, centre[d])
        /\ \/ snapshot' = [snapshot EXCEPT ![d] = centre[d]] /\ UNCHANGED faults
           \/ Fault /\ UNCHANGED snapshot   \* it cannot be written
        /\ UNCHANGED <<centre, settings, runtime, derived, known, changes, disturbed>>

\* The centre does not answer: the last text that arrived, which need not be
\* the one the poller compared.
UseSnapshot(t) ==
    LET d == jobs[t].next
    IN  /\ jobs[t].at \in Fetching /\ d \in Docs
        /\ Fault
        /\ Disturb(jobs[t].at = "load" /\ snapshot[d] # known[d], Taken(t, snapshot[d]))
        /\ UNCHANGED <<centre, snapshot, settings, runtime, derived, known, changes>>

-----------------------------------------------------------------------------
(***************************************************************************)
(* The poller, watch_remote_config._poll.                                  *)
(***************************************************************************)
StartPoller ==
    /\ jobs[Poller].at = "new"
    /\ Becomes(Poller, StartsFetch(Poller, "seed"))
    /\ UNCHANGED <<centre, snapshot, settings, runtime, derived, known, changes, faults, disturbed>>

\* Its own fetch, later than the one the settings were built from.
Seed ==
    /\ Fetched(Poller, "seed")
    /\ known' = jobs[Poller].docs
    /\ Disturb(~(Quiet /\ Follow(known')), [jobs EXCEPT ![Poller] = Rests("idle")])
    /\ UNCHANGED <<centre, snapshot, settings, runtime, derived, changes, faults>>

Tick ==
    /\ jobs[Poller].at = "idle"
    /\ Becomes(Poller, StartsFetch(Poller, "tick"))
    /\ UNCHANGED <<centre, snapshot, settings, runtime, derived, known, changes, faults, disturbed>>

\* The digest differs from the last one: it is the last one now, whatever
\* becomes of the reload.
Compare ==
    /\ Fetched(Poller, "tick")
    /\ known' = jobs[Poller].docs
    /\ Becomes(Poller, IF known' = known THEN Rests("idle") ELSE StartsFetch(Poller, "candidate"))
    /\ UNCHANGED <<centre, snapshot, settings, runtime, derived, changes, faults, disturbed>>

-----------------------------------------------------------------------------
(***************************************************************************)
(* apply_config_reload.                                                    *)
(***************************************************************************)
\* Mutant: an exception in the callback ends the poller's thread.
AbortedToTheEnd(t) == "over"

\* reload_from_remote_config swallows what the reload raised.
Aborted(t) == IF t = Poller THEN "idle" ELSE "over"

\* validate_security_settings, Settings() or the new queue's start raises.
AbortReload(t) ==
    /\ \/ Fetched(t, "candidate")
       \/ Fetched(t, "load") /\ t \notin Queries
       \/ jobs[t].at = "swap"
    /\ Fault
    /\ Disturb(TRUE, [jobs EXCEPT ![t] = Rests(Aborted(t))])
    /\ UNCHANGED <<centre, snapshot, settings, runtime, derived, known, changes>>

\* The candidate, Settings() of its own, is valid; it is not used further.
Validate(t) ==
    /\ Fetched(t, "candidate")
    /\ Becomes(t, Rests("clear"))
    /\ UNCHANGED <<centre, snapshot, settings, runtime, derived, known, changes, faults, disturbed>>

\* Mutant: the cache is left as it is.
CacheKept(t) == settings

\* get_settings.cache_clear()
CacheCleared(t) == Nothing

Clear(t) ==
    LET sole == \A u \in Threads \ {t} : ~Busy(u)
    IN  /\ jobs[t].at = "clear"
        /\ settings' = CacheCleared(t)
        /\ Disturb(~sole, [jobs EXCEPT ![t].at = "get", ![t].sole = TRUE])
        /\ UNCHANGED <<centre, snapshot, runtime, derived, known, changes, faults>>

\* get_settings(): what is cached, or Settings() anew.
GetSettings(t) ==
    /\ jobs[t].at = "get"
    /\ Becomes(t, IF settings # Nothing
                  THEN [Goes(t, IF t \in Queries THEN "build" ELSE "swap") EXCEPT !.got = settings]
                  ELSE StartsFetch(t, "load"))
    /\ UNCHANGED <<centre, snapshot, settings, runtime, derived, known, changes, faults, disturbed>>

\* Of two that missed, the first to finish is cached, the second is returned.
Load(t) ==
    LET loaded == Effective(jobs[t].docs)
    IN  /\ Fetched(t, "load")
        /\ settings' = IF settings = Nothing THEN loaded ELSE settings
        /\ Becomes(t, [StartsFetch(t, IF t \in Queries THEN "build" ELSE "swap") EXCEPT !.got = loaded])
        /\ UNCHANGED <<centre, snapshot, runtime, derived, known, changes, faults, disturbed>>

\* reload_query_runtime, once the new queue has started.
Swap(t) ==
    /\ jobs[t].at = "swap"
    /\ runtime' = jobs[t].got
    /\ Becomes(t, [Rests("drop") EXCEPT !.sole = jobs[t].sole])
    /\ UNCHANGED <<centre, snapshot, settings, derived, known, changes, faults, disturbed>>

\* Every cache that holds an editable value, the driver and the bulkheads.
DropCaches(t) ==
    /\ jobs[t].at = "drop"
    /\ derived' = Nothing
    /\ Becomes(t, Rests(IF t = Poller THEN "idle" ELSE "over"))
    /\ disturbed' = (disturbed /\ ~jobs[t].sole)
    /\ UNCHANGED <<centre, snapshot, settings, runtime, known, changes, faults>>

-----------------------------------------------------------------------------
(***************************************************************************)
(* Queries, and administrators.                                            *)
(***************************************************************************)
StartQuery(q) ==
    /\ jobs[q].at = "new"
    /\ Becomes(q, Goes(q, "get"))
    /\ UNCHANGED <<centre, snapshot, settings, runtime, derived, known, changes, faults, disturbed>>

\* A cache is filled from the settings that the query read before.
Build(q) ==
    /\ jobs[q].at = "build"
    /\ derived' = IF derived = Nothing THEN jobs[q].got ELSE derived
    /\ Becomes(q, Rests("over"))
    /\ UNCHANGED <<centre, snapshot, settings, runtime, known, changes, faults, disturbed>>

\* admin_reload_config
StartReload(w) ==
    /\ jobs[w].at = "new"
    /\ Becomes(w, StartsFetch(w, "candidate"))
    /\ UNCHANGED <<centre, snapshot, settings, runtime, derived, known, changes, faults, disturbed>>

\* write_config_values, of valid values that nothing pins; target 0 leaves the
\* choice of the document to it.
StartWrite(w) ==
    /\ jobs[w].at = "new" /\ changes < MaxChanges
    /\ changes' = changes + 1
    /\ \E edited \in SUBSET Keys \ {{}}, target \in Targets :
         Becomes(w, [StartsFetch(w, "merge") EXCEPT !.edited = edited, !.value = changes + 1, !.target = target])
    /\ UNCHANGED <<centre, snapshot, settings, runtime, derived, known, faults, disturbed>>

\* Mutant: the first document that defines the key.
HomeFirst(job, k) ==
    LET owning == {d \in Docs : job.docs[d][k] # Absent}
    IN  IF job.target # 0 THEN job.target
        ELSE IF owning = {} THEN Len(DataIds)
        ELSE CHOOSE d \in owning : \A e \in owning : e >= d

\* The document a key is written to: the last that defines it.
Home(job, k) ==
    LET owning == {d \in Docs : job.docs[d][k] # Absent}
    IN  IF job.target # 0 THEN job.target
        ELSE IF owning = {} THEN Len(DataIds)
        ELSE CHOOSE d \in owning : \A e \in owning : e <= d

Merged(job, d) ==
    [k \in Keys |-> IF k \in job.edited /\ Home(job, k) = d THEN job.value ELSE job.docs[d][k]]

Route(w) ==
    /\ Fetched(w, "merge")
    /\ Becomes(w, [Goes(w, "publish") EXCEPT !.left = {Home(jobs[w], k) : k \in jobs[w].edited}])
    /\ UNCHANGED <<centre, snapshot, settings, runtime, derived, known, changes, faults, disturbed>>

\* Each document is replaced whole; the reload follows the last of them.
Publish(w, d) ==
    LET rest == jobs[w].left \ {d}
    IN  /\ jobs[w].at = "publish" /\ d \in jobs[w].left
        /\ centre' = [centre EXCEPT ![d] = Merged(jobs[w], d)]
        /\ Becomes(w, IF rest = {} THEN Rests("candidate") ELSE [jobs[w] EXCEPT !.left = rest])
        /\ UNCHANGED <<snapshot, settings, runtime, derived, known, changes, faults, disturbed>>

\* ConfigWriteRefused: documents published before it stay so, the centre may
\* have taken this one, and nothing is reloaded.
RefuseWrite(w, d) ==
    /\ jobs[w].at = "publish" /\ d \in jobs[w].left
    /\ Fault
    /\ centre' \in {centre, [centre EXCEPT ![d] = Merged(jobs[w], d)]}
    /\ Becomes(w, Rests("over"))
    /\ UNCHANGED <<snapshot, settings, runtime, derived, known, changes, disturbed>>

-----------------------------------------------------------------------------
ReloadStep(t) ==
    Validate(t) \/ AbortReload(t) \/ Clear(t) \/ GetSettings(t) \/ Load(t) \/ Swap(t) \/ DropCaches(t)

PollerStep == StartPoller \/ FetchDocument(Poller) \/ UseSnapshot(Poller) \/ Seed \/ Tick \/ Compare \/ ReloadStep(Poller)

WriterStep(w) ==
    \/ StartReload(w) \/ StartWrite(w) \/ FetchDocument(w) \/ UseSnapshot(w) \/ Route(w)
    \/ \E d \in Docs : Publish(w, d) \/ RefuseWrite(w, d)
    \/ ReloadStep(w)

QueryStep(q) == StartQuery(q) \/ GetSettings(q) \/ FetchDocument(q) \/ UseSnapshot(q) \/ Load(q) \/ Build(q)

Next ==
    \/ Edit \/ PollerStep
    \/ \E w \in Writers : WriterStep(w)
    \/ \E q \in Queries : QueryStep(q)

\* The poller's loop never ends and no call in it waits for ever.
Fairness == WF_vars(PollerStep)

Spec == Init /\ [][Next]_vars /\ Fairness

-----------------------------------------------------------------------------
(***************************************************************************)
(* Properties.                                                             *)
(***************************************************************************)
Documents == [Docs -> [Keys -> Nat]]
AllSettings == [Keys -> Nat] \cup {Nothing}

TypeOK ==
    /\ centre \in Documents /\ snapshot \in Documents /\ known \in Documents
    /\ settings \in AllSettings /\ runtime \in [Keys -> Nat] /\ derived \in AllSettings
    /\ jobs \in [Threads ->
         [at : {"new", "over", "idle", "publish", "build"} \cup {"seed", "tick", "merge"} \cup Reloading,
          next : 1..(Len(DataIds) + 1), docs : Documents, got : AllSettings,
          edited : SUBSET Keys, value : Nat, target : {0} \cup Docs, left : SUBSET Docs, sole : BOOLEAN]]
    /\ changes \in 0..MaxChanges /\ faults \in 0..MaxFaults /\ disturbed \in BOOLEAN

\* When no reload is under way, the cached settings, the query runtime and the
\* caches built from settings all follow the documents, or the poller's next
\* look at them will differ from its last; the exceptions are a change made
\* before the poller had its first look, a reload that raised, and reloads or
\* fills that overlapped one, and a later reload that runs by itself ends them.
Agreement ==
    Quiet /\ jobs[Poller].at \in {"idle", "tick"} /\ ~disturbed /\ known = centre =>
        Follow(centre)

\* The centre is as the write read it, but for what the write has published.
Untouched(w) ==
    LET job == jobs[w]
        written == {Home(job, k) : k \in job.edited} \ job.left
    IN  \A d \in Docs : centre[d] = IF d \in written THEN Merged(job, d) ELSE job.docs[d]

\* A write that nothing came between, and that names no document, changes the
\* configuration in force by exactly what was edited: every edited key takes
\* its new value although several documents define it, and no other changes.
WritesAreExact ==
    [][\A w \in Writers :
        /\ jobs[w].at = "publish" /\ jobs'[w].at = "candidate"
        /\ jobs[w].target = 0 /\ Untouched(w)
        => Effective(centre') =
             [k \in Keys |-> IF k \in jobs[w].edited THEN jobs[w].value ELSE Effective(jobs[w].docs)[k]]]_vars

\* Once the documents are left alone the poller has seen them as they are, and
\* from then on they are in force, or what disturbed them was not repaired.
ChangesApplied ==
    /\ <>[](known = centre)
    /\ <>[](Quiet /\ ~disturbed => runtime = Effective(centre))

=============================================================================
