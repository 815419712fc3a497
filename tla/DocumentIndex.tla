---------------------------- MODULE DocumentIndex ----------------------------
(***************************************************************************)
(* Uploading, indexing, re-indexing and deleting documents.                *)
(*                                                                         *)
(* One process.  Uploads are coroutines of one event loop; deletes and     *)
(* re-indexes are threads; ingestion runs on a pool of worker threads; the *)
(* watcher, a thread too, re-indexes the files it finds new or replaced.   *)
(* They share the registry, which has a lock and replaces its file         *)
(* atomically, and the corpus, the parent store and the vector index,      *)
(* which are read, changed and written back whole without one.  An action  *)
(* is one access to one of these; everything may happen between two of     *)
(* them.  A document is one row in each store.                             *)
(***************************************************************************)
EXTENDS Naturals, Sequences, FiniteSets

CONSTANTS
    Sources,    \* paths under one user's upload directory
    Contents,   \* what a file may hold
    Blank,      \* the contents that parse to no text
    Requests,   \* uploads, deletes, re-indexes and turns of the watcher
    Workers,    \* threads of the ingest pool
    MaxFaults,  \* bound: steps that raise, and kills of the process
    None

ASSUME DocumentsAssumption ==
    /\ Blank \subseteq Contents
    /\ None \notin Contents
    /\ Requests \cap Workers = {}
    /\ MaxFaults \in Nat

VARIABLES
    file,        \* the file at each source, or None
    record,      \* the registry's record of each source, or None
    corpus,      \* rows of the corpus file
    parents,     \* rows of the parent store
    vectors,     \* rows of the vector index
    evidence,    \* original and parsed artifact of each document version
    queue,       \* the pool's queue: <<source, document_id, version>>
    lastId,      \* document ids issued
    watched,     \* files the watcher has taken up and not seen change since
    task,        \* what each request and each worker is doing
    faults,      \* steps that raised, and kills of the process
    disturbed,   \* (history) two operations have run at the same time,
                 \*   a step has raised, or the process was killed
    fresh,       \* (history) sources whose last operation is an upload
                 \*   that nothing else ran beside
    lost         \* (history) sources whose operations a kill cut short and
                 \*   no upload has registered since

stores == <<corpus, parents, vectors>>
history == <<disturbed, fresh, lost>>
vars == <<file, record, stores, evidence, queue, lastId, watched, task, faults, history>>

Actors == Requests \cup Workers

Kinds == {"upload", "delete", "remove", "reindex", "ingest", "watch"}

\* The steps of delete_file_index, of ingest_paths, and of their callers.
Clearing == {"clear", "clear_vectors", "clear_corpus", "clear_parents", "clear_parent_rows"}
Adding == {"load", "check", "persist", "add", "add_corpus", "add_parents",
           "add_parent_rows", "add_vectors"}
Places == Clearing \cup Adding \cup
    {"idle", "over", "store", "cleared", "forget", "forget_again",
     "hash", "mark", "indexed", "settle", "failed"}

Statuses == {"pending", "indexing", "ready", "failed"}

Doing(place, kind, d, c, id, version) ==
    [at |-> place, kind |-> kind, src |-> d, content |-> c, id |-> id, version |-> version,
     seen |-> {}]

NoTask == Doing("idle", "ingest", None, None, 0, 0)

Init ==
    /\ file = [d \in Sources |-> None]
    /\ record = [d \in Sources |-> None]
    /\ corpus = {} /\ parents = {} /\ vectors = {}
    /\ evidence = {}
    /\ queue = << >>
    /\ lastId = 0
    /\ watched = {}
    /\ task = [a \in Actors |-> NoTask]
    /\ faults = 0
    /\ disturbed = FALSE
    /\ fresh = {} /\ lost = {}

Known(d) == record[d] # None

Move(a, place) == task' = [task EXCEPT ![a].at = place]

Running(a) == task[a].at \notin {"idle", "over"}

Quiet == queue = << >> /\ \A a \in Actors : ~Running(a)

\* Uploads check for duplicates, clear and register without awaiting.
OnLoop(r) ==
    /\ task[r].kind = "upload"
    /\ task[r].at \in (Clearing \ {"clear"}) \cup {"cleared"}

LoopFree == \A r \in Requests : ~OnLoop(r)

InFlight == {task[a].src : a \in {b \in Actors : Running(b)}}
            \cup {queue[i][1] : i \in DOMAIN queue}

Begins(r, d) ==
    /\ disturbed' = (disturbed \/ ~Quiet)
    /\ fresh' = IF Quiet /\ task'[r].kind = "upload" THEN fresh \cup {d}
                ELSE fresh \ (InFlight \cup {d})
    /\ lost' = lost

(***************************************************************************)
(* Uploads.                                                                *)
(***************************************************************************)

SameContent(d, c) == Known(d) /\ record[d].sha = c /\ record[d].status # "failed"

\* The first record with this hash decides, if its file still has it.
Duplicate(c) ==
    \E d \in Sources :
        /\ SameContent(d, c) /\ file[d] = c
        /\ \A e \in Sources : SameContent(e, c) => record[d].id <= record[e].id

StartUpload(r, d, c) ==
    /\ task[r].at = "idle" /\ LoopFree
    /\ ~Duplicate(c)
    /\ task' = [task EXCEPT ![r] = Doing("store", "upload", d, c, 0, 0)]
    /\ Begins(r, d)
    /\ UNCHANGED <<file, record, stores, evidence, queue, lastId, watched, faults>>

ReuseUpload(r, c) ==
    /\ task[r].at = "idle" /\ LoopFree
    /\ Duplicate(c)
    /\ Move(r, "over")
    /\ UNCHANGED <<file, record, stores, evidence, queue, lastId, watched, faults, history>>

ReplaceFile(r) ==
    /\ task[r].at = "store"
    /\ file' = [file EXCEPT ![task[r].src] = task[r].content]
    /\ watched' = watched \ {task[r].src}
    /\ Move(r, "clear")
    /\ UNCHANGED <<record, stores, evidence, queue, lastId, faults, history>>

\* Mutant: a document replaced by other content stays on its version.
NextVersionSame(old, c) == old.version

\* create_document_record: a new document, or the next version of a known one.
NextVersion(old, c) == IF old.sha # c THEN old.latest + 1 ELSE old.version

Registered(d, c) ==
    LET old == record[d]
        v == IF Known(d) THEN NextVersion(old, c) ELSE 1
    IN  [id |-> IF Known(d) THEN old.id ELSE lastId + 1,
         version |-> v,
         latest |-> IF Known(d) /\ old.latest > v THEN old.latest ELSE v,
         sha |-> c, status |-> "pending"]

Register(r) ==
    LET d == task[r].src
        new == Registered(d, task[r].content)
    IN
    /\ task[r].at = "cleared" /\ task[r].kind = "upload"
    /\ record' = [record EXCEPT ![d] = new]
    /\ lastId' = IF Known(d) THEN lastId ELSE lastId + 1
    /\ queue' = Append(queue, <<d, new.id, new.version>>)
    /\ lost' = lost \ {d}
    /\ Move(r, "over")
    /\ UNCHANGED <<file, stores, evidence, watched, faults, disturbed, fresh>>

(***************************************************************************)
(* delete_file_index, for an upload, a delete, a re-index or the watcher.  *)
(***************************************************************************)

\* Mutant: an upload, too, clears the registered version only.
SelectedVersion(t, row) ==
    row.src = t.src /\ (Known(t.src) => row.version = record[t.src].version)

\* An upload and the watcher clear their source, a re-index its document, a
\* delete one version.
Selected(t, row) ==
    /\ row.src = t.src
    /\ t.kind \in {"delete", "remove", "reindex"} => row.id = t.id
    /\ t.kind \in {"delete", "remove"} => row.version = t.version

Matching(t) == {row \in t.seen : Selected(t, row)}

ClearReadCorpus(a) ==
    /\ task[a].at = "clear"
    /\ task[a].kind = "upload" => LoopFree
    /\ task' = [task EXCEPT ![a].at = "clear_vectors", ![a].seen = corpus]
    /\ UNCHANGED <<file, record, stores, evidence, queue, lastId, watched, faults, history>>

\* Mutant: the corpus is cleared and the vectors are left.
ClearVectorsNever(a) ==
    /\ task[a].at = "clear_vectors"
    /\ Move(a, "clear_corpus")
    /\ UNCHANGED <<file, record, stores, evidence, queue, lastId, watched, faults, history>>

ClearVectors(a) ==
    /\ task[a].at = "clear_vectors"
    /\ vectors' = vectors \ Matching(task[a])
    /\ Move(a, "clear_corpus")
    /\ UNCHANGED <<file, record, corpus, parents, evidence, queue, lastId, watched, faults, history>>

ClearCorpus(a) ==
    /\ task[a].at = "clear_corpus"
    /\ corpus' = task[a].seen \ Matching(task[a])
    /\ Move(a, "clear_parents")
    /\ UNCHANGED <<file, record, parents, vectors, evidence, queue, lastId, watched, faults, history>>

ClearReadParents(a) ==
    /\ task[a].at = "clear_parents"
    /\ task' = [task EXCEPT ![a].at = "clear_parent_rows", ![a].seen = parents]
    /\ UNCHANGED <<file, record, stores, evidence, queue, lastId, watched, faults, history>>

ClearParents(a) ==
    /\ task[a].at = "clear_parent_rows"
    /\ parents' = task[a].seen \ Matching(task[a])
    /\ task' = [task EXCEPT ![a].at = "cleared", ![a].seen = {}]
    /\ UNCHANGED <<file, record, corpus, vectors, evidence, queue, lastId, watched, faults, history>>

(***************************************************************************)
(* Deletes, with the file or without.                                      *)
(***************************************************************************)

\* A delete or a re-index works for the record it finds when it starts.
For(kind, d, place) == Doing(place, kind, d, None, record[d].id, record[d].version)

StartDelete(r, d) ==
    /\ task[r].at = "idle" /\ Known(d)
    /\ \E kind \in {"delete", "remove"} : task' = [task EXCEPT ![r] = For(kind, d, "clear")]
    /\ Begins(r, d)
    /\ UNCHANGED <<file, record, stores, evidence, queue, lastId, watched, faults>>

WithStatus(d, status) == IF Known(d) THEN [record[d] EXCEPT !.status = status] ELSE None

KeepFile(r) ==
    /\ task[r].at = "cleared" /\ task[r].kind = "delete"
    /\ record' = [record EXCEPT ![task[r].src] = WithStatus(task[r].src, "pending")]
    /\ Move(r, "over")
    /\ UNCHANGED <<file, stores, evidence, queue, lastId, watched, faults, history>>

RemoveFile(r) ==
    LET d == task[r].src IN
    /\ task[r].at = "cleared" /\ task[r].kind = "remove"
    /\ file' = [file EXCEPT ![d] = None]
    /\ Move(r, IF file[d] # None THEN "forget" ELSE "forget_again")
    /\ UNCHANGED <<record, stores, evidence, queue, lastId, watched, faults, history>>

\* delete_file_index forgets the document with its file, its caller once more.
Forget(r) ==
    /\ task[r].at \in {"forget", "forget_again"}
    /\ record' = [record EXCEPT ![task[r].src] = None]
    /\ Move(r, IF task[r].at = "forget" THEN "forget_again" ELSE "over")
    /\ UNCHANGED <<file, stores, evidence, queue, lastId, watched, faults, history>>

(***************************************************************************)
(* Re-indexes.                                                             *)
(***************************************************************************)

UpToDate(d) == record[d].status = "ready" /\ file[d] = record[d].sha

StartReindex(r, d) ==
    /\ task[r].at = "idle" /\ Known(d)
    /\ IF UpToDate(d)
       THEN Move(r, "over") /\ UNCHANGED history
       ELSE task' = [task EXCEPT ![r] = For("reindex", d, "hash")] /\ Begins(r, d)
    /\ UNCHANGED <<file, record, stores, evidence, queue, lastId, watched, faults>>

\* The file is hashed first and the record updated with the hash after; a
\* file that is gone ends the request.
HashFile(r) ==
    LET c == file[task[r].src]
        next == IF c = None THEN "over" ELSE IF task[r].at = "hash" THEN "mark" ELSE "settle"
    IN
    /\ task[r].at = "hash" \/ (task[r].at = "indexed" /\ task[r].kind = "reindex")
    /\ task' = [task EXCEPT ![r].at = next, ![r].content = c]
    /\ UNCHANGED <<file, record, stores, evidence, queue, lastId, watched, faults, history>>

WithHash(t, status) ==
    IF Known(t.src) THEN [record[t.src] EXCEPT !.status = status, !.sha = t.content] ELSE None

MarkReindexing(r) ==
    /\ task[r].at = "mark"
    /\ record' = [record EXCEPT ![task[r].src] = WithHash(task[r], "indexing")]
    /\ Move(r, "clear")
    /\ UNCHANGED <<file, stores, evidence, queue, lastId, watched, faults, history>>

Reload(r) ==
    /\ task[r].at = "cleared" /\ task[r].kind = "reindex"
    /\ Move(r, IF file[task[r].src] # None THEN "load" ELSE "over")
    /\ UNCHANGED <<file, record, stores, evidence, queue, lastId, watched, faults, history>>

EndReindex(r) ==
    /\ task[r].at = "settle"
    /\ record' = [record EXCEPT ![task[r].src] = WithHash(task[r], "ready")]
    /\ Move(r, "over")
    /\ UNCHANGED <<file, stores, evidence, queue, lastId, watched, faults, history>>

(***************************************************************************)
(* ingest_paths, for a job, a re-index or the watcher.                     *)
(***************************************************************************)

\* What raises goes to the handler of run_ingest_job, or of the watcher, which
\* goes on when it is the clearing that raised; a re-index has none and leaves
\* the record as it marked it.
Failing(a) ==
    IF task[a].kind = "watch" /\ task[a].at \in Clearing THEN "cleared"
    ELSE IF task[a].kind \in {"ingest", "watch"} THEN "failed" ELSE "over"

Load(a) ==
    LET c == file[task[a].src] IN
    /\ task[a].at = "load"
    /\ task' = [task EXCEPT ![a].at = IF c = None THEN Failing(a) ELSE "check",
                            ![a].content = c]
    /\ UNCHANGED <<file, record, stores, evidence, queue, lastId, watched, faults, history>>

\* A version that has artifacts accepts only the same bytes again.  The
\* original is read from the file a second time.
\* What the watcher indexes has no registered document: its id, 0, stands for
\* one made from the hash of what was parsed.
SameDocument(x, id, version, parsed) ==
    x.id = id /\ x.version = version /\ (id = 0 => x.parsed = parsed)

Kept(t) == {e \in evidence : SameDocument(e, t.id, t.version, t.content)}

Artifacts(t, original) ==
    [src |-> t.src, id |-> t.id, version |-> t.version, original |-> original,
     parsed |-> t.content]

CheckEvidence(a) ==
    LET new == Artifacts(task[a], file[task[a].src])
        accepted == new.original # None /\ Kept(task[a]) \subseteq {new}
        next == IF Kept(task[a]) = {} THEN "persist"
                ELSE IF task[a].content \in Blank THEN "indexed" ELSE "add"
    IN
    /\ task[a].at = "check"
    /\ task' = [task EXCEPT ![a].at = IF accepted THEN next ELSE Failing(a),
                            ![a].seen = IF accepted /\ next = "persist" THEN {new} ELSE {}]
    /\ UNCHANGED <<file, record, stores, evidence, queue, lastId, watched, faults, history>>

\* Mutant: only a document's first version is persisted.
PersistOnce(a) ==
    /\ task[a].at = "persist"
    /\ evidence' = IF \E e \in evidence : e.id = task[a].id THEN evidence
                   ELSE evidence \cup task[a].seen
    /\ task' = [task EXCEPT ![a].at = IF task[a].content \in Blank THEN "indexed" ELSE "add",
                            ![a].seen = {}]
    /\ UNCHANGED <<file, record, stores, queue, lastId, watched, faults, history>>

\* What was absent when it was looked for is written, over what came since.
Persist(a) ==
    /\ task[a].at = "persist"
    /\ evidence' = (evidence \ Kept(task[a])) \cup task[a].seen
    /\ task' = [task EXCEPT ![a].at = IF task[a].content \in Blank THEN "indexed" ELSE "add",
                            ![a].seen = {}]
    /\ UNCHANGED <<file, record, stores, queue, lastId, watched, faults, history>>

Row(t) == [src |-> t.src, id |-> t.id, version |-> t.version, content |-> t.content]

AddReadCorpus(a) ==
    /\ task[a].at = "add"
    /\ task' = [task EXCEPT ![a].at = "add_corpus", ![a].seen = corpus]
    /\ UNCHANGED <<file, record, stores, evidence, queue, lastId, watched, faults, history>>

AddCorpus(a) ==
    /\ task[a].at = "add_corpus"
    /\ corpus' = task[a].seen \cup {Row(task[a])}
    /\ Move(a, "add_parents")
    /\ UNCHANGED <<file, record, parents, vectors, evidence, queue, lastId, watched, faults, history>>

AddReadParents(a) ==
    /\ task[a].at = "add_parents"
    /\ task' = [task EXCEPT ![a].at = "add_parent_rows", ![a].seen = parents]
    /\ UNCHANGED <<file, record, stores, evidence, queue, lastId, watched, faults, history>>

AddParents(a) ==
    /\ task[a].at = "add_parent_rows"
    /\ parents' = task[a].seen \cup {Row(task[a])}
    /\ task' = [task EXCEPT ![a].at = "add_vectors", ![a].seen = {}]
    /\ UNCHANGED <<file, record, corpus, vectors, evidence, queue, lastId, watched, faults, history>>

AddVectors(a) ==
    /\ task[a].at = "add_vectors"
    /\ vectors' = vectors \cup {Row(task[a])}
    /\ Move(a, "indexed")
    /\ UNCHANGED <<file, record, corpus, parents, evidence, queue, lastId, watched, faults, history>>

(***************************************************************************)
(* The watcher.                                                            *)
(***************************************************************************)

\* One thread takes the files one by one.
WatcherIdle == \A r \in Requests : task[r].kind = "watch" => ~Running(r)

\* A file that two scans found with one signature, other than the one last
\* indexed.  The signature is taken with the file and kept if all goes well.
StartWatch(r, d) ==
    /\ task[r].at = "idle" /\ WatcherIdle
    /\ file[d] # None /\ d \notin watched
    /\ watched' = watched \cup {d}
    /\ task' = [task EXCEPT ![r] = Doing("clear", "watch", d, None, 0, 0)]
    /\ disturbed' = TRUE
    /\ fresh' = fresh \ (InFlight \cup {d})
    /\ UNCHANGED <<file, record, stores, evidence, queue, lastId, faults, lost>>

WatchCleared(r) ==
    /\ task[r].at = "cleared" /\ task[r].kind = "watch"
    /\ Move(r, "load")
    /\ UNCHANGED <<file, record, stores, evidence, queue, lastId, watched, faults, history>>

EndWatch(r) ==
    /\ task[r].kind = "watch" /\ task[r].at \in {"indexed", "failed"}
    /\ watched' = IF task[r].at = "failed" THEN watched \ {task[r].src} ELSE watched
    /\ Move(r, "over")
    /\ UNCHANGED <<file, record, stores, evidence, queue, lastId, faults, history>>

(***************************************************************************)
(* Jobs: run_ingest_job on the pool.                                       *)
(***************************************************************************)

HasRecord(d, id) == Known(d) /\ record[d].id = id

\* A job whose document is gone raises before it does anything.
TakeJob(w) ==
    LET d == Head(queue)[1]
        id == Head(queue)[2]
    IN
    /\ task[w].at = "idle" /\ queue # << >>
    /\ queue' = Tail(queue)
    /\ IF HasRecord(d, id)
       THEN /\ record' = [record EXCEPT ![d].status = "indexing"]
            /\ task' = [task EXCEPT ![w] = Doing("load", "ingest", d, None, id, Head(queue)[3])]
       ELSE UNCHANGED <<record, task>>
    /\ UNCHANGED <<file, stores, evidence, lastId, watched, faults, history>>

\* Mutant: a job that fails leaves its record as it was.
JobStatusSilent(t) == IF t.at = "indexed" THEN "ready" ELSE record[t.src].status

JobStatus(t) == IF t.at = "indexed" THEN "ready" ELSE "failed"

\* The outcome goes to whatever version the record has by now.
EndJob(w) ==
    LET t == task[w] IN
    /\ t.kind = "ingest" /\ t.at \in {"indexed", "failed"}
    /\ record' = IF HasRecord(t.src, t.id)
                 THEN [record EXCEPT ![t.src].status = JobStatus(t)]
                 ELSE record
    /\ task' = [task EXCEPT ![w] = NoTask]
    /\ UNCHANGED <<file, stores, evidence, queue, lastId, watched, faults, history>>

\* A step raises.
Fault(a) ==
    /\ faults < MaxFaults /\ task[a].at \in Clearing \cup Adding
    /\ faults' = faults + 1
    /\ task' = [task EXCEPT ![a].at = Failing(a), ![a].seen = {}]
    /\ disturbed' = TRUE
    /\ fresh' = fresh \ {task[a].src}
    /\ UNCHANGED <<file, record, stores, evidence, queue, lastId, watched, lost>>

\* The rows some task is about to write back.
CorpusWrites ==
    {task[a].seen \ Matching(task[a]) : a \in {b \in Actors : task[b].at = "clear_corpus"}}
    \cup {task[a].seen \cup {Row(task[a])} : a \in {b \in Actors : task[b].at = "add_corpus"}}

ParentWrites ==
    {task[a].seen \ Matching(task[a]) : a \in {b \in Actors : task[b].at = "clear_parent_rows"}}
    \cup {task[a].seen \cup {Row(task[a])} : a \in {b \in Actors : task[b].at = "add_parent_rows"}}

\* The corpus and the parents are files that a write empties first.  (A line
\* cut in two, which no later read accepts, is left out.)
Torn(rows, writes) == {rows} \cup UNION {SUBSET w : w \in writes}

\* The process is killed and started again.  The pool's queue is in memory and
\* nothing is resumed: the records stay as they are.
Crash ==
    /\ faults < MaxFaults /\ ~Quiet
    /\ faults' = faults + 1
    /\ corpus' \in Torn(corpus, CorpusWrites)
    /\ parents' \in Torn(parents, ParentWrites)
    /\ queue' = << >>
    /\ task' = [a \in Actors |->
                   IF ~Running(a) THEN task[a]
                   ELSE IF a \in Requests THEN [NoTask EXCEPT !.at = "over"] ELSE NoTask]
    /\ disturbed' = TRUE
    /\ fresh' = IF corpus' = corpus /\ parents' = parents THEN fresh \ InFlight ELSE {}
    /\ lost' = lost \cup InFlight
    /\ watched' = {}
    /\ UNCHANGED <<file, record, vectors, evidence, lastId>>

Ended == Quiet /\ (\A r \in Requests : task[r].at = "over") /\ UNCHANGED vars

Begin(r) ==
    \/ \E d \in Sources, c \in Contents : StartUpload(r, d, c)
    \/ \E c \in Contents : ReuseUpload(r, c)
    \/ \E d \in Sources : StartDelete(r, d) \/ StartReindex(r, d) \/ StartWatch(r, d)

Request(r) ==
    \/ Begin(r) \/ ReplaceFile(r) \/ Register(r)
    \/ KeepFile(r) \/ RemoveFile(r) \/ Forget(r)
    \/ HashFile(r) \/ MarkReindexing(r) \/ Reload(r) \/ EndReindex(r)
    \/ WatchCleared(r) \/ EndWatch(r)

Clear(a) == ClearReadCorpus(a) \/ ClearVectors(a) \/ ClearCorpus(a)
            \/ ClearReadParents(a) \/ ClearParents(a)

Ingest(a) == Load(a) \/ CheckEvidence(a) \/ Persist(a) \/ AddReadCorpus(a)
             \/ AddCorpus(a) \/ AddReadParents(a) \/ AddParents(a) \/ AddVectors(a)

Next ==
    \/ \E r \in Requests : Request(r)
    \/ \E w \in Workers : TakeJob(w) \/ EndJob(w)
    \/ \E a \in Actors : Clear(a) \/ Ingest(a) \/ Fault(a)
    \/ Crash
    \/ Ended

Spec == Init /\ [][Next]_vars

(***************************************************************************)
(* Properties.                                                             *)
(***************************************************************************)

IndexRow == [src : Sources, id : Nat, version : Nat, content : Contents]
Evidence == [src : Sources, id : Nat, version : Nat, original : Contents, parsed : Contents]
Record == [id : Nat \ {0}, version : Nat \ {0}, latest : Nat \ {0}, sha : Contents,
           status : Statuses]

\* Having no record is told from having any.
ASSUME RecordsAssumption == None \notin Record

Task == [at : Places, kind : Kinds, src : Sources \cup {None}, content : Contents \cup {None},
         id : Nat, version : Nat, seen : SUBSET (IndexRow \cup Evidence)]

TypeOK ==
    /\ file \in [Sources -> Contents \cup {None}]
    /\ record \in [Sources -> Record \cup {None}]
    /\ corpus \subseteq IndexRow /\ parents \subseteq IndexRow /\ vectors \subseteq IndexRow
    /\ evidence \subseteq Evidence
    /\ queue \in Seq(Sources \X Nat \X (Nat \ {0}))
    /\ lastId \in Nat
    /\ watched \subseteq Sources
    /\ task \in [Actors -> Task]
    /\ faults \in 0..MaxFaults
    /\ disturbed \in BOOLEAN /\ fresh \subseteq Sources /\ lost \subseteq Sources

RowsOf(d, store) == {row \in store : row.src = d}

\* The rows that source d's record calls for.
Current(d) ==
    IF record[d].sha \in Blank THEN {}
    ELSE {[src |-> d, id |-> record[d].id, version |-> record[d].version,
           content |-> record[d].sha]}

\* Operations that run one after another, each to its end, leave every source
\* consistent: the record has the hash of the file; the rows of a ready
\* document, in all three stores, are those of its version and its file, and
\* its artifacts are that file's; no other document has a row anywhere.
SerialIsExact ==
    ~disturbed /\ Quiet =>
        \A d \in Sources :
            /\ file[d] = (IF Known(d) THEN record[d].sha ELSE None)
            /\ LET ready == Known(d) /\ record[d].status = "ready" IN
               /\ \A store \in {corpus, parents, vectors} :
                      RowsOf(d, store) = IF ready THEN Current(d) ELSE {}
               /\ ready => \E e \in evidence :
                      /\ e.id = record[d].id /\ e.version = record[d].version
                      /\ e.original = file[d] /\ e.parsed = file[d]

\* An upload that nothing else ran beside repairs its source, whatever races
\* and failures went before: once it is ready its corpus and its parent rows
\* are those of its version and its content, and the vector index has them.
\* (Vectors whose corpus rows were lost before stay: they are deleted by the
\* ids found in the corpus.)
UploadRepairs ==
    Quiet => \A d \in fresh :
        Known(d) /\ record[d].status = "ready" =>
            /\ RowsOf(d, corpus) = Current(d) /\ RowsOf(d, parents) = Current(d)
            /\ Current(d) \subseteq vectors

\* While a document lives its version only grows, and content registered over
\* other content gets a version no row and no artifact of the document has.
VersionsOnlyGrow ==
    [][\A d \in Sources :
        Known(d) /\ record'[d] # None /\ record'[d].id = record[d].id =>
            /\ record'[d].version >= record[d].version
            /\ record'[d].status = "pending" /\ record'[d].sha # record[d].sha =>
                 \A e \in evidence \cup corpus \cup parents \cup vectors :
                     e.id = record[d].id => e.version < record'[d].version]_vars

\* When nothing is queued and nothing runs, a record is still pending or
\* indexing only if a delete that keeps the file, or a re-index that ended
\* early, left it so, or a kill whose traces no later upload has removed: no
\* upload that registered in a process that lives is left hanging.
SettledWhenQuiet ==
    Quiet => \A d \in Sources :
        Known(d) /\ record[d].status \in {"pending", "indexing"} =>
            \/ d \in lost
            \/ \E r \in Requests : task[r].kind \in {"delete", "reindex"} /\ task[r].src = d

\* Whatever runs beside what, a row is searchable only when the original and
\* the parsed artifact of its document version are in the store; a kill in the
\* middle of anything does not change that.
EvidenceFirst ==
    \A row \in corpus \cup parents \cup vectors :
        \E e \in evidence : SameDocument(e, row.id, row.version, row.content)

\* What _write_records says of itself: ingesting one file leaves the rows of
\* all other files in the corpus alone.
OthersUntouched ==
    [][\A a \in Actors :
        AddCorpus(a) => \A row \in corpus : row.src # task[a].src => row \in corpus']_vars
=============================================================================
