--------------------------- MODULE LongTermMemory ---------------------------
(***************************************************************************)
(* The long-term memory of one user: a file of memories per session and a  *)
(* global one, which MemoryStore reads, changes and replaces whole, without *)
(* a lock, on the thread of every chat turn and of every deletion.         *)
(*                                                                         *)
(* A proposal is a memory of some key (preference:language, ...) and       *)
(* content.  Its identity and its creation time are the value of clock.    *)
(***************************************************************************)
EXTENDS Naturals, FiniteSets

CONSTANTS
    Requests,       \* chat turns and deletions
    Sessions, Keys, Contents,
    Scores,         \* what score_memory_candidate may make of a content
    Global,         \* GLOBAL_MEMORY_SESSION_ID
    None,
    SessionWindow,  \* LONG_TERM_WINDOW_SIZE
    GlobalWindow,   \* long_term_memory_max_items
    TopN            \* LONG_TERM_TOP_N

ASSUME MemoryAssumption ==
    /\ Global \notin Sessions
    /\ Scores \in [Contents -> SUBSET Nat]
    /\ SessionWindow \in Nat /\ GlobalWindow \in Nat /\ TopN \in Nat
    /\ None \notin Requests \cup Sessions \cup Keys \cup Contents

VARIABLES
    files,      \* the memories in each file
    temp,       \* each file's .json.tmp
    jobs,
    clock,      \* proposals so far
    forgotten,  \* what was deleted from which session, since the last overlap (history)
    unsettled   \* keys that overlapping requests may have mixed up (history)

vars == <<files, temp, jobs, clock, forgotten, unsettled>>

Files == Sessions \cup {Global}
Idle == [at |-> "new", session |-> None, row |-> None, text |-> {}, sole |-> FALSE]

Init ==
    /\ files = [f \in Files |-> {}]
    /\ temp = [f \in Files |-> None]
    /\ jobs = [r \in Requests |-> Idle]
    /\ clock = 0
    /\ forgotten = {} /\ unsettled = {}

-----------------------------------------------------------------------------
(***************************************************************************)
(* Payloads, as sets of rows.                                              *)
(***************************************************************************)
Live(rows) == {row \in rows : ~row.deleted}

First(rows, n, Before(_, _)) == {row \in rows : Cardinality({x \in rows : Before(x, row)}) < n}

\* Copies of one memory stay in the order in which they came.
SessionOrder(x, y) == x.id > y.id \/ (x.id = y.id /\ x.updated < y.updated)
GlobalOrder(x, y) == x.updated > y.updated

\* _recompute_long_term_ids
ByScore(x, y) == x.score > y.score \/ (x.score = y.score /\ SessionOrder(x, y))
LongTermIds(rows) == {row.id : row \in First(Live(rows), TopN, ByScore)}

SameKey(rows, row) == {x \in Live(rows) : x.key = row.key}

\* Mutant: the older memories of the key stay.
SupersededNone(rows, row) == rows

\* What has the key of a new memory is deleted.
Superseded(rows, row) ==
    {[x EXCEPT !.deleted = @ \/ x.key = row.key] : x \in rows}

\* _upsert_global: the file's next text, and the memory as it is stored.
Upsert(rows, row) ==
    LET same == {x \in SameKey(rows, row) : x.content = row.content}
        others == SameKey(rows, row)
    IN  IF same # {}
        THEN LET kept == [(CHOOSE x \in same : TRUE) EXCEPT !.updated = row.updated]
             IN  [text |-> (rows \ same) \cup {kept}, row |-> kept]
        ELSE LET added == IF others = {} THEN row
                          ELSE [row EXCEPT !.supersedes = (CHOOSE x \in others : TRUE).id]
             IN  [text |-> First(Superseded(rows, row) \cup {added}, GlobalWindow, GlobalOrder),
                  row  |-> added]

\* The first of the copies of a memory.
Copy(rows, id) == {x \in rows : x.id = id /\ \A y \in rows : y.id = id => y = x \/ SessionOrder(x, y)}

Deleted(rows, which) == {IF x \in which THEN [x EXCEPT !.deleted = TRUE] ELSE x : x \in rows}

-----------------------------------------------------------------------------
(***************************************************************************)
(* Requests.                                                               *)
(***************************************************************************)
Busy(r) == jobs[r].at \notin {"new", "over"}

\* Two requests at work at once: whatever they do may be lost.
Starts(r, job) ==
    LET sole == \A q \in Requests \ {r} : ~Busy(q)
    IN  /\ jobs[r].at = "new"
        /\ jobs' = [q \in Requests |-> IF q = r THEN [job EXCEPT !.sole = sole]
                                       ELSE [jobs[q] EXCEPT !.sole = FALSE]]
        /\ forgotten' = IF sole THEN forgotten ELSE {}
        /\ unsettled' = IF sole THEN unsettled ELSE Keys

\* add_candidate proposes a memory ...
Remember(r) ==
    /\ \E s \in Sessions, k \in Keys, c \in Contents : \E score \in Scores[c] :
         Starts(r, [Idle EXCEPT !.at = "upsert", !.session = s,
                        !.row = [id |-> clock + 1, key |-> k, content |-> c, score |-> score,
                                 updated |-> clock + 1, deleted |-> FALSE, supersedes |-> 0]])
    /\ clock' = clock + 1
    /\ UNCHANGED <<files, temp>>

Writes(r, place, row, text) == jobs' = [jobs EXCEPT ![r].at = place, ![r].row = row, ![r].text = text]

\* ... and merges it into the global file, ...
ReadGlobal(r) ==
    LET next == Upsert(files[Global], jobs[r].row)
    IN  /\ jobs[r].at = "upsert"
        /\ Writes(r, "saveGlobal", next.row, next.text)
        /\ UNCHANGED <<files, temp, clock, forgotten, unsettled>>

\* ... then adds it to the session's.
ReadSession(r) ==
    /\ jobs[r].at = "append"
    /\ Writes(r, "saveSession", jobs[r].row,
              First(files[jobs[r].session] \cup {jobs[r].row}, SessionWindow, SessionOrder))
    /\ UNCHANGED <<files, temp, clock, forgotten, unsettled>>

\* delete_long_term: only of what this session's file has, and of one copy.
Forget(r) ==
    /\ \E s \in Sessions : \E row \in files[s] :
         Starts(r, [Idle EXCEPT !.at = "find", !.session = s, !.row = row])
    /\ UNCHANGED <<files, temp, clock>>

Find(r) ==
    LET own == files[jobs[r].session]
        copy == Copy(own, jobs[r].row.id)
    IN  /\ jobs[r].at = "find"
        /\ IF Live(copy) = {}
           THEN jobs' = [jobs EXCEPT ![r] = [Idle EXCEPT !.at = "over"]]
           ELSE Writes(r, "saveFind", jobs[r].row, Deleted(own, copy))
        /\ UNCHANGED <<files, temp, clock, forgotten, unsettled>>

Ends(r) == jobs' = [jobs EXCEPT ![r] = [Idle EXCEPT !.at = "over"]]

\* The deletion is acknowledged.
Acknowledge(r) ==
    forgotten' = IF jobs[r].sole THEN forgotten \cup {<<jobs[r].session, jobs[r].row.id>>} ELSE forgotten

\* Mutant: the global file is left as it is.
SessionOnly(rows, id) == {}

\* The rows of the global file that a deletion has to mark.
Marked(rows, id) == {x \in Live(rows) : x.id = id}

\* _expire_in_payload, when there is something to expire.
Expire(r) ==
    LET rows == files[Global]
        marked == Marked(rows, jobs[r].row.id)
    IN  /\ jobs[r].at = "expire"
        /\ IF marked = {} THEN Ends(r) /\ Acknowledge(r)
           ELSE Writes(r, "saveExpire", jobs[r].row, Deleted(rows, marked)) /\ UNCHANGED forgotten
        /\ UNCHANGED <<files, temp, clock, unsettled>>

-----------------------------------------------------------------------------
(***************************************************************************)
(* _write: the new text goes to the file's .json.tmp, which then replaces  *)
(* the file; all writers of one file share the name.                       *)
(***************************************************************************)
Saving == {"saveGlobal", "saveSession", "saveFind", "saveExpire"}
Replacing == {"replaceGlobal", "replaceSession", "replaceFind", "replaceExpire"}
Target(r) ==
    IF jobs[r].at \in {"saveGlobal", "replaceGlobal", "saveExpire", "replaceExpire"}
    THEN Global ELSE jobs[r].session

WriteTemp(r) ==
    /\ jobs[r].at \in Saving
    /\ temp' = [temp EXCEPT ![Target(r)] = jobs[r].text]
    /\ jobs' = [jobs EXCEPT ![r].text = {}, ![r].at =
                   CASE @ = "saveGlobal" -> "replaceGlobal" [] @ = "saveSession" -> "replaceSession"
                     [] @ = "saveFind" -> "replaceFind" [] @ = "saveExpire" -> "replaceExpire"]
    /\ UNCHANGED <<files, clock, forgotten, unsettled>>

\* Another writer may have moved the file away: the request fails.
MissReplace(r) ==
    /\ jobs[r].at \in Replacing /\ temp[Target(r)] = None
    /\ Ends(r)
    /\ UNCHANGED <<files, temp, clock, forgotten, unsettled>>

\* The memory is the proposal, and not one that the proposal refreshed.
New(row) == row.updated = row.id

Replace(r) ==
    LET f == Target(r)
    IN  /\ jobs[r].at \in Replacing /\ temp[f] # None
        /\ files' = [files EXCEPT ![f] = temp[f]]
        /\ temp' = [temp EXCEPT ![f] = None]
        /\ CASE jobs[r].at = "replaceGlobal" ->
                  /\ jobs' = [jobs EXCEPT ![r].at = "append"]
                  /\ unsettled' = IF jobs[r].sole /\ New(jobs[r].row)
                                   THEN unsettled \ {jobs[r].row.key} ELSE unsettled
                  /\ UNCHANGED forgotten
             [] jobs[r].at = "replaceFind" ->
                  jobs' = [jobs EXCEPT ![r].at = "expire"] /\ UNCHANGED <<forgotten, unsettled>>
             [] jobs[r].at = "replaceSession" -> Ends(r) /\ UNCHANGED <<forgotten, unsettled>>
             [] jobs[r].at = "replaceExpire" -> Ends(r) /\ Acknowledge(r) /\ UNCHANGED unsettled
        /\ UNCHANGED clock

\* A write raises, or the process dies: what was replaced stays so.
Fail(r) ==
    /\ Busy(r)
    /\ Ends(r)
    /\ UNCHANGED <<files, temp, clock, forgotten, unsettled>>

Ended == (\A r \in Requests : jobs[r].at = "over") /\ UNCHANGED vars

Next ==
    \/ \E r \in Requests :
         \/ Remember(r) \/ ReadGlobal(r) \/ ReadSession(r)
         \/ Forget(r) \/ Find(r) \/ Expire(r)
         \/ WriteTemp(r) \/ MissReplace(r) \/ Replace(r) \/ Fail(r)
    \/ Ended

Spec == Init /\ [][Next]_vars

-----------------------------------------------------------------------------
(***************************************************************************)
(* What a chat turn and the settings page are shown.                       *)
(***************************************************************************)
\* resolve: what has not expired and is not superseded, the newest of each key.
Resolved(items, expired) ==
    LET current == {x \in items : x.id \notin expired /\ \A y \in items : y.supersedes # x.id}
    IN  {x \in current : \A y \in current : y.key = x.key => y.updated <= x.updated}

\* list_long_term, reading both files: the session's best and everything global.
Listed(s, expired) ==
    LET best == LongTermIds(files[s])
        own == {x \in Live(files[s]) : /\ x.id \in best
                                      /\ \A y \in Live(files[s]) : y.id = x.id => y.updated <= x.updated}
    IN  First(Resolved(own \cup Live(files[Global]), expired), TopN, GlobalOrder)

-----------------------------------------------------------------------------
(***************************************************************************)
(* Properties.                                                             *)
(***************************************************************************)
Ids(rows) == {x.id : x \in rows}
Row == [id : Nat \ {0}, key : Keys, content : Contents, score : Nat,
        updated : Nat, deleted : BOOLEAN, supersedes : Nat]

TypeOK ==
    /\ files \in [Files -> SUBSET Row]
    /\ temp \in [Files -> (SUBSET Row) \cup {None}]
    /\ jobs \in [Requests ->
         [at : {"new", "upsert", "append", "find", "expire", "over"} \cup Saving \cup Replacing,
          session : Sessions \cup {None}, row : Row \cup {None}, text : SUBSET Row, sole : BOOLEAN]]
    /\ clock \in Nat
    /\ forgotten \subseteq Sessions \X Nat
    /\ unsettled \subseteq Keys

\* However requests overlap or fail, no key has two live memories in the
\* global file: each text is made from one that was whole.
OneLivePerKey ==
    \A x, y \in Live(files[Global]) : x.key = y.key => x = y

\* While the newest memory of a key is in the global file and has not expired,
\* no session is shown another one under that key, although the sessions' own
\* copies of older ones are never marked; requests that overlapped can break
\* this until a turn that runs by itself says something new of the key: one
\* that repeats what the global file has leaves the mix as it is.
NewestWins ==
    \A s \in Sessions : \A expired \in SUBSET Ids(files[s] \cup files[Global]) :
        \A row \in Listed(s, expired), g \in Live(files[Global]) :
            g.id \notin expired /\ g.key = row.key /\ g.key \notin unsettled => g.id = row.id

\* A deletion that was acknowledged is gone for every search, which reads the
\* global file, and for the session unless it holds the memory a second time;
\* overlapping requests void the promise.
ForgottenStaysOut ==
    \A gone \in forgotten :
        LET s == gone[1]  id == gone[2]
        IN  /\ \A g \in Live(files[Global]) : g.id # id
            /\ Cardinality({x \in files[s] : x.id = id}) = 1 => \A x \in Listed(s, {}) : x.id # id

=============================================================================
