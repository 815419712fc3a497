--------------------------- MODULE DocumentProofs ---------------------------
(***************************************************************************)
(* Documents and their indexes, for any number of sources, contents,       *)
(* requests, workers and faults.                                           *)
(***************************************************************************)
EXTENDS DocumentIndex, TLAPS

\* Where a task holds rows it read from a store and is about to write back.
RowPlaces == {"clear_vectors", "clear_corpus", "clear_parent_rows", "add_corpus", "add_parent_rows"}

\* Where a task has the content of a file that is there.
ContentPlaces == {"store", "mark", "settle"} \cup (Adding \ {"load"})

\* What a task holds, by where it is.
Sound(t) ==
    /\ t.at \notin {"idle", "over"} => t.src \in Sources
    /\ t.at \notin {"idle", "over"} /\ t.kind = "upload" => t.content \in Contents
    /\ t.at \in ContentPlaces => t.content \in Contents
    /\ t.at \in RowPlaces => t.seen \subseteq IndexRow
    /\ t.at = "persist" => t.seen \subseteq Evidence

Typed == TypeOK /\ \A a \in Actors : Sound(task[a])

-----------------------------------------------------------------------------
(* Tasks.                                                                  *)

\* Task t at another place, with other content and other rows in hand.
With(t, p, c, s) ==
    [at |-> p, kind |-> t.kind, src |-> t.src, content |-> c,
     id |-> t.id, version |-> t.version, seen |-> s]

\* Actor a's task becomes u, and nobody else's changes.
Becomes(a, u) == task' = [task EXCEPT ![a] = u]

LEMMA TaskFields ==
    ASSUME NEW t \in Task
    PROVE  /\ t.at \in Places /\ t.kind \in Kinds /\ t.src \in Sources \cup {None}
           /\ t.content \in Contents \cup {None} /\ t.id \in Nat /\ t.version \in Nat
           /\ t.seen \in SUBSET (IndexRow \cup Evidence)
           /\ t = With(t, t.at, t.content, t.seen)
BY DEF Task, With

LEMMA WithFields ==
    ASSUME NEW t \in Task, NEW p \in Places, NEW c \in Contents \cup {None},
           NEW s \in SUBSET (IndexRow \cup Evidence)
    PROVE  /\ With(t, p, c, s) \in Task
           /\ With(t, p, c, s).at = p /\ With(t, p, c, s).kind = t.kind
           /\ With(t, p, c, s).src = t.src /\ With(t, p, c, s).content = c
           /\ With(t, p, c, s).id = t.id /\ With(t, p, c, s).version = t.version
           /\ With(t, p, c, s).seen = s
BY TaskFields DEF Task, With

LEMMA Updates ==
    ASSUME Typed, NEW a \in Actors, NEW p \in Places, NEW c \in Contents \cup {None},
           NEW s \in SUBSET (IndexRow \cup Evidence)
    PROVE  /\ Move(a, p) => Becomes(a, With(task[a], p, task[a].content, task[a].seen))
           /\ task' = [task EXCEPT ![a].at = p, ![a].seen = s]
                => Becomes(a, With(task[a], p, task[a].content, s))
           /\ task' = [task EXCEPT ![a].at = p, ![a].content = c]
                => Becomes(a, With(task[a], p, c, task[a].seen))
<1> DEFINE t == task[a]
           u == [t EXCEPT !.at = p]
<1>1. task \in [Actors -> Task] /\ t \in Task BY DEF Typed, TypeOK
<1>2. [task EXCEPT ![a].at = p] = [task EXCEPT ![a] = u] BY <1>1
<1>3. [task EXCEPT ![a].at = p, ![a].seen = s] = [task EXCEPT ![a] = [u EXCEPT !.seen = s]]
  BY <1>1
<1>4. [task EXCEPT ![a].at = p, ![a].content = c] = [task EXCEPT ![a] = [u EXCEPT !.content = c]]
  BY <1>1
<1> HIDE DEF t
<1>5. u = With(t, p, t.content, t.seen)
  BY <1>1 DEF Task, With
<1>6. /\ u \in Task /\ u.at = p /\ u.kind = t.kind /\ u.src = t.src /\ u.content = t.content
      /\ u.id = t.id /\ u.version = t.version /\ u.seen = t.seen
  <2>1. t.content \in Contents \cup {None} /\ t.seen \in SUBSET (IndexRow \cup Evidence)
    BY <1>1, TaskFields
  <2> HIDE DEF u
  <2> QED BY <1>1, <1>5, <2>1, WithFields
<1> HIDE DEF u
<1>7. [u EXCEPT !.seen = s] = With(t, p, t.content, s)
  <2>1. [u EXCEPT !.seen = s] = With(u, u.at, u.content, s) BY <1>6 DEF Task, With
  <2> QED BY <2>1, <1>6 DEF With
<1>8. [u EXCEPT !.content = c] = With(t, p, c, t.seen)
  <2>1. [u EXCEPT !.content = c] = With(u, u.at, c, u.seen) BY <1>6 DEF Task, With
  <2> QED BY <2>1, <1>6 DEF With
<1>9. Move(a, p) => Becomes(a, With(t, p, t.content, t.seen))
  BY <1>2, <1>5 DEF Move, Becomes
<1>10. task' = [task EXCEPT ![a].at = p, ![a].seen = s] => Becomes(a, With(t, p, t.content, s))
  BY <1>3, <1>7 DEF Becomes
<1>11. task' = [task EXCEPT ![a].at = p, ![a].content = c] => Becomes(a, With(t, p, c, t.seen))
  BY <1>4, <1>8 DEF Becomes
<1> QED BY <1>9, <1>10, <1>11 DEF t

\* A step gives one actor a sound task: the tasks keep their type.
TasksTyped == task \in [Actors -> Task] /\ \A a \in Actors : Sound(task[a])

LEMMA BecomesTyped ==
    ASSUME Typed, NEW a \in Actors, NEW u \in Task, Sound(u), Becomes(a, u)
    PROVE  TasksTyped' /\ task'[a] = u /\ \A b \in Actors \ {a} : task'[b] = task[b]
BY DEF Typed, TypeOK, Becomes, TasksTyped, Sound

LEMMA NoTaskTyped == NoTask \in Task /\ Sound(NoTask)
BY DEF NoTask, Doing, Task, Sound, Places, Kinds, RowPlaces, ContentPlaces, Adding

\* What is known of the task an action moves.
LEMMA Held ==
    ASSUME Typed, NEW a \in Actors
    PROVE  /\ task \in [Actors -> Task] /\ task[a] \in Task /\ Sound(task[a])
           /\ task[a].src \in Sources \cup {None} /\ task[a].content \in Contents \cup {None}
           /\ task[a].id \in Nat /\ task[a].version \in Nat
           /\ task[a].seen \in SUBSET (IndexRow \cup Evidence)
BY TaskFields DEF Typed, TypeOK

\* A task that moves to a place it is sound for.
LEMMA Shift ==
    ASSUME Typed, NEW a \in Actors, NEW p \in Places, NEW c \in Contents \cup {None},
           NEW s \in SUBSET (IndexRow \cup Evidence),
           Becomes(a, With(task[a], p, c, s)),
           p \notin {"idle", "over"} =>
               /\ task[a].src \in Sources
               /\ task[a].kind = "upload" => c \in Contents,
           p \in ContentPlaces => c \in Contents,
           p \in RowPlaces => s \subseteq IndexRow,
           p = "persist" => s \subseteq Evidence
    PROVE  TasksTyped'
<1> DEFINE u == With(task[a], p, c, s)
<1>1. u \in Task /\ u.at = p /\ u.kind = task[a].kind /\ u.src = task[a].src
      /\ u.content = c /\ u.seen = s
  BY Held, WithFields
<1>2. Becomes(a, u) OBVIOUS
<1> HIDE DEF u
<1>3. Sound(u) BY <1>1 DEF Sound
<1> QED BY <1>1, <1>2, <1>3, BecomesTyped

\* An upload starts with its content, everything else without.
LEMMA Started ==
    ASSUME NEW d \in Sources
    PROVE  /\ \A c \in Contents :
                /\ Doing("store", "upload", d, c, 0, 0) \in Task
                /\ Sound(Doing("store", "upload", d, c, 0, 0))
           /\ \A p \in {"clear", "hash", "load"}, k \in Kinds \ {"upload"}, i \in Nat, v \in Nat :
                /\ Doing(p, k, d, None, i, v) \in Task
                /\ Sound(Doing(p, k, d, None, i, v))
BY DEF Doing, Task, Sound, Kinds, Places, Clearing, Adding, RowPlaces, ContentPlaces

\* A task that is over owes nothing.
LEMMA Over ==
    ASSUME Typed, NEW a \in Actors, Move(a, "over")
    PROVE  TasksTyped'
<1>1. "over" \in Places BY DEF Places
<1>2. Becomes(a, With(task[a], "over", task[a].content, task[a].seen))
  BY <1>1, Held, Updates
<1> QED BY <1>1, <1>2, Held, Shift DEF Adding, RowPlaces, ContentPlaces

LEMMA RecordFields ==
    ASSUME NEW m \in Record
    PROVE  /\ m.id \in Nat \ {0} /\ m.version \in Nat \ {0} /\ m.latest \in Nat \ {0}
           /\ m.sha \in Contents /\ m.status \in Statuses
BY DEF Record

LEMMA RecordOf ==
    ASSUME Typed, NEW d \in Sources, Known(d)
    PROVE  record[d] \in Record
BY DEF Typed, TypeOK, Known

\* What the pool's queue holds.
LEMMA Queued ==
    ASSUME Typed, queue # << >>
    PROVE  /\ Head(queue)[1] \in Sources /\ Head(queue)[2] \in Nat
           /\ Head(queue)[3] \in Nat \ {0}
           /\ Tail(queue) \in Seq(Sources \X Nat \X (Nat \ {0}))
<1>1. queue \in Seq(Sources \X Nat \X (Nat \ {0})) BY DEF Typed, TypeOK
<1>2. Head(queue) \in Sources \X Nat \X (Nat \ {0}) BY <1>1
<1> QED BY <1>1, <1>2

-----------------------------------------------------------------------------
(* Types.                                                                  *)

LEMMA TasksStep ==
    ASSUME Typed, Next
    PROVE  TasksTyped'
<1>0. Requests \subseteq Actors /\ Workers \subseteq Actors
  BY DEF Actors
<1>1. ASSUME NEW r \in Requests, NEW d \in Sources, NEW c \in Contents,
             StartUpload(r, d, c)
      PROVE  TasksTyped'
  <2>1. Becomes(r, Doing("store", "upload", d, c, 0, 0))
    BY <1>1 DEF StartUpload, Becomes
  <2>2. Doing("store", "upload", d, c, 0, 0) \in Task /\ Sound(Doing("store", "upload", d, c, 0, 0))
    BY <1>1, Started DEF Kinds
  <2> QED BY <1>0, <2>1, <2>2, BecomesTyped
<1>2. ASSUME NEW r \in Requests, NEW c \in Contents, ReuseUpload(r, c) PROVE TasksTyped'
  <2>1. Move(r, "over")
    BY <1>2 DEF ReuseUpload
  <2> QED BY <1>0, <2>1, Over
<1>3. ASSUME NEW r \in Requests, ReplaceFile(r) PROVE TasksTyped'
  <2>1. /\ "clear" \in Places /\ "clear" # "persist"
        /\ "clear" \notin ContentPlaces /\ "clear" \notin RowPlaces
    BY DEF Places, Clearing, Adding, ContentPlaces, RowPlaces
  <2>2. Becomes(r, With(task[r], "clear", task[r].content, task[r].seen))
    BY <1>3, <1>0, <2>1, Held, Updates DEF ReplaceFile, Typed, TypeOK
  <2>3. /\ task[r].src \in Sources
        /\ task[r].kind = "upload" => task[r].content \in Contents
        /\ task[r].content \in Contents \cup {None}
        /\ task[r].seen \in SUBSET (IndexRow \cup Evidence)
    BY <1>3, <1>0, Held DEF ReplaceFile, Sound, ContentPlaces, Adding
  <2> QED BY <1>0, <2>1, <2>2, <2>3, Shift
<1>4. ASSUME NEW r \in Requests, Register(r) PROVE TasksTyped'
  <2>1. Move(r, "over")
    BY <1>4 DEF Register
  <2> QED BY <1>0, <2>1, Over
<1>5. ASSUME NEW r \in Requests, NEW d \in Sources, StartDelete(r, d) PROVE TasksTyped'
  <2>1. PICK k \in {"delete", "remove"} : Becomes(r, For(k, d, "clear"))
    BY <1>5 DEF StartDelete, Becomes
  <2>2. record[d].id \in Nat /\ record[d].version \in Nat
    BY <1>5, RecordOf, RecordFields DEF StartDelete
  <2>3. k \in Kinds /\ k # "upload" BY <1>5 DEF Kinds
  <2>4. For(k, d, "clear") \in Task /\ Sound(For(k, d, "clear"))
    BY <1>5, <2>2, <2>3, Started DEF For
  <2> QED BY <1>0, <2>1, <2>4, BecomesTyped
<1>6. ASSUME NEW r \in Requests, KeepFile(r) PROVE TasksTyped'
  <2>1. Move(r, "over")
    BY <1>6 DEF KeepFile
  <2> QED BY <1>0, <2>1, Over
<1>7. ASSUME NEW r \in Requests, RemoveFile(r) PROVE TasksTyped'
  <2> USE DEF Places, Clearing, Adding, ContentPlaces
  <2>1. PICK p \in {"forget", "forget_again"} : Move(r, p)
    BY <1>7 DEF RemoveFile
  <2>2. Becomes(r, With(task[r], p, task[r].content, task[r].seen))
    BY <1>0, <2>1, Held, Updates
  <2> QED BY <1>7, <1>0, <2>2, Held, Shift DEF RemoveFile, Sound, RowPlaces
<1>8. ASSUME NEW r \in Requests, Forget(r) PROVE TasksTyped'
  <2> USE DEF Places, Clearing, Adding, ContentPlaces
  <2>1. PICK p \in {"forget_again", "over"} : Move(r, p)
    BY <1>8 DEF Forget
  <2>2. Becomes(r, With(task[r], p, task[r].content, task[r].seen))
    BY <1>0, <2>1, Held, Updates
  <2> QED BY <1>8, <1>0, <2>2, Held, Shift DEF Forget, Sound, RowPlaces
<1>9. ASSUME NEW r \in Requests, NEW d \in Sources, StartReindex(r, d) PROVE TasksTyped'
  <2>1. CASE Move(r, "over")
    BY <1>0, <2>1, Over
  <2>2. CASE Becomes(r, For("reindex", d, "hash"))
    <3>1. record[d].id \in Nat /\ record[d].version \in Nat
      BY <1>9, RecordOf, RecordFields DEF StartReindex
    <3>2. "reindex" \in Kinds /\ "reindex" # "upload" BY <1>9 DEF Kinds
    <3>3. For("reindex", d, "hash") \in Task /\ Sound(For("reindex", d, "hash"))
      BY <1>9, <3>1, <3>2, Started DEF For
    <3> QED BY <1>0, <2>2, <3>3, BecomesTyped
  <2> QED BY <1>9, <2>1, <2>2 DEF StartReindex, Becomes
<1>10. ASSUME NEW r \in Requests, HashFile(r) PROVE TasksTyped'
  <2> USE DEF Places, Clearing, Adding, ContentPlaces
  <2> DEFINE c == file[task[r].src]
  <2>1. task[r].src \in Sources /\ c \in Contents \cup {None}
    BY <1>10, <1>0, Held DEF HashFile, Sound, Typed, TypeOK
  <2>2. PICK p \in {"over", "mark", "settle"} :
            /\ task' = [task EXCEPT ![r].at = p, ![r].content = c]
            /\ c = None => p = "over"
    BY <1>10 DEF HashFile
  <2>3. Becomes(r, With(task[r], p, c, task[r].seen))
    BY <1>0, <2>1, <2>2, Held, Updates
  <2>4. task[r].kind = "upload" => p = "over" \/ c \in Contents
    BY <2>1, <2>2
  <2> QED BY <1>10, <1>0, <2>1, <2>2, <2>3, <2>4, Held, Shift DEF RowPlaces
<1>11. ASSUME NEW r \in Requests, MarkReindexing(r) PROVE TasksTyped'
  <2>1. /\ "clear" \in Places /\ "clear" # "persist"
        /\ "clear" \notin ContentPlaces /\ "clear" \notin RowPlaces
    BY DEF Places, Clearing, Adding, ContentPlaces, RowPlaces
  <2>2. Becomes(r, With(task[r], "clear", task[r].content, task[r].seen))
    BY <1>11, <1>0, <2>1, Held, Updates DEF MarkReindexing, Typed, TypeOK
  <2>3. /\ task[r].src \in Sources
        /\ task[r].kind = "upload" => task[r].content \in Contents
        /\ task[r].content \in Contents \cup {None}
        /\ task[r].seen \in SUBSET (IndexRow \cup Evidence)
    BY <1>11, <1>0, Held DEF MarkReindexing, Sound, ContentPlaces, Adding
  <2> QED BY <1>0, <2>1, <2>2, <2>3, Shift
<1>12. ASSUME NEW r \in Requests, Reload(r) PROVE TasksTyped'
  <2> USE DEF Places, Clearing, Adding, ContentPlaces
  <2>1. PICK p \in {"load", "over"} : Move(r, p)
    BY <1>12 DEF Reload
  <2>2. Becomes(r, With(task[r], p, task[r].content, task[r].seen))
    BY <1>0, <2>1, Held, Updates
  <2> QED BY <1>12, <1>0, <2>2, Held, Shift DEF Reload, Sound, RowPlaces
<1>13. ASSUME NEW r \in Requests, EndReindex(r) PROVE TasksTyped'
  <2>1. Move(r, "over")
    BY <1>13 DEF EndReindex
  <2> QED BY <1>0, <2>1, Over
<1>14. ASSUME NEW w \in Workers, TakeJob(w) PROVE TasksTyped'
  <2> DEFINE d == Head(queue)[1]
             id == Head(queue)[2]
  <2>1. CASE HasRecord(d, id)
    <3>1. Becomes(w, Doing("load", "ingest", d, None, id, Head(queue)[3]))
      BY <1>14, <2>1 DEF TakeJob, Becomes
    <3>2. d \in Sources /\ id \in Nat /\ Head(queue)[3] \in Nat
      BY <1>14, Queued DEF TakeJob
    <3>3. "ingest" \in Kinds /\ "ingest" # "upload" BY <1>14 DEF Kinds
    <3>4. /\ Doing("load", "ingest", d, None, id, Head(queue)[3]) \in Task
          /\ Sound(Doing("load", "ingest", d, None, id, Head(queue)[3]))
      BY <3>2, <3>3, Started
    <3> QED BY <1>0, <3>1, <3>4, BecomesTyped
  <2>2. CASE ~HasRecord(d, id)
    BY <1>14, <2>2 DEF TakeJob, Typed, TypeOK, TasksTyped
  <2> QED BY <2>1, <2>2
<1>15. ASSUME NEW w \in Workers, EndJob(w) PROVE TasksTyped'
  <2> QED BY <1>15, <1>0, NoTaskTyped, BecomesTyped DEF EndJob, Becomes
<1>16. ASSUME NEW a \in Actors, ClearReadCorpus(a) PROVE TasksTyped'
  <2>1. /\ "clear_vectors" \in Places /\ "clear_vectors" # "persist"
        /\ "clear_vectors" \notin ContentPlaces
    BY DEF Places, Clearing, Adding, ContentPlaces, RowPlaces
  <2>2. Becomes(a, With(task[a], "clear_vectors", task[a].content, corpus))
    BY <1>16, <2>1, Held, Updates DEF ClearReadCorpus, Typed, TypeOK
  <2>3. /\ task[a].src \in Sources
        /\ task[a].kind = "upload" => task[a].content \in Contents
        /\ task[a].content \in Contents \cup {None}
        /\ corpus \in SUBSET (IndexRow \cup Evidence)
        /\ corpus \subseteq IndexRow
    BY <1>16, <1>0, Held DEF ClearReadCorpus, Sound, ContentPlaces, Adding, RowPlaces, Typed, TypeOK
  <2> QED BY <2>1, <2>2, <2>3, Shift
<1>17. ASSUME NEW a \in Actors, ClearVectors(a) PROVE TasksTyped'
  <2>1. /\ "clear_corpus" \in Places /\ "clear_corpus" # "persist"
        /\ "clear_corpus" \notin ContentPlaces
    BY DEF Places, Clearing, Adding, ContentPlaces, RowPlaces
  <2>2. Becomes(a, With(task[a], "clear_corpus", task[a].content, task[a].seen))
    BY <1>17, <2>1, Held, Updates DEF ClearVectors, Typed, TypeOK
  <2>3. /\ task[a].src \in Sources
        /\ task[a].kind = "upload" => task[a].content \in Contents
        /\ task[a].content \in Contents \cup {None}
        /\ task[a].seen \in SUBSET (IndexRow \cup Evidence)
        /\ task[a].seen \subseteq IndexRow
    BY <1>17, <1>0, Held DEF ClearVectors, Sound, ContentPlaces, Adding, RowPlaces, Typed, TypeOK
  <2> QED BY <2>1, <2>2, <2>3, Shift
<1>18. ASSUME NEW a \in Actors, ClearCorpus(a) PROVE TasksTyped'
  <2>1. /\ "clear_parents" \in Places /\ "clear_parents" # "persist"
        /\ "clear_parents" \notin ContentPlaces /\ "clear_parents" \notin RowPlaces
    BY DEF Places, Clearing, Adding, ContentPlaces, RowPlaces
  <2>2. Becomes(a, With(task[a], "clear_parents", task[a].content, task[a].seen))
    BY <1>18, <2>1, Held, Updates DEF ClearCorpus, Typed, TypeOK
  <2>3. /\ task[a].src \in Sources
        /\ task[a].kind = "upload" => task[a].content \in Contents
        /\ task[a].content \in Contents \cup {None}
        /\ task[a].seen \in SUBSET (IndexRow \cup Evidence)
    BY <1>18, <1>0, Held DEF ClearCorpus, Sound, ContentPlaces, Adding
  <2> QED BY <2>1, <2>2, <2>3, Shift
<1>19. ASSUME NEW a \in Actors, ClearReadParents(a) PROVE TasksTyped'
  <2>1. /\ "clear_parent_rows" \in Places /\ "clear_parent_rows" # "persist"
        /\ "clear_parent_rows" \notin ContentPlaces
    BY DEF Places, Clearing, Adding, ContentPlaces, RowPlaces
  <2>2. Becomes(a, With(task[a], "clear_parent_rows", task[a].content, parents))
    BY <1>19, <2>1, Held, Updates DEF ClearReadParents, Typed, TypeOK
  <2>3. /\ task[a].src \in Sources
        /\ task[a].kind = "upload" => task[a].content \in Contents
        /\ task[a].content \in Contents \cup {None}
        /\ parents \in SUBSET (IndexRow \cup Evidence)
        /\ parents \subseteq IndexRow
    BY <1>19, <1>0, Held DEF ClearReadParents, Sound, ContentPlaces, Adding, RowPlaces, Typed, TypeOK
  <2> QED BY <2>1, <2>2, <2>3, Shift
<1>20. ASSUME NEW a \in Actors, ClearParents(a) PROVE TasksTyped'
  <2>1. /\ "cleared" \in Places /\ "cleared" # "persist"
        /\ "cleared" \notin ContentPlaces /\ "cleared" \notin RowPlaces
    BY DEF Places, Clearing, Adding, ContentPlaces, RowPlaces
  <2>2. Becomes(a, With(task[a], "cleared", task[a].content, {}))
    BY <1>20, <2>1, Held, Updates DEF ClearParents, Typed, TypeOK
  <2>3. /\ task[a].src \in Sources
        /\ task[a].kind = "upload" => task[a].content \in Contents
        /\ task[a].content \in Contents \cup {None}
        /\ {} \in SUBSET (IndexRow \cup Evidence)
    BY <1>20, <1>0, Held DEF ClearParents, Sound, ContentPlaces, Adding
  <2> QED BY <2>1, <2>2, <2>3, Shift
<1>21. ASSUME NEW a \in Actors, Load(a) PROVE TasksTyped'
  <2> USE DEF Places, Clearing, Adding, ContentPlaces
  <2> DEFINE c == file[task[a].src]
  <2>1. task[a].src \in Sources /\ c \in Contents \cup {None}
    BY <1>21, Held DEF Load, Sound, Typed, TypeOK
  <2>2. PICK p \in {"failed", "over", "check"} :
            /\ task' = [task EXCEPT ![a].at = p, ![a].content = c]
            /\ c = None => p = Failing(a) /\ p # "check"
    BY <1>21 DEF Load, Failing, Clearing
  <2>3. Becomes(a, With(task[a], p, c, task[a].seen))
    BY <2>1, <2>2, Held, Updates
  <2>4. /\ p = "check" => c \in Contents
        /\ task[a].kind = "upload" => p = "over" \/ c \in Contents
    BY <1>21, <2>1, <2>2 DEF Failing
  <2> QED BY <1>21, <2>1, <2>2, <2>3, <2>4, Held, Shift DEF RowPlaces
<1>22. ASSUME NEW a \in Actors, CheckEvidence(a) PROVE TasksTyped'
  <2> USE DEF Places, Clearing, Adding, ContentPlaces
  <2> DEFINE new == Artifacts(task[a], file[task[a].src])
  <2>1. /\ task[a].src \in Sources /\ task[a].content \in Contents
        /\ new.original \in Contents \cup {None}
    BY <1>22, Held DEF CheckEvidence, Sound, Typed, TypeOK, Artifacts
  <2>2. PICK p \in {"persist", "indexed", "add", "failed", "over"}, s \in {{new}, {}} :
            /\ task' = [task EXCEPT ![a].at = p, ![a].seen = s]
            /\ s = {new} => p = "persist" /\ new.original # None
    BY <1>22 DEF CheckEvidence, Failing, Clearing
  <2>3. s \subseteq Evidence
    BY <1>22, <2>1, <2>2, Held DEF Artifacts, Evidence
  <2> HIDE DEF new
  <2>4. Becomes(a, With(task[a], p, task[a].content, s))
    BY <2>2, <2>3, Held, Updates
  <2> QED BY <1>22, <2>1, <2>2, <2>3, <2>4, Held, Shift DEF RowPlaces
<1>23. ASSUME NEW a \in Actors, Persist(a) PROVE TasksTyped'
  <2>1. PICK p \in {"indexed", "add"} : task' = [task EXCEPT ![a].at = p, ![a].seen = {}]
    BY <1>23 DEF Persist
  <2>2. /\ p \in Places /\ p # "persist" /\ p \notin RowPlaces /\ p \notin {"idle", "over"}
        /\ {} \in SUBSET (IndexRow \cup Evidence) /\ task[a].content \in Contents \cup {None}
    BY Held DEF Places, Adding, RowPlaces
  <2>3. Becomes(a, With(task[a], p, task[a].content, {}))
    BY <2>1, <2>2, Updates
  <2>4. task[a].src \in Sources /\ task[a].content \in Contents
    BY <1>23, Held DEF Persist, Sound, ContentPlaces, Adding
  <2> QED BY <2>2, <2>3, <2>4, Shift
<1>24. ASSUME NEW a \in Actors, AddReadCorpus(a) PROVE TasksTyped'
  <2>1. "add_corpus" \in Places /\ "add_corpus" # "persist"
    BY DEF Places, Clearing, Adding, ContentPlaces, RowPlaces
  <2>2. Becomes(a, With(task[a], "add_corpus", task[a].content, corpus))
    BY <1>24, <2>1, Held, Updates DEF AddReadCorpus, Typed, TypeOK
  <2>3. /\ task[a].src \in Sources
        /\ task[a].content \in Contents
        /\ task[a].content \in Contents \cup {None}
        /\ corpus \in SUBSET (IndexRow \cup Evidence)
        /\ corpus \subseteq IndexRow
    BY <1>24, <1>0, Held DEF AddReadCorpus, Sound, ContentPlaces, Adding, RowPlaces, Typed, TypeOK
  <2> QED BY <2>1, <2>2, <2>3, Shift
<1>25. ASSUME NEW a \in Actors, AddCorpus(a) PROVE TasksTyped'
  <2>1. "add_parents" \in Places /\ "add_parents" # "persist" /\ "add_parents" \notin RowPlaces
    BY DEF Places, Clearing, Adding, ContentPlaces, RowPlaces
  <2>2. Becomes(a, With(task[a], "add_parents", task[a].content, task[a].seen))
    BY <1>25, <2>1, Held, Updates DEF AddCorpus, Typed, TypeOK
  <2>3. /\ task[a].src \in Sources
        /\ task[a].content \in Contents
        /\ task[a].content \in Contents \cup {None}
        /\ task[a].seen \in SUBSET (IndexRow \cup Evidence)
    BY <1>25, <1>0, Held DEF AddCorpus, Sound, ContentPlaces, Adding
  <2> QED BY <2>1, <2>2, <2>3, Shift
<1>26. ASSUME NEW a \in Actors, AddReadParents(a) PROVE TasksTyped'
  <2>1. "add_parent_rows" \in Places /\ "add_parent_rows" # "persist"
    BY DEF Places, Clearing, Adding, ContentPlaces, RowPlaces
  <2>2. Becomes(a, With(task[a], "add_parent_rows", task[a].content, parents))
    BY <1>26, <2>1, Held, Updates DEF AddReadParents, Typed, TypeOK
  <2>3. /\ task[a].src \in Sources
        /\ task[a].content \in Contents
        /\ task[a].content \in Contents \cup {None}
        /\ parents \in SUBSET (IndexRow \cup Evidence)
        /\ parents \subseteq IndexRow
    BY <1>26, <1>0, Held DEF AddReadParents, Sound, ContentPlaces, Adding, RowPlaces, Typed, TypeOK
  <2> QED BY <2>1, <2>2, <2>3, Shift
<1>27. ASSUME NEW a \in Actors, AddParents(a) PROVE TasksTyped'
  <2>1. "add_vectors" \in Places /\ "add_vectors" # "persist" /\ "add_vectors" \notin RowPlaces
    BY DEF Places, Clearing, Adding, ContentPlaces, RowPlaces
  <2>2. Becomes(a, With(task[a], "add_vectors", task[a].content, {}))
    BY <1>27, <2>1, Held, Updates DEF AddParents, Typed, TypeOK
  <2>3. /\ task[a].src \in Sources
        /\ task[a].content \in Contents
        /\ task[a].content \in Contents \cup {None}
        /\ {} \in SUBSET (IndexRow \cup Evidence)
    BY <1>27, <1>0, Held DEF AddParents, Sound, ContentPlaces, Adding
  <2> QED BY <2>1, <2>2, <2>3, Shift
<1>28. ASSUME NEW a \in Actors, AddVectors(a) PROVE TasksTyped'
  <2>1. /\ "indexed" \in Places /\ "indexed" # "persist"
        /\ "indexed" \notin ContentPlaces /\ "indexed" \notin RowPlaces
    BY DEF Places, Clearing, Adding, ContentPlaces, RowPlaces
  <2>2. Becomes(a, With(task[a], "indexed", task[a].content, task[a].seen))
    BY <1>28, <2>1, Held, Updates DEF AddVectors, Typed, TypeOK
  <2>3. /\ task[a].src \in Sources
        /\ task[a].kind = "upload" => task[a].content \in Contents
        /\ task[a].content \in Contents \cup {None}
        /\ task[a].seen \in SUBSET (IndexRow \cup Evidence)
    BY <1>28, <1>0, Held DEF AddVectors, Sound, ContentPlaces, Adding
  <2> QED BY <2>1, <2>2, <2>3, Shift
<1>29. ASSUME NEW a \in Actors, Fault(a) PROVE TasksTyped'
  <2>1. PICK p \in {"failed", "cleared", "over"} :
            /\ task' = [task EXCEPT ![a].at = p, ![a].seen = {}]
            /\ p # "over" => task[a].kind \in {"ingest", "watch"}
    BY <1>29 DEF Fault, Failing
  <2>2. /\ p \in Places /\ p # "persist" /\ p \notin RowPlaces /\ p \notin ContentPlaces
        /\ {} \in SUBSET (IndexRow \cup Evidence) /\ task[a].content \in Contents \cup {None}
    BY Held DEF Places, Adding, ContentPlaces, RowPlaces
  <2>3. Becomes(a, With(task[a], p, task[a].content, {}))
    BY <2>1, <2>2, Updates
  <2>4. task[a].src \in Sources /\ (p # "over" => task[a].kind # "upload")
    BY <1>29, <2>1, Held DEF Fault, Sound, Clearing, Adding
  <2> QED BY <2>2, <2>3, <2>4, Shift
<1>30. CASE Ended
  BY <1>30 DEF Ended, vars, Typed, TypeOK, TasksTyped
<1>31. ASSUME NEW r \in Requests, NEW d \in Sources, StartWatch(r, d) PROVE TasksTyped'
  <2>1. Becomes(r, Doing("clear", "watch", d, None, 0, 0))
    BY <1>31 DEF StartWatch, Becomes
  <2>2. "watch" \in Kinds /\ "watch" # "upload" BY DEF Kinds
  <2>3. /\ Doing("clear", "watch", d, None, 0, 0) \in Task
        /\ Sound(Doing("clear", "watch", d, None, 0, 0))
    BY <2>2, Started
  <2> QED BY <1>0, <2>1, <2>3, BecomesTyped
<1>32. ASSUME NEW r \in Requests, WatchCleared(r) PROVE TasksTyped'
  <2>1. /\ "load" \in Places /\ "load" # "persist"
        /\ "load" \notin ContentPlaces /\ "load" \notin RowPlaces
    BY DEF Places, Clearing, Adding, ContentPlaces, RowPlaces
  <2>2. Becomes(r, With(task[r], "load", task[r].content, task[r].seen))
    BY <1>32, <1>0, <2>1, Held, Updates DEF WatchCleared
  <2>3. /\ task[r].src \in Sources /\ task[r].kind # "upload"
        /\ task[r].content \in Contents \cup {None}
        /\ task[r].seen \in SUBSET (IndexRow \cup Evidence)
    BY <1>32, <1>0, Held DEF WatchCleared, Sound
  <2> QED BY <1>0, <2>1, <2>2, <2>3, Shift
<1>33. ASSUME NEW r \in Requests, EndWatch(r) PROVE TasksTyped'
  <2>1. Move(r, "over")
    BY <1>33 DEF EndWatch
  <2> QED BY <1>0, <2>1, Over
<1>34. CASE Crash
  <2> DEFINE t == [NoTask EXCEPT !.at = "over"]
  <2>1. t = Doing("over", "ingest", None, None, 0, 0) BY DEF NoTask, Doing
  <2>2. t \in Task /\ Sound(t)
    BY <2>1 DEF Doing, Task, Sound, Places, Kinds, RowPlaces, ContentPlaces, Adding
  <2> HIDE DEF t
  <2>3. /\ task' \in [Actors -> Task]
        /\ \A a \in Actors : task'[a] \in {task[a], t, NoTask}
    BY <1>34, <2>2, NoTaskTyped, Held DEF Crash, Typed, TypeOK, t
  <2> QED BY <2>2, <2>3, NoTaskTyped, Held DEF TasksTyped
<1> QED
  BY <1>1, <1>2, <1>3, <1>4, <1>5, <1>6, <1>7, <1>8, <1>9, <1>10, <1>11, <1>12, <1>13,
     <1>14, <1>15, <1>16, <1>17, <1>18, <1>19, <1>20, <1>21, <1>22, <1>23, <1>24, <1>25,
     <1>26, <1>27, <1>28, <1>29, <1>30, <1>31, <1>32, <1>33, <1>34
     DEF Next, Request, Begin, Clear, Ingest

\* A record that is changed in its status, or in its hash as well.
LEMMA StatusTyped ==
    ASSUME Typed, NEW d \in Sources, NEW x \in Statuses
    PROVE  /\ Known(d) => [record[d] EXCEPT !.status = x] \in Record
           /\ WithStatus(d, x) \in Record \cup {None}
           /\ \A t \in Task : t.src = d /\ t.content \in Contents
                => WithHash(t, x) \in Record \cup {None}
<1>1. \A m \in Record : [m EXCEPT !.status = x] \in Record
  BY DEF Record
<1>2. \A m \in Record, c \in Contents : [m EXCEPT !.status = x, !.sha = c] \in Record
  BY DEF Record
<1> QED BY <1>1, <1>2, RecordOf DEF WithStatus, WithHash

LEMMA RegisteredTyped ==
    ASSUME Typed, NEW d \in Sources, NEW c \in Contents
    PROVE  Registered(d, c) \in Record
<1>1. lastId \in Nat BY DEF Typed, TypeOK
<1>2. CASE Known(d)
  <2>1. record[d] \in Record BY <1>2, RecordOf
  <2> DEFINE v == NextVersion(record[d], c)
  <2>2. v \in Nat \ {0} BY <2>1, RecordFields DEF NextVersion
  <2> HIDE DEF v
  <2> QED BY <1>2, <2>1, <2>2, RecordFields DEF Registered, Record, Statuses, v
<1>3. CASE ~Known(d)
  BY <1>1, <1>3 DEF Registered, Record, Statuses
<1> QED BY <1>2, <1>3
\* Everything but the tasks.
StoresTyped ==
    /\ file \in [Sources -> Contents \cup {None}]
    /\ record \in [Sources -> Record \cup {None}]
    /\ corpus \subseteq IndexRow /\ parents \subseteq IndexRow /\ vectors \subseteq IndexRow
    /\ evidence \subseteq Evidence
    /\ queue \in Seq(Sources \X Nat \X (Nat \ {0}))
    /\ lastId \in Nat
    /\ watched \subseteq Sources
    /\ faults \in 0..MaxFaults
    /\ disturbed \in BOOLEAN /\ fresh \subseteq Sources /\ lost \subseteq Sources

LEMMA TypedParts == Typed <=> StoresTyped /\ TasksTyped
BY DEF Typed, TypeOK, StoresTyped, TasksTyped

LEMMA BeginsTyped ==
    ASSUME StoresTyped, NEW r \in Requests, NEW d \in Sources, Begins(r, d)
    PROVE  disturbed' \in BOOLEAN /\ fresh' \subseteq Sources /\ lost' \subseteq Sources
BY DEF StoresTyped, Begins

LEMMA RecordTyped ==
    ASSUME StoresTyped, NEW d \in Sources, NEW m \in Record \cup {None},
           record' = [record EXCEPT ![d] = m]
    PROVE  record' \in [Sources -> Record \cup {None}]
BY DEF StoresTyped

\* The row an ingesting task writes.
LEMMA RowTyped ==
    ASSUME NEW t \in Task, Sound(t), t.at \in Adding \ {"load"}
    PROVE  Row(t) \in IndexRow
BY TaskFields DEF Row, IndexRow, Sound, Adding, ContentPlaces

\* A row that a kill leaves was there, or some task was about to write it.
LEMMA TornRows ==
    ASSUME Crash
    PROVE  \A x \in corpus' \cup parents' :
               \/ x \in corpus \cup parents
               \/ \E a \in Actors : task[a].at \in RowPlaces /\ x \in task[a].seen
               \/ \E a \in Actors :
                     task[a].at \in {"add_corpus", "add_parent_rows"} /\ x = Row(task[a])
BY DEF Crash, Torn, CorpusWrites, ParentWrites, Matching, RowPlaces

LEMMA TornTyped ==
    ASSUME Typed, Crash
    PROVE  corpus' \subseteq IndexRow /\ parents' \subseteq IndexRow
<1>1. \A a \in Actors : task[a].at \in RowPlaces => task[a].seen \subseteq IndexRow
  BY Held DEF Sound
<1>2. \A a \in Actors : task[a].at \in {"add_corpus", "add_parent_rows"} => Row(task[a]) \in IndexRow
  BY Held, RowTyped DEF Adding
<1>3. corpus \cup parents \subseteq IndexRow BY DEF Typed, TypeOK
<1> QED BY <1>1, <1>2, <1>3, TornRows

LEMMA InFlightTyped ==
    ASSUME Typed
    PROVE  InFlight \subseteq Sources
<1>1. \A a \in Actors : Running(a) => task[a].src \in Sources
  BY Held DEF Running, Sound
<1>2. queue \in Seq(Sources \X Nat \X (Nat \ {0})) BY DEF Typed, TypeOK
<1>3. \A i \in DOMAIN queue : queue[i] \in Sources \X Nat \X (Nat \ {0}) BY <1>2
<1>4. \A i \in DOMAIN queue : queue[i][1] \in Sources BY <1>3
<1> QED BY <1>1, <1>4 DEF InFlight

LEMMA StoresStep ==
    ASSUME Typed, Next
    PROVE  StoresTyped'
<1>0. StoresTyped /\ Requests \subseteq Actors /\ Workers \subseteq Actors
  BY TypedParts DEF Actors
<1>1. ASSUME NEW r \in Requests, NEW d \in Sources, NEW c \in Contents,
             StartUpload(r, d, c)
      PROVE  StoresTyped'
  BY <1>1, <1>0, BeginsTyped DEF StartUpload, StoresTyped, stores
<1>2. ASSUME NEW r \in Requests, NEW c \in Contents, ReuseUpload(r, c) PROVE StoresTyped'
  BY <1>2, <1>0 DEF ReuseUpload, StoresTyped, stores, history
<1>3. ASSUME NEW r \in Requests, ReplaceFile(r) PROVE StoresTyped'
  <2>1. task[r].src \in Sources /\ task[r].content \in Contents
    BY <1>3, <1>0, Held DEF ReplaceFile, Sound, ContentPlaces
  <2> QED BY <1>3, <1>0, <2>1 DEF ReplaceFile, StoresTyped, stores, history
<1>4. ASSUME NEW r \in Requests, Register(r) PROVE StoresTyped'
  <2> DEFINE d == task[r].src
             new == Registered(d, task[r].content)
  <2>1. d \in Sources /\ task[r].content \in Contents
    BY <1>4, <1>0, Held DEF Register, Sound
  <2>2. new \in Record
    BY <2>1, RegisteredTyped
  <2>3. <<d, new.id, new.version>> \in Sources \X Nat \X (Nat \ {0})
    BY <2>1, <2>2, RecordFields
  <2>4. /\ record' = [record EXCEPT ![d] = new]
        /\ queue' = Append(queue, <<d, new.id, new.version>>)
        /\ lastId' \in {lastId, lastId + 1}
        /\ lost' \subseteq lost
        /\ UNCHANGED <<file, corpus, parents, vectors, evidence, watched, faults, disturbed, fresh>>
    BY <1>4 DEF Register, stores, history
  <2>5. record' \in [Sources -> Record \cup {None}]
    BY <1>0, <2>1, <2>2, <2>4, RecordTyped
  <2> HIDE DEF new
  <2>6. queue' \in Seq(Sources \X Nat \X (Nat \ {0}))
    BY <1>0, <2>3, <2>4 DEF StoresTyped
  <2> QED BY <1>0, <2>4, <2>5, <2>6 DEF StoresTyped
<1>5. ASSUME NEW r \in Requests, NEW d \in Sources, StartDelete(r, d) PROVE StoresTyped'
  BY <1>5, <1>0, BeginsTyped DEF StartDelete, StoresTyped, stores
<1>6. ASSUME NEW r \in Requests, KeepFile(r) PROVE StoresTyped'
  <2>1. task[r].src \in Sources
    BY <1>6, <1>0, Held DEF KeepFile, Sound
  <2>2. WithStatus(task[r].src, "pending") \in Record \cup {None}
    BY <2>1, StatusTyped DEF Statuses
  <2>3. record' = [record EXCEPT ![task[r].src] = WithStatus(task[r].src, "pending")]
    BY <1>6 DEF KeepFile
  <2>4. record' \in [Sources -> Record \cup {None}]
    BY <1>0, <2>1, <2>2, <2>3, RecordTyped
  <2> QED BY <1>6, <1>0, <2>4 DEF KeepFile, StoresTyped, stores, history
<1>7. ASSUME NEW r \in Requests, RemoveFile(r) PROVE StoresTyped'
  BY <1>7, <1>0 DEF RemoveFile, StoresTyped, stores, history
<1>8. ASSUME NEW r \in Requests, Forget(r) PROVE StoresTyped'
  <2>1. task[r].src \in Sources
    BY <1>8, <1>0, Held DEF Forget, Sound
  <2>2. None \in Record \cup {None}
    BY <2>1, StatusTyped DEF Statuses
  <2>3. record' = [record EXCEPT ![task[r].src] = None]
    BY <1>8 DEF Forget
  <2>4. record' \in [Sources -> Record \cup {None}]
    BY <1>0, <2>1, <2>2, <2>3, RecordTyped
  <2> QED BY <1>8, <1>0, <2>4 DEF Forget, StoresTyped, stores, history
<1>9. ASSUME NEW r \in Requests, NEW d \in Sources, StartReindex(r, d) PROVE StoresTyped'
  <2>1. disturbed' \in BOOLEAN /\ fresh' \subseteq Sources /\ lost' \subseteq Sources
    BY <1>9, <1>0, BeginsTyped DEF StartReindex, StoresTyped, history
  <2> QED BY <1>9, <1>0, <2>1 DEF StartReindex, StoresTyped, stores
<1>10. ASSUME NEW r \in Requests, HashFile(r) PROVE StoresTyped'
  BY <1>10, <1>0 DEF HashFile, StoresTyped, stores, history
<1>11. ASSUME NEW r \in Requests, MarkReindexing(r) PROVE StoresTyped'
  <2>1. task[r].src \in Sources
    BY <1>11, <1>0, Held DEF MarkReindexing, Sound
  <2>2. WithHash(task[r], "indexing") \in Record \cup {None}
    BY <1>11, <1>0, <2>1, Held, StatusTyped DEF MarkReindexing, Sound, Statuses, ContentPlaces
  <2>3. record' = [record EXCEPT ![task[r].src] = WithHash(task[r], "indexing")]
    BY <1>11 DEF MarkReindexing
  <2>4. record' \in [Sources -> Record \cup {None}]
    BY <1>0, <2>1, <2>2, <2>3, RecordTyped
  <2> QED BY <1>11, <1>0, <2>4 DEF MarkReindexing, StoresTyped, stores, history
<1>12. ASSUME NEW r \in Requests, Reload(r) PROVE StoresTyped'
  BY <1>12, <1>0 DEF Reload, StoresTyped, stores, history
<1>13. ASSUME NEW r \in Requests, EndReindex(r) PROVE StoresTyped'
  <2>1. task[r].src \in Sources
    BY <1>13, <1>0, Held DEF EndReindex, Sound
  <2>2. WithHash(task[r], "ready") \in Record \cup {None}
    BY <1>13, <1>0, <2>1, Held, StatusTyped DEF EndReindex, Sound, Statuses, ContentPlaces
  <2>3. record' = [record EXCEPT ![task[r].src] = WithHash(task[r], "ready")]
    BY <1>13 DEF EndReindex
  <2>4. record' \in [Sources -> Record \cup {None}]
    BY <1>0, <2>1, <2>2, <2>3, RecordTyped
  <2> QED BY <1>13, <1>0, <2>4 DEF EndReindex, StoresTyped, stores, history
<1>14. ASSUME NEW w \in Workers, TakeJob(w) PROVE StoresTyped'
  <2> DEFINE d == Head(queue)[1]
  <2>1. d \in Sources /\ queue' \in Seq(Sources \X Nat \X (Nat \ {0}))
    BY <1>14, Queued DEF TakeJob
  <2>2. record' \in [Sources -> Record \cup {None}]
    <3>1. CASE HasRecord(d, Head(queue)[2])
      <4>1. [record[d] EXCEPT !.status = "indexing"] \in Record
        BY <2>1, <3>1, StatusTyped DEF HasRecord, Statuses
      <4>2. record' = [record EXCEPT ![d] = [record[d] EXCEPT !.status = "indexing"]]
        BY <1>14, <2>1, <3>1, <1>0 DEF TakeJob, StoresTyped
      <4> QED BY <1>0, <2>1, <4>1, <4>2, RecordTyped
    <3>2. CASE ~HasRecord(d, Head(queue)[2])
      BY <1>14, <1>0, <3>2 DEF TakeJob, StoresTyped
    <3> QED BY <3>1, <3>2
  <2> QED BY <1>14, <1>0, <2>1, <2>2 DEF TakeJob, StoresTyped, stores, history
<1>15. ASSUME NEW w \in Workers, EndJob(w) PROVE StoresTyped'
  <2> DEFINE d == task[w].src
             x == JobStatus(task[w])
  <2>1. d \in Sources /\ x \in Statuses
    BY <1>15, <1>0, Held DEF EndJob, Sound, JobStatus, Statuses
  <2>2. record' \in [Sources -> Record \cup {None}]
    <3>1. CASE HasRecord(d, task[w].id)
      <4>1. [record[d] EXCEPT !.status = x] \in Record
        BY <2>1, <3>1, StatusTyped DEF HasRecord
      <4>2. record' = [record EXCEPT ![d] = [record[d] EXCEPT !.status = x]]
        BY <1>15, <2>1, <3>1, <1>0 DEF EndJob, StoresTyped
      <4> QED BY <1>0, <2>1, <4>1, <4>2, RecordTyped
    <3>2. CASE ~HasRecord(d, task[w].id)
      BY <1>15, <1>0, <3>2 DEF EndJob, StoresTyped
    <3> QED BY <3>1, <3>2
  <2> QED BY <1>15, <1>0, <2>2 DEF EndJob, StoresTyped, stores, history
<1>16. ASSUME NEW a \in Actors, ClearReadCorpus(a) PROVE StoresTyped'
  BY <1>16, <1>0 DEF ClearReadCorpus, StoresTyped, stores, history
<1>17. ASSUME NEW a \in Actors, ClearVectors(a) PROVE StoresTyped'
  BY <1>17, <1>0 DEF ClearVectors, StoresTyped, stores, history
<1>18. ASSUME NEW a \in Actors, ClearCorpus(a) PROVE StoresTyped'
  <2>1. task[a].seen \subseteq IndexRow
    BY <1>18, Held DEF ClearCorpus, Sound, RowPlaces
  <2> QED BY <1>18, <1>0, <2>1 DEF ClearCorpus, StoresTyped, stores, history
<1>19. ASSUME NEW a \in Actors, ClearReadParents(a) PROVE StoresTyped'
  BY <1>19, <1>0 DEF ClearReadParents, StoresTyped, stores, history
<1>20. ASSUME NEW a \in Actors, ClearParents(a) PROVE StoresTyped'
  <2>1. task[a].seen \subseteq IndexRow
    BY <1>20, Held DEF ClearParents, Sound, RowPlaces
  <2> QED BY <1>20, <1>0, <2>1 DEF ClearParents, StoresTyped, stores, history
<1>21. ASSUME NEW a \in Actors, Load(a) PROVE StoresTyped'
  BY <1>21, <1>0 DEF Load, StoresTyped, stores, history
<1>22. ASSUME NEW a \in Actors, CheckEvidence(a) PROVE StoresTyped'
  BY <1>22, <1>0 DEF CheckEvidence, StoresTyped, stores, history
<1>23. ASSUME NEW a \in Actors, Persist(a) PROVE StoresTyped'
  <2>1. task[a].seen \subseteq Evidence
    BY <1>23, Held DEF Persist, Sound
  <2> QED BY <1>23, <1>0, <2>1 DEF Persist, StoresTyped, stores, history
<1>24. ASSUME NEW a \in Actors, AddReadCorpus(a) PROVE StoresTyped'
  BY <1>24, <1>0 DEF AddReadCorpus, StoresTyped, stores, history
<1>25. ASSUME NEW a \in Actors, AddCorpus(a) PROVE StoresTyped'
  <2>1. task[a].seen \subseteq IndexRow
    BY <1>25, Held DEF AddCorpus, Sound, RowPlaces
  <2>2. Row(task[a]) \in IndexRow
    BY <1>25, Held, RowTyped DEF AddCorpus, Adding
  <2> QED BY <1>25, <1>0, <2>1, <2>2 DEF AddCorpus, StoresTyped, stores, history
<1>26. ASSUME NEW a \in Actors, AddReadParents(a) PROVE StoresTyped'
  BY <1>26, <1>0 DEF AddReadParents, StoresTyped, stores, history
<1>27. ASSUME NEW a \in Actors, AddParents(a) PROVE StoresTyped'
  <2>1. task[a].seen \subseteq IndexRow
    BY <1>27, Held DEF AddParents, Sound, RowPlaces
  <2>2. Row(task[a]) \in IndexRow
    BY <1>27, Held, RowTyped DEF AddParents, Adding
  <2> QED BY <1>27, <1>0, <2>1, <2>2 DEF AddParents, StoresTyped, stores, history
<1>28. ASSUME NEW a \in Actors, AddVectors(a) PROVE StoresTyped'
  <2>1. Row(task[a]) \in IndexRow
    BY <1>28, Held, RowTyped DEF AddVectors, Adding
  <2> QED BY <1>28, <1>0, <2>1 DEF AddVectors, StoresTyped, stores, history
<1>29. ASSUME NEW a \in Actors, Fault(a) PROVE StoresTyped'
  BY <1>29, <1>0, DocumentsAssumption DEF Fault, StoresTyped, stores
<1>30. CASE Ended
  BY <1>30, <1>0 DEF Ended, vars, StoresTyped, stores, history
<1>31. ASSUME NEW r \in Requests, NEW d \in Sources, StartWatch(r, d) PROVE StoresTyped'
  BY <1>31, <1>0 DEF StartWatch, StoresTyped, stores
<1>32. ASSUME NEW r \in Requests, WatchCleared(r) PROVE StoresTyped'
  BY <1>32, <1>0 DEF WatchCleared, StoresTyped, stores, history
<1>33. ASSUME NEW r \in Requests, EndWatch(r) PROVE StoresTyped'
  BY <1>33, <1>0 DEF EndWatch, StoresTyped, stores, history
<1>34. CASE Crash
  <2>1. corpus' \subseteq IndexRow /\ parents' \subseteq IndexRow
    BY <1>34, <1>0, TornTyped DEF Crash, StoresTyped
  <2>2. InFlight \subseteq Sources
    BY InFlightTyped
  <2>3. faults' \in 0..MaxFaults /\ disturbed' \in BOOLEAN
    BY <1>34, <1>0, DocumentsAssumption DEF Crash, StoresTyped
  <2>4. fresh' \subseteq Sources /\ lost' \subseteq Sources /\ watched' \subseteq Sources
    BY <1>34, <1>0, <2>2 DEF Crash, StoresTyped
  <2>5. /\ queue' \in Seq(Sources \X Nat \X (Nat \ {0}))
        /\ UNCHANGED <<file, record, vectors, evidence, lastId>>
    BY <1>34 DEF Crash
  <2> QED BY <1>0, <2>1, <2>3, <2>4, <2>5 DEF StoresTyped
<1> QED
  BY <1>1, <1>2, <1>3, <1>4, <1>5, <1>6, <1>7, <1>8, <1>9, <1>10, <1>11, <1>12,
       <1>13, <1>14, <1>15, <1>16, <1>17, <1>18, <1>19, <1>20, <1>21, <1>22, <1>23,
       <1>24, <1>25, <1>26, <1>27, <1>28, <1>29, <1>30, <1>31, <1>32, <1>33, <1>34
     DEF Next, Request, Begin, Clear, Ingest

LEMMA InitTyped == Init => Typed
<1> SUFFICES ASSUME Init PROVE Typed OBVIOUS
<1>1. TasksTyped BY NoTaskTyped DEF Init, TasksTyped
<1>2. 0 \in 0..MaxFaults BY DocumentsAssumption
<1>3. << >> \in Seq(Sources \X Nat \X (Nat \ 0)) OBVIOUS
<1>4. file \in [Sources -> Contents \cup {None}] /\ record \in [Sources -> Record \cup {None}]
  BY DEF Init
<1>5. /\ faults \in 0..MaxFaults /\ lastId \in Nat /\ disturbed \in BOOLEAN
      /\ fresh \subseteq Sources /\ lost \subseteq Sources /\ watched \subseteq Sources
  BY <1>2 DEF Init
<1>6. queue \in Seq(Sources \X Nat \X (Nat \ {0}))
  BY <1>3 DEF Init
<1>7. StoresTyped BY <1>4, <1>5, <1>6 DEF Init, StoresTyped
<1> QED BY <1>1, <1>7, TypedParts

LEMMA TypedStep == Typed /\ [Next]_vars => Typed'
<1> SUFFICES ASSUME Typed, [Next]_vars PROVE Typed' OBVIOUS
<1>1. CASE Next BY <1>1, TasksStep, StoresStep, TypedParts DEF StoresTyped, TasksTyped, Typed, TypeOK
<1>2. CASE UNCHANGED vars
  BY <1>2 DEF vars, stores, history, Typed, TypeOK
<1> QED BY <1>1, <1>2

\* Every reachable state is of the right type.
THEOREM TypeCorrect == Spec => []TypeOK
<1>1. Typed => TypeOK BY DEF Typed
<1> QED BY <1>1, InitTyped, TypedStep, PTL DEF Spec
-----------------------------------------------------------------------------
(* Evidence before rows.                                                   *)

Backed(id, version, c, store) == \E e \in store : SameDocument(e, id, version, c)

AllBacked(rows, store) == \A row \in rows : Backed(row.id, row.version, row.content, store)

\* Where a task's own document version has its artifacts.
AddPlaces == {"add", "add_corpus", "add_parents", "add_parent_rows", "add_vectors"}

BackedPlaces == RowPlaces \cup AddPlaces \cup {"persist"}

Backs(t, store) ==
    /\ t.at \in RowPlaces => AllBacked(t.seen, store)
    /\ t.at \in AddPlaces => Backed(t.id, t.version, t.content, store)
    /\ t.at = "persist" => Backed(t.id, t.version, t.content, t.seen)

\* EvidenceFirst with what the tasks hold: the rows a task is about to write
\* back are backed, and so is the row it is about to add.
BackedInv ==
    /\ AllBacked(corpus, evidence) /\ AllBacked(parents, evidence) /\ AllBacked(vectors, evidence)
    /\ \A a \in Actors : Backs(task[a], evidence)

\* Artifacts are replaced, never dropped.
Keeps(old, new) == \A e \in old : Backed(e.id, e.version, e.parsed, new)

LEMMA KeepsBacked ==
    ASSUME NEW old, NEW new, Keeps(old, new)
    PROVE  /\ \A id, version, c : Backed(id, version, c, old) => Backed(id, version, c, new)
           /\ \A rows : AllBacked(rows, old) => AllBacked(rows, new)
           /\ \A t : Backs(t, old) => Backs(t, new)
<1>1. \A id, version, c : Backed(id, version, c, old) => Backed(id, version, c, new)
  BY DEF Keeps, Backed, SameDocument
<1>2. \A rows : AllBacked(rows, old) => AllBacked(rows, new)
  BY <1>1 DEF AllBacked
<1> QED BY <1>1, <1>2 DEF Backs

\* Only actor a's task changes.
Alone(a) == \A b \in Actors \ {a} : task'[b] = task[b]

\* Actor a's task goes to p with rows s in hand, for the same document.
Goes(a, p, s) ==
    /\ Alone(a)
    /\ task'[a].at = p /\ task'[a].seen = s
    /\ task'[a].id = task[a].id /\ task'[a].version = task[a].version

\* The same, with the content it has parsed.
GoesOn(a, p, s) == Goes(a, p, s) /\ task'[a].content = task[a].content

LEMMA Going ==
    ASSUME Typed, NEW a \in Actors, NEW p \in Places, NEW c \in Contents \cup {None},
           NEW s \in SUBSET (IndexRow \cup Evidence)
    PROVE  /\ Move(a, p) => GoesOn(a, p, task[a].seen)
           /\ task' = [task EXCEPT ![a].at = p, ![a].seen = s] => GoesOn(a, p, s)
           /\ task' = [task EXCEPT ![a].at = p, ![a].content = c] => Goes(a, p, task[a].seen)
<1>1. \A d \in Contents \cup {None}, z \in SUBSET (IndexRow \cup Evidence) :
         Becomes(a, With(task[a], p, d, z)) => Goes(a, p, z) /\ task'[a].content = d
  <2> SUFFICES ASSUME NEW d \in Contents \cup {None}, NEW z \in SUBSET (IndexRow \cup Evidence),
                      Becomes(a, With(task[a], p, d, z))
               PROVE  Goes(a, p, z) /\ task'[a].content = d
    OBVIOUS
  <2> DEFINE u == With(task[a], p, d, z)
  <2>1. u.at = p /\ u.content = d /\ u.seen = z /\ u.id = task[a].id /\ u.version = task[a].version
    BY Held, WithFields
  <2>2. task' = [task EXCEPT ![a] = u] /\ task \in [Actors -> Task]
    BY Held DEF Becomes
  <2> HIDE DEF u
  <2> QED BY <2>1, <2>2 DEF Goes, Alone
<1>2. /\ Move(a, p) => Becomes(a, With(task[a], p, task[a].content, task[a].seen))
      /\ task' = [task EXCEPT ![a].at = p, ![a].seen = s] => Becomes(a, With(task[a], p, task[a].content, s))
      /\ task' = [task EXCEPT ![a].at = p, ![a].content = c] => Becomes(a, With(task[a], p, c, task[a].seen))
  BY Held, Updates
<1>3. task[a].content \in Contents \cup {None} /\ task[a].seen \in SUBSET (IndexRow \cup Evidence)
  BY Held
<1> QED BY <1>1, <1>2, <1>3 DEF GoesOn

\* A step of actor a that drops no artifact, leaves the stores backed and a
\* with a task that is.
LEMMA BackedBy ==
    ASSUME BackedInv, NEW a \in Actors, Alone(a), Keeps(evidence, evidence'),
           AllBacked(corpus', evidence'), AllBacked(parents', evidence'),
           AllBacked(vectors', evidence'), Backs(task'[a], evidence')
    PROVE  BackedInv'
<1>1. \A b \in Actors : Backs(task'[b], evidence')
  BY KeepsBacked DEF BackedInv, Alone
<1> QED BY <1>1 DEF BackedInv

LEMMA Unchanging ==
    ASSUME BackedInv, UNCHANGED <<stores, evidence>>
    PROVE  /\ Keeps(evidence, evidence') /\ AllBacked(corpus', evidence')
           /\ AllBacked(parents', evidence') /\ AllBacked(vectors', evidence')
BY DEF BackedInv, Keeps, Backed, SameDocument, stores

\* The steps of actor a that touch neither rows nor artifacts, and leave a
\* where it holds none.
LEMMA Elsewhere ==
    ASSUME BackedInv, NEW a \in Actors, Alone(a), UNCHANGED <<stores, evidence>>,
           task'[a].at \notin BackedPlaces
    PROVE  BackedInv'
<1>1. Backs(task'[a], evidence') BY DEF Backs, BackedPlaces
<1> QED BY <1>1, BackedBy, Unchanging
\* The steps that leave a request's task with what it had in hand.
Passes(r) ==
    \/ \E c \in Contents : ReuseUpload(r, c)
    \/ ReplaceFile(r) \/ Register(r) \/ KeepFile(r) \/ RemoveFile(r) \/ Forget(r)
    \/ MarkReindexing(r) \/ Reload(r) \/ EndReindex(r) \/ HashFile(r)
    \/ WatchCleared(r) \/ EndWatch(r)
    \/ \E d \in Sources : StartReindex(r, d) /\ Move(r, "over")

LEMMA RequestGoes ==
    ASSUME Typed, NEW r \in Requests, Passes(r)
    PROVE  \E p \in Places \ BackedPlaces : Goes(r, p, task[r].seen)
<1>0. r \in Actors BY DEF Actors
<1>1. ASSUME NEW p \in {"clear", "over", "forget", "forget_again", "load"}, Move(r, p)
      PROVE  p \in Places \ BackedPlaces /\ Goes(r, p, task[r].seen)
  <2>1. p \in Places /\ p \notin BackedPlaces
    BY DEF Places, Clearing, Adding, BackedPlaces, RowPlaces, AddPlaces
  <2> QED BY <1>0, <1>1, <2>1, Held, Going DEF GoesOn
<1>2. CASE ~HashFile(r)
  <2>1. PICK p \in {"clear", "over", "forget", "forget_again", "load"} : Move(r, p)
    BY <1>2 DEF Passes, ReuseUpload, ReplaceFile, Register, KeepFile, RemoveFile, Forget,
                MarkReindexing, Reload, EndReindex, WatchCleared, EndWatch
  <2> QED BY <1>1, <2>1
<1>3. CASE HashFile(r)
  <2> DEFINE c == file[task[r].src]
  <2>1. c \in Contents \cup {None}
    BY <1>0, <1>3, Held DEF HashFile, Sound, Typed, TypeOK
  <2>2. PICK p \in {"over", "mark", "settle"} : task' = [task EXCEPT ![r].at = p, ![r].content = c]
    BY <1>3 DEF HashFile
  <2>3. p \in Places /\ p \notin BackedPlaces
    BY DEF Places, BackedPlaces, RowPlaces, AddPlaces
  <2>4. Goes(r, p, task[r].seen)
    BY <1>0, <2>1, <2>2, <2>3, Held, Going
  <2> QED BY <2>3, <2>4
<1> QED BY <1>2, <1>3

LEMMA ActorGoes ==
    ASSUME Typed, NEW a \in Actors
    PROVE  /\ ClearReadCorpus(a) => GoesOn(a, "clear_vectors", corpus)
           /\ ClearVectors(a) => GoesOn(a, "clear_corpus", task[a].seen)
           /\ ClearCorpus(a) => GoesOn(a, "clear_parents", task[a].seen)
           /\ ClearReadParents(a) => GoesOn(a, "clear_parent_rows", parents)
           /\ ClearParents(a) => GoesOn(a, "cleared", {})
           /\ AddReadCorpus(a) => GoesOn(a, "add_corpus", corpus)
           /\ AddCorpus(a) => GoesOn(a, "add_parents", task[a].seen)
           /\ AddReadParents(a) => GoesOn(a, "add_parent_rows", parents)
           /\ AddParents(a) => GoesOn(a, "add_vectors", {})
           /\ AddVectors(a) => GoesOn(a, "indexed", task[a].seen)
<1>1. \A p \in {"clear_corpus", "clear_parents", "add_parents", "indexed"} :
         Move(a, p) => GoesOn(a, p, task[a].seen)
  BY Held, Going DEF Places, Clearing, Adding
<1>2. \A p \in {"clear_vectors", "clear_parent_rows", "cleared", "add_corpus", "add_parent_rows",
               "add_vectors"}, z \in {corpus, parents, {}} :
         task' = [task EXCEPT ![a].at = p, ![a].seen = z] => GoesOn(a, p, z)
  <2>1. \A z \in {corpus, parents, {}} : z \in SUBSET (IndexRow \cup Evidence)
    BY DEF Typed, TypeOK
  <2> QED BY <2>1, Held, Going DEF Places, Clearing, Adding
<1>3. /\ ClearVectors(a) => GoesOn(a, "clear_corpus", task[a].seen)
      /\ ClearCorpus(a) => GoesOn(a, "clear_parents", task[a].seen)
      /\ AddCorpus(a) => GoesOn(a, "add_parents", task[a].seen)
      /\ AddVectors(a) => GoesOn(a, "indexed", task[a].seen)
  BY <1>1 DEF ClearVectors, ClearCorpus, AddCorpus, AddVectors
<1>4. /\ ClearReadCorpus(a) => GoesOn(a, "clear_vectors", corpus)
      /\ ClearReadParents(a) => GoesOn(a, "clear_parent_rows", parents)
      /\ ClearParents(a) => GoesOn(a, "cleared", {})
  BY <1>2 DEF ClearReadCorpus, ClearReadParents, ClearParents
<1>5. /\ AddReadCorpus(a) => GoesOn(a, "add_corpus", corpus)
      /\ AddReadParents(a) => GoesOn(a, "add_parent_rows", parents)
      /\ AddParents(a) => GoesOn(a, "add_vectors", {})
  BY <1>2 DEF AddReadCorpus, AddReadParents, AddParents
<1> QED BY <1>3, <1>4, <1>5

\* A task that loads its file, or whose step raises, goes where neither rows nor
\* artifacts are at stake.
LEMMA LoadGoes ==
    ASSUME Typed, NEW a \in Actors, Load(a)
    PROVE  \E p \in Places \ BackedPlaces : Goes(a, p, task[a].seen)
<1> DEFINE c == file[task[a].src]
<1>1. c \in Contents \cup {None}
  BY Held DEF Load, Sound, Typed, TypeOK
<1>2. PICK p \in {"failed", "over", "check"} : task' = [task EXCEPT ![a].at = p, ![a].content = c]
  BY DEF Load, Failing, Clearing
<1>3. p \in Places /\ p \notin BackedPlaces
  BY DEF Places, Adding, BackedPlaces, RowPlaces, AddPlaces
<1>4. Goes(a, p, task[a].seen)
  BY <1>1, <1>2, <1>3, Held, Going
<1> QED BY <1>3, <1>4

LEMMA FaultGoes ==
    ASSUME Typed, NEW a \in Actors, Fault(a)
    PROVE  \E p \in Places \ BackedPlaces : Goes(a, p, {})
<1>1. PICK p \in {"failed", "cleared", "over"} : task' = [task EXCEPT ![a].at = p, ![a].seen = {}]
  BY DEF Fault, Failing
<1>2. p \in Places /\ p \notin BackedPlaces
  BY DEF Places, BackedPlaces, RowPlaces, AddPlaces
<1> QED BY <1>1, <1>2, Held, Going DEF GoesOn

LEMMA CheckGoes ==
    ASSUME Typed, NEW a \in Actors, CheckEvidence(a)
    PROVE  \E p \in Places, z \in SUBSET Evidence :
               /\ GoesOn(a, p, z) /\ p \notin RowPlaces
               /\ p \in AddPlaces => Backed(task[a].id, task[a].version, task[a].content, evidence)
               /\ p = "persist" => Backed(task[a].id, task[a].version, task[a].content, z)
               /\ \A e \in z : e.id = task[a].id /\ e.version = task[a].version
<1> DEFINE t == task[a]
           new == Artifacts(t, file[t.src])
<1>1. PICK p \in {"persist", "indexed", "add", "failed", "over"}, z \in {{new}, {}} :
          /\ task' = [task EXCEPT ![a].at = p, ![a].seen = z]
          /\ p = "persist" => z = {new} /\ new.original # None
          /\ p # "persist" => z = {}
          /\ p = "add" => Kept(t) # {}
  BY DEF CheckEvidence, Failing, Clearing
<1>2. z \in SUBSET Evidence
  <2>1. t.src \in Sources /\ t.content \in Contents /\ new.original \in Contents \cup {None}
    BY Held DEF CheckEvidence, Sound, ContentPlaces, Adding, Typed, TypeOK, Artifacts
  <2>2. new.original # None => new \in Evidence
    BY <2>1, Held DEF Artifacts, Evidence
  <2> HIDE DEF new
  <2> QED BY <1>1, <2>2
<1>3. GoesOn(a, p, z)
  BY <1>1, <1>2, Held, Going DEF Places, Adding
<1>4. new.id = t.id /\ new.version = t.version /\ new.parsed = t.content
  BY DEF Artifacts
<1> HIDE DEF new
<1>5. (p = "persist" => Backed(t.id, t.version, t.content, z)) /\ \A e \in z : e.id = t.id /\ e.version = t.version
  BY <1>1, <1>4 DEF Backed, SameDocument
<1>6. p = "add" => Backed(t.id, t.version, t.content, evidence)
  BY <1>1 DEF Backed, Kept
<1>7. p \in Places /\ p \notin RowPlaces /\ (p \in AddPlaces => p = "add")
  BY <1>1 DEF Places, Adding, RowPlaces, AddPlaces
<1> QED BY <1>2, <1>3, <1>5, <1>6, <1>7

LEMMA PersistGoes ==
    ASSUME Typed, NEW a \in Actors, Persist(a)
    PROVE  \E p \in Places : GoesOn(a, p, {}) /\ p \notin RowPlaces /\ p # "persist"
<1>1. PICK p \in {"indexed", "add"} : task' = [task EXCEPT ![a].at = p, ![a].seen = {}]
  BY DEF Persist
<1>2. p \in Places /\ p \notin RowPlaces /\ p # "persist"
  BY DEF Places, Adding, RowPlaces
<1> QED BY <1>1, <1>2, Held, Going

\* A task that starts or ends: for no document, for the record of a source or
\* for the head of the queue.
Begun(a, id, version) ==
    /\ Alone(a) /\ task'[a].at \notin BackedPlaces /\ task'[a].seen = {}
    /\ task'[a].id = id /\ task'[a].version = version

LEMMA TasksBegin ==
    ASSUME Typed
    PROVE  /\ \A r \in Requests, d \in Sources, c \in Contents : StartUpload(r, d, c) => Begun(r, 0, 0)
           /\ \A r \in Requests, d \in Sources :
                 StartDelete(r, d) => Begun(r, record[d].id, record[d].version)
           /\ \A r \in Requests, d \in Sources :
                 StartReindex(r, d) => \/ Move(r, "over")
                                      \/ Begun(r, record[d].id, record[d].version)
           /\ \A w \in Workers : TakeJob(w) => \/ UNCHANGED task
                                            \/ Begun(w, Head(queue)[2], Head(queue)[3])
           /\ \A w \in Workers : EndJob(w) => Begun(w, 0, 0)
           /\ \A r \in Requests, d \in Sources : StartWatch(r, d) => Begun(r, 0, 0)
<1>0. Requests \subseteq Actors /\ Workers \subseteq Actors /\ task \in [Actors -> Task]
  BY DEF Actors, Typed, TypeOK
<1>1. ASSUME NEW a \in Actors, NEW p \in {"store", "clear", "hash", "load", "idle"}, NEW k, NEW d, NEW c,
             NEW id, NEW version, task' = [task EXCEPT ![a] = Doing(p, k, d, c, id, version)]
      PROVE  Begun(a, id, version)
  <2>1. p \notin BackedPlaces BY DEF BackedPlaces, RowPlaces, AddPlaces
  <2>2. Alone(a) BY <1>0, <1>1 DEF Alone
  <2> QED BY <1>0, <1>1, <2>1, <2>2 DEF Begun, Doing
<1>2. ASSUME NEW r \in Requests, NEW d \in Sources, NEW c \in Contents, StartUpload(r, d, c)
      PROVE  Begun(r, 0, 0)
  BY <1>0, <1>1, <1>2 DEF StartUpload
<1>3. ASSUME NEW r \in Requests, NEW d \in Sources, StartDelete(r, d)
      PROVE  Begun(r, record[d].id, record[d].version)
  BY <1>0, <1>1, <1>3 DEF StartDelete, For
<1>4. ASSUME NEW r \in Requests, NEW d \in Sources, StartReindex(r, d)
      PROVE  Move(r, "over") \/ Begun(r, record[d].id, record[d].version)
  BY <1>0, <1>1, <1>4 DEF StartReindex, For
<1>5. ASSUME NEW w \in Workers, TakeJob(w)
      PROVE  UNCHANGED task \/ Begun(w, Head(queue)[2], Head(queue)[3])
  BY <1>0, <1>1, <1>5 DEF TakeJob
<1>6. ASSUME NEW w \in Workers, EndJob(w) PROVE Begun(w, 0, 0)
  BY <1>0, <1>1, <1>6 DEF EndJob, NoTask
<1>7. ASSUME NEW r \in Requests, NEW d \in Sources, StartWatch(r, d) PROVE Begun(r, 0, 0)
  BY <1>0, <1>1, <1>7 DEF StartWatch
<1> QED BY <1>2, <1>3, <1>4, <1>5, <1>6, <1>7

\* Every step is one of these.
LEMMA Steps ==
    ASSUME Next
    PROVE  \/ \E r \in Requests : Passes(r)
           \/ \E r \in Requests, d \in Sources, c \in Contents : StartUpload(r, d, c)
           \/ \E r \in Requests, d \in Sources :
                 StartDelete(r, d) \/ (StartReindex(r, d) /\ ~Move(r, "over"))
           \/ \E w \in Workers : TakeJob(w) \/ EndJob(w)
           \/ \E r \in Requests, d \in Sources : StartWatch(r, d)
           \/ \E a \in Actors : Clear(a) \/ Ingest(a) \/ Fault(a)
           \/ Crash
           \/ Ended
BY DEF Next, Request, Begin, Passes

LEMMA BackedStep ==
    ASSUME Typed, BackedInv, Next
    PROVE  BackedInv'
<1>0. Requests \subseteq Actors /\ Workers \subseteq Actors
  BY DEF Actors
<1>1. ASSUME NEW r \in Requests, Passes(r) PROVE BackedInv'
  <2>1. PICK p \in Places \ BackedPlaces : Goes(r, p, task[r].seen)
    BY <1>1, RequestGoes
  <2>2. UNCHANGED <<stores, evidence>>
    BY <1>1 DEF Passes, ReuseUpload, ReplaceFile, Register, KeepFile, RemoveFile, Forget,
                MarkReindexing, Reload, EndReindex, HashFile, StartReindex, WatchCleared, EndWatch
  <2> QED BY <1>0, <2>1, <2>2, Elsewhere DEF Goes
<1>2. ASSUME NEW a \in Actors, NEW id, NEW version, Begun(a, id, version),
             UNCHANGED <<stores, evidence>>
      PROVE  BackedInv'
  BY <1>2, Elsewhere DEF Begun
<1>3. ASSUME NEW r \in Requests, NEW d \in Sources, NEW c \in Contents, StartUpload(r, d, c)
      PROVE  BackedInv'
  BY <1>0, <1>2, <1>3, TasksBegin DEF StartUpload
<1>4. ASSUME NEW r \in Requests, NEW d \in Sources,
             StartDelete(r, d) \/ (StartReindex(r, d) /\ ~Move(r, "over"))
      PROVE  BackedInv'
  BY <1>0, <1>2, <1>4, TasksBegin DEF StartDelete, StartReindex
<1>5. ASSUME NEW w \in Workers, TakeJob(w) \/ EndJob(w) PROVE BackedInv'
  <2>1. UNCHANGED <<stores, evidence>> BY <1>5 DEF TakeJob, EndJob
  <2>2. CASE UNCHANGED task BY <2>1, <2>2 DEF BackedInv, stores
  <2> QED BY <1>0, <1>2, <1>5, <2>1, <2>2, TasksBegin
<1>6. ASSUME NEW a \in Actors, ClearReadCorpus(a) PROVE BackedInv'
  <2>1. GoesOn(a, "clear_vectors", corpus)
    BY <1>6, ActorGoes
  <2>2. Backs(task'[a], evidence')
    BY <1>6, <2>1 DEF ClearReadCorpus, Goes, GoesOn, Backs, AddPlaces, BackedInv
  <2> QED BY <1>6, <2>1, <2>2, BackedBy, Unchanging DEF ClearReadCorpus, Goes, GoesOn
<1>7. ASSUME NEW a \in Actors, ClearVectors(a) PROVE BackedInv'
  <2>1. GoesOn(a, "clear_corpus", task[a].seen)
    BY <1>7, ActorGoes
  <2>2. AllBacked(task[a].seen, evidence)
    BY <1>7 DEF ClearVectors, BackedInv, Backs, RowPlaces
  <2>3. Backs(task'[a], evidence')
    BY <1>7, <2>1, <2>2 DEF ClearVectors, Goes, GoesOn, Backs, AddPlaces
  <2>4. /\ Keeps(evidence, evidence') /\ AllBacked(corpus', evidence')
        /\ AllBacked(parents', evidence') /\ AllBacked(vectors', evidence')
    BY <1>7 DEF ClearVectors, BackedInv, Keeps, Backed, AllBacked, SameDocument
  <2> QED BY <2>1, <2>3, <2>4, BackedBy DEF Goes, GoesOn
<1>8. ASSUME NEW a \in Actors, ClearCorpus(a) PROVE BackedInv'
  <2>1. GoesOn(a, "clear_parents", task[a].seen)
    BY <1>8, ActorGoes
  <2>2. AllBacked(task[a].seen, evidence)
    BY <1>8 DEF ClearCorpus, BackedInv, Backs, RowPlaces
  <2>3. Backs(task'[a], evidence')
    BY <2>1 DEF Goes, GoesOn, Backs, AddPlaces, RowPlaces
  <2>4. /\ Keeps(evidence, evidence') /\ AllBacked(corpus', evidence')
        /\ AllBacked(parents', evidence') /\ AllBacked(vectors', evidence')
    BY <1>8, <2>2 DEF ClearCorpus, BackedInv, Keeps, Backed, AllBacked, SameDocument
  <2> QED BY <2>1, <2>3, <2>4, BackedBy DEF Goes, GoesOn
<1>9. ASSUME NEW a \in Actors, ClearReadParents(a) PROVE BackedInv'
  <2>1. GoesOn(a, "clear_parent_rows", parents)
    BY <1>9, ActorGoes
  <2>2. Backs(task'[a], evidence')
    BY <1>9, <2>1 DEF ClearReadParents, Goes, GoesOn, Backs, AddPlaces, BackedInv
  <2> QED BY <1>9, <2>1, <2>2, BackedBy, Unchanging DEF ClearReadParents, Goes, GoesOn
<1>10. ASSUME NEW a \in Actors, ClearParents(a) PROVE BackedInv'
  <2>1. GoesOn(a, "cleared", {})
    BY <1>10, ActorGoes
  <2>2. AllBacked(task[a].seen, evidence)
    BY <1>10 DEF ClearParents, BackedInv, Backs, RowPlaces
  <2>3. Backs(task'[a], evidence')
    BY <2>1 DEF Goes, GoesOn, Backs, AddPlaces, RowPlaces
  <2>4. /\ Keeps(evidence, evidence') /\ AllBacked(corpus', evidence')
        /\ AllBacked(parents', evidence') /\ AllBacked(vectors', evidence')
    BY <1>10, <2>2 DEF ClearParents, BackedInv, Keeps, Backed, AllBacked, SameDocument
  <2> QED BY <2>1, <2>3, <2>4, BackedBy DEF Goes, GoesOn
<1>11. ASSUME NEW a \in Actors, Load(a) PROVE BackedInv'
  <2>1. PICK p \in Places \ BackedPlaces : Goes(a, p, task[a].seen)
    BY <1>11, LoadGoes
  <2> QED BY <1>11, <2>1, Elsewhere DEF Load, Goes
<1>12. ASSUME NEW a \in Actors, CheckEvidence(a) PROVE BackedInv'
  <2>1. PICK p \in Places, z \in SUBSET Evidence :
            /\ GoesOn(a, p, z) /\ p \notin RowPlaces
            /\ p \in AddPlaces => Backed(task[a].id, task[a].version, task[a].content, evidence)
            /\ p = "persist" => Backed(task[a].id, task[a].version, task[a].content, z)
    BY <1>12, CheckGoes
  <2>2. Backs(task'[a], evidence')
    BY <1>12, <2>1 DEF CheckEvidence, Backs, Goes, GoesOn
  <2> QED BY <1>12, <2>1, <2>2, BackedBy, Unchanging DEF CheckEvidence, Goes, GoesOn
<1>13. ASSUME NEW a \in Actors, Persist(a) PROVE BackedInv'
  <2> DEFINE t == task[a]
  <2>1. PICK p \in Places : GoesOn(a, p, {}) /\ p \notin RowPlaces /\ p # "persist"
    BY <1>13, PersistGoes
  <2>2. evidence' = (evidence \ Kept(t)) \cup t.seen /\ Backed(t.id, t.version, t.content, t.seen)
    BY <1>13 DEF Persist, BackedInv, Backs
  <2>3. Keeps(evidence, evidence')
    BY <2>2 DEF Keeps, Backed, Kept, SameDocument
  <2>4. Backs(task'[a], evidence')
    <3>1. Backed(t.id, t.version, t.content, evidence') BY <2>2 DEF Backed, SameDocument
    <3> QED BY <2>1, <3>1 DEF Goes, GoesOn, Backs
  <2>5. /\ AllBacked(corpus', evidence') /\ AllBacked(parents', evidence')
        /\ AllBacked(vectors', evidence')
    BY <1>13, <2>3, KeepsBacked DEF Persist, BackedInv, stores
  <2> QED BY <2>1, <2>3, <2>4, <2>5, BackedBy DEF Goes, GoesOn
<1>14. ASSUME NEW a \in Actors, AddReadCorpus(a) PROVE BackedInv'
  <2>1. GoesOn(a, "add_corpus", corpus)
    BY <1>14, ActorGoes
  <2>2. Backed(task[a].id, task[a].version, task[a].content, evidence)
    BY <1>14 DEF AddReadCorpus, BackedInv, Backs, AddPlaces
  <2>3. Backs(task'[a], evidence')
    BY <1>14, <2>1, <2>2 DEF AddReadCorpus, Goes, GoesOn, Backs, BackedInv
  <2> QED BY <1>14, <2>1, <2>3, BackedBy, Unchanging DEF AddReadCorpus, Goes, GoesOn
<1>15. ASSUME NEW a \in Actors, AddCorpus(a) PROVE BackedInv'
  <2>1. GoesOn(a, "add_parents", task[a].seen)
    BY <1>15, ActorGoes
  <2>2. Backed(task[a].id, task[a].version, task[a].content, evidence)
    BY <1>15 DEF AddCorpus, BackedInv, Backs, AddPlaces
  <2>3. AllBacked(task[a].seen, evidence)
    BY <1>15 DEF AddCorpus, BackedInv, Backs, RowPlaces
  <2>4. Backs(task'[a], evidence')
    BY <1>15, <2>1, <2>2 DEF AddCorpus, Goes, GoesOn, Backs, RowPlaces
  <2>5. /\ Keeps(evidence, evidence') /\ AllBacked(corpus', evidence')
        /\ AllBacked(parents', evidence') /\ AllBacked(vectors', evidence')
    BY <1>15, <2>2, <2>3 DEF AddCorpus, BackedInv, Keeps, Backed, AllBacked, SameDocument, Row
  <2> QED BY <2>1, <2>4, <2>5, BackedBy DEF Goes, GoesOn
<1>16. ASSUME NEW a \in Actors, AddReadParents(a) PROVE BackedInv'
  <2>1. GoesOn(a, "add_parent_rows", parents)
    BY <1>16, ActorGoes
  <2>2. Backed(task[a].id, task[a].version, task[a].content, evidence)
    BY <1>16 DEF AddReadParents, BackedInv, Backs, AddPlaces
  <2>3. Backs(task'[a], evidence')
    BY <1>16, <2>1, <2>2 DEF AddReadParents, Goes, GoesOn, Backs, BackedInv
  <2> QED BY <1>16, <2>1, <2>3, BackedBy, Unchanging DEF AddReadParents, Goes, GoesOn
<1>17. ASSUME NEW a \in Actors, AddParents(a) PROVE BackedInv'
  <2>1. GoesOn(a, "add_vectors", {})
    BY <1>17, ActorGoes
  <2>2. Backed(task[a].id, task[a].version, task[a].content, evidence)
    BY <1>17 DEF AddParents, BackedInv, Backs, AddPlaces
  <2>3. AllBacked(task[a].seen, evidence)
    BY <1>17 DEF AddParents, BackedInv, Backs, RowPlaces
  <2>4. Backs(task'[a], evidence')
    BY <1>17, <2>1, <2>2 DEF AddParents, Goes, GoesOn, Backs, RowPlaces
  <2>5. /\ Keeps(evidence, evidence') /\ AllBacked(corpus', evidence')
        /\ AllBacked(parents', evidence') /\ AllBacked(vectors', evidence')
    BY <1>17, <2>2, <2>3 DEF AddParents, BackedInv, Keeps, Backed, AllBacked, SameDocument, Row
  <2> QED BY <2>1, <2>4, <2>5, BackedBy DEF Goes, GoesOn
<1>18. ASSUME NEW a \in Actors, AddVectors(a) PROVE BackedInv'
  <2>1. GoesOn(a, "indexed", task[a].seen)
    BY <1>18, ActorGoes
  <2>2. Backed(task[a].id, task[a].version, task[a].content, evidence)
    BY <1>18 DEF AddVectors, BackedInv, Backs, AddPlaces
  <2>4. Backs(task'[a], evidence')
    BY <1>18, <2>1, <2>2 DEF AddVectors, Goes, GoesOn, Backs, RowPlaces
  <2>5. /\ Keeps(evidence, evidence') /\ AllBacked(corpus', evidence')
        /\ AllBacked(parents', evidence') /\ AllBacked(vectors', evidence')
    BY <1>18, <2>2 DEF AddVectors, BackedInv, Keeps, Backed, AllBacked, SameDocument, Row
  <2> QED BY <2>1, <2>4, <2>5, BackedBy DEF Goes, GoesOn
<1>19. ASSUME NEW a \in Actors, Fault(a) PROVE BackedInv'
  <2>1. PICK p \in Places \ BackedPlaces : Goes(a, p, {})
    BY <1>19, FaultGoes
  <2> QED BY <1>19, <2>1, Elsewhere DEF Fault, Goes
<1>20. CASE Ended
  BY <1>20 DEF Ended, vars, stores, BackedInv
<1>21. ASSUME NEW r \in Requests, NEW d \in Sources, StartWatch(r, d) PROVE BackedInv'
  BY <1>0, <1>2, <1>21, TasksBegin DEF StartWatch
<1>22. CASE Crash
  <2>1. evidence' = evidence /\ vectors' = vectors
    BY <1>22 DEF Crash
  <2>2. \A a \in Actors :
            /\ task[a].at \in RowPlaces => AllBacked(task[a].seen, evidence)
            /\ task[a].at \in {"add_corpus", "add_parent_rows"} =>
                 Backed(task[a].id, task[a].version, task[a].content, evidence)
    BY DEF BackedInv, Backs, AddPlaces
  <2>3. \A a \in Actors : /\ Row(task[a]).id = task[a].id /\ Row(task[a]).version = task[a].version
                          /\ Row(task[a]).content = task[a].content
    BY DEF Row
  <2>4. \A x \in corpus' \cup parents' : Backed(x.id, x.version, x.content, evidence)
    BY <1>22, <2>2, <2>3, TornRows DEF BackedInv, AllBacked
  <2>5. \A a \in Actors : task'[a] = task[a] \/ task'[a].at \in {"idle", "over"}
    BY <1>22 DEF Crash, NoTask, Doing
  <2>6. \A a \in Actors : Backs(task'[a], evidence)
    BY <2>5 DEF BackedInv, Backs, RowPlaces, AddPlaces
  <2> QED BY <2>1, <2>4, <2>6 DEF BackedInv, AllBacked
<1> QED
  BY <1>1, <1>3, <1>4, <1>5, <1>6, <1>7, <1>8, <1>9, <1>10, <1>11, <1>12, <1>13, <1>14, <1>15, <1>16, <1>17,
     <1>18, <1>19, <1>20, <1>21, <1>22, Steps DEF Clear, Ingest

\* A row is searchable only when the artifacts of its document version are in
\* the store: ingest_paths persists them before _write_records.
THEOREM EvidenceIsFirst == Spec => []EvidenceFirst
<1>1. Init => BackedInv
  BY DEF Init, NoTask, Doing, BackedInv, AllBacked, Backs, RowPlaces, AddPlaces
<1>2. Typed /\ BackedInv /\ [Next]_vars => BackedInv'
  <2> SUFFICES ASSUME Typed, BackedInv, [Next]_vars PROVE BackedInv' OBVIOUS
  <2>1. CASE Next BY <2>1, BackedStep
  <2>2. CASE UNCHANGED vars BY <2>2 DEF vars, stores, BackedInv
  <2> QED BY <2>1, <2>2
<1>3. BackedInv => EvidenceFirst
  BY DEF BackedInv, AllBacked, Backed, EvidenceFirst
<1> QED BY <1>1, <1>2, <1>3, InitTyped, TypedStep, PTL DEF Spec
-----------------------------------------------------------------------------
(* Versions.                                                               *)

\* No document id beyond the last issued, and no version of a document beyond
\* the latest of its record, if it has one.
Fits(id, version, rec, last) ==
    /\ id <= last
    /\ \A d \in Sources : rec[d] # None /\ rec[d].id = id => version <= rec[d].latest

AllFit(rows, rec, last) == \A x \in rows : Fits(x.id, x.version, rec, last)

\* Records of different sources have different ids.
RecordsFit(rec, last) ==
    /\ \A d \in Sources : rec[d] # None => rec[d].id <= last /\ rec[d].version <= rec[d].latest
    /\ \A d, e \in Sources :
           rec[d] # None /\ rec[e] # None /\ rec[d].id = rec[e].id => d = e

RowsFit ==
    /\ AllFit(corpus, record, lastId) /\ AllFit(parents, record, lastId)
    /\ AllFit(vectors, record, lastId) /\ AllFit(evidence, record, lastId)

TasksFit ==
    \A a \in Actors : /\ Fits(task[a].id, task[a].version, record, lastId)
                      /\ AllFit(task[a].seen, record, lastId)

QueueFits == \A i \in 1..Len(queue) : Fits(queue[i][2], queue[i][3], record, lastId)

FitInv == RecordsFit(record, lastId) /\ RowsFit /\ TasksFit /\ QueueFits

\* A record that survives a step keeps its id and its latest version, at
\* least; a record that appears has a new id.
Evolves ==
    /\ lastId <= lastId'
    /\ \A d \in Sources : record'[d] # None =>
           \/ record[d] # None /\ record'[d].id = record[d].id /\ record[d].latest <= record'[d].latest
           \/ lastId < record'[d].id

\* The step of VersionsOnlyGrow.
Grows ==
    \A d \in Sources :
        Known(d) /\ record'[d] # None /\ record'[d].id = record[d].id =>
            /\ record'[d].version >= record[d].version
            /\ record'[d].status = "pending" /\ record'[d].sha # record[d].sha =>
                 \A e \in evidence \cup corpus \cup parents \cup vectors :
                     e.id = record[d].id => e.version < record'[d].version

LEMMA NatRecords ==
    ASSUME Typed
    PROVE  /\ lastId \in Nat
           /\ \A d \in Sources : record[d] # None =>
                 /\ record[d].id \in Nat \ {0} /\ record[d].version \in Nat \ {0}
                 /\ record[d].latest \in Nat \ {0}
BY RecordOf, RecordFields DEF Typed, TypeOK, Known

LEMMA FitsKept ==
    ASSUME Typed, Typed', Evolves, NEW id \in Nat, NEW version \in Nat,
           Fits(id, version, record, lastId)
    PROVE  Fits(id, version, record', lastId')
<1>1. lastId \in Nat /\ lastId' \in Nat /\ id <= lastId'
  BY DEF Typed, TypeOK, Fits, Evolves
<1>2. ASSUME NEW d \in Sources, record'[d] # None, record'[d].id = id
      PROVE  version <= record'[d].latest
  <2>1. record'[d] \in Record BY <1>2 DEF Typed, TypeOK
  <2>2. record'[d].latest \in Nat BY <2>1, RecordFields
  <2>3. ~(lastId < record'[d].id) BY <1>1, <1>2 DEF Fits
  <2>4. record[d] # None /\ record[d].id = id /\ record[d].latest <= record'[d].latest
    BY <1>2, <2>3 DEF Evolves
  <2>5. record[d].latest \in Nat /\ version <= record[d].latest BY <2>4, NatRecords DEF Fits
  <2> QED BY <2>2, <2>4, <2>5
<1> QED BY <1>1, <1>2 DEF Fits

\* A document's own record fits.
LEMMA OwnFits ==
    ASSUME NEW rec, NEW last, RecordsFit(rec, last), NEW d \in Sources, rec[d] # None
    PROVE  Fits(rec[d].id, rec[d].version, rec, last)
BY DEF RecordsFit, Fits

\* A step that forgets a record or restates it, with its id and its versions.
LEMMA Restated ==
    ASSUME Typed, RecordsFit(record, lastId), NEW d \in Sources, NEW m,
           record' = [record EXCEPT ![d] = m], lastId' = lastId,
           m # None =>
               /\ Known(d)
               /\ m.id = record[d].id /\ m.version = record[d].version /\ m.latest = record[d].latest
               /\ m.status = "pending" => m.sha = record[d].sha
    PROVE  RecordsFit(record', lastId') /\ Evolves /\ Grows
<1>1. \A e \in Sources : record'[e] = IF e = d THEN m ELSE record[e]
  BY DEF Typed, TypeOK
<1>2. RecordsFit(record', lastId')
  BY <1>1 DEF RecordsFit, Known
<1>3. Evolves
  BY <1>1, NatRecords DEF Evolves, Known
<1>4. Grows
  BY <1>1, NatRecords DEF Grows, Known
<1> QED BY <1>2, <1>3, <1>4

LEMMA Unrecorded ==
    ASSUME Typed, RecordsFit(record, lastId), UNCHANGED <<record, lastId>>
    PROVE  RecordsFit(record', lastId') /\ Evolves /\ Grows
BY NatRecords DEF Evolves, Grows, Known

\* A registration, and the document version it queues.
LEMMA RegisterFits ==
    ASSUME Typed, FitInv, NEW r \in Requests, Register(r)
    PROVE  LET new == Registered(task[r].src, task[r].content) IN
           /\ RecordsFit(record', lastId') /\ Evolves /\ Grows
           /\ Fits(new.id, new.version, record', lastId')
<1> DEFINE d == task[r].src
           c == task[r].content
           new == Registered(d, c)
           old == record[d]
           v == NextVersion(old, c)
<1>1. d \in Sources /\ c \in Contents
  BY Held DEF Register, Sound, Actors
<1>2. \A e \in Sources : record'[e] = IF e = d THEN new ELSE record[e]
  BY <1>1 DEF Register, Typed, TypeOK
<1>3. new.id \in Nat /\ new.version \in Nat /\ new.latest \in Nat
  BY <1>1, RegisteredTyped, RecordFields
<1>4. RecordsFit(record, lastId) BY DEF FitInv
<1>5. CASE Known(d)
  <2>1. /\ old.id \in Nat /\ old.version \in Nat /\ old.latest \in Nat /\ lastId \in Nat
        /\ old.version <= old.latest /\ old.id <= lastId
    BY <1>1, <1>4, <1>5, NatRecords DEF RecordsFit, Known
  <2>2. /\ new.id = old.id /\ new.version = v
        /\ new.latest = (IF old.latest > v THEN old.latest ELSE v) /\ new.sha = c
    BY <1>5 DEF Registered
  <2>3. v \in Nat /\ old.version <= v /\ (c # old.sha => v = old.latest + 1)
    BY <2>1 DEF NextVersion
  <2>4. lastId' = lastId BY <1>5 DEF Register
  <2> HIDE DEF new, v
  <2>5. RecordsFit(record', lastId')
    BY <1>1, <1>2, <1>4, <1>5, <2>1, <2>2, <2>3, <2>4 DEF RecordsFit, Known
  <2>6. Evolves
    BY <1>1, <1>2, <1>5, <2>1, <2>2, <2>3, <2>4, NatRecords DEF Evolves, Known
  <2>7. ASSUME new.sha # old.sha, NEW e \in evidence \cup corpus \cup parents \cup vectors,
               e.id = old.id
        PROVE  e.version < new.version
    <3>1. e.version \in Nat BY DEF Typed, TypeOK, Evidence, IndexRow
    <3>2. Fits(e.id, e.version, record, lastId) BY DEF FitInv, RowsFit, AllFit
    <3>3. e.version <= old.latest BY <1>1, <1>5, <2>7, <3>2 DEF Fits, Known
    <3> QED BY <2>1, <2>2, <2>3, <2>7, <3>1, <3>3
  <2>8. Grows
    BY <1>2, <2>1, <2>2, <2>3, <2>7, NatRecords DEF Grows, Known
  <2>9. Fits(new.id, new.version, record', lastId')
    BY <1>1, <1>2, <1>4, <1>5, <2>1, <2>2, <2>3, <2>4 DEF Fits, RecordsFit, Known
  <2> QED BY <2>5, <2>6, <2>8, <2>9 DEF new
<1>6. CASE ~Known(d)
  <2>1. new.id = lastId + 1 /\ new.version = 1 /\ new.latest = 1 /\ lastId' = lastId + 1
    BY <1>6 DEF Registered, Register
  <2> HIDE DEF new
  <2>2. lastId \in Nat BY NatRecords
  <2>3. RecordsFit(record', lastId')
    BY <1>1, <1>2, <1>4, <2>1, <2>2, NatRecords DEF RecordsFit
  <2>4. Evolves
    BY <1>2, <2>1, <2>2, NatRecords DEF Evolves
  <2>5. Grows
    BY <1>2, <1>6, NatRecords DEF Grows, Known
  <2>6. Fits(new.id, new.version, record', lastId')
    BY <1>1, <1>2, <1>4, <2>1, <2>2, NatRecords DEF Fits, RecordsFit
  <2> QED BY <2>3, <2>4, <2>5, <2>6 DEF new
<1> QED BY <1>5, <1>6
\* Rows that are in a store or in a's hands, or are of a's document version.
From(rows, a) ==
    \A x \in rows :
        \/ x \in corpus \cup parents \cup vectors \cup evidence \cup task[a].seen
        \/ x.id = task[a].id /\ x.version = task[a].version

LEMMA FromFits ==
    ASSUME Typed, Typed', FitInv, Evolves, NEW a \in Actors, NEW rows, From(rows, a)
    PROVE  AllFit(rows, record', lastId')
<1> SUFFICES ASSUME NEW x \in rows PROVE Fits(x.id, x.version, record', lastId')
  BY DEF AllFit
<1>1. CASE x \in corpus \cup parents \cup vectors \cup evidence \cup task[a].seen
  <2>1. x \in IndexRow \cup Evidence
    BY <1>1, Held DEF Typed, TypeOK
  <2>2. x.id \in Nat /\ x.version \in Nat
    BY <2>1 DEF IndexRow, Evidence
  <2>3. Fits(x.id, x.version, record, lastId)
    BY <1>1 DEF FitInv, RowsFit, TasksFit, AllFit
  <2> QED BY <2>2, <2>3, FitsKept
<1>2. CASE x.id = task[a].id /\ x.version = task[a].version
  <2>1. Fits(x.id, x.version, record, lastId) BY <1>2 DEF FitInv, TasksFit
  <2> QED BY <1>2, <2>1, Held, FitsKept
<1> QED BY <1>1, <1>2 DEF From

\* A step of actor a fits when what it writes and what it holds come from
\* there, and its document version fits.
LEMMA FitBy ==
    ASSUME Typed, Typed', FitInv, Evolves, NEW a \in Actors, Alone(a),
           Fits(task'[a].id, task'[a].version, record', lastId'),
           From(corpus', a), From(parents', a), From(vectors', a), From(evidence', a),
           From(task'[a].seen, a)
    PROVE  RowsFit' /\ TasksFit'
<1>1. RowsFit' BY FromFits DEF RowsFit
<1>2. ASSUME NEW b \in Actors
      PROVE  /\ Fits(task'[b].id, task'[b].version, record', lastId')
             /\ AllFit(task'[b].seen, record', lastId')
  <2>1. CASE b = a BY <2>1, FromFits
  <2>2. CASE b # a
    <3>1. task'[b] = task[b] BY <2>2 DEF Alone
    <3>2. From(task[b].seen, b) BY DEF From
    <3>3. Fits(task[b].id, task[b].version, record, lastId) BY DEF FitInv, TasksFit
    <3> QED BY <3>1, <3>2, <3>3, FromFits, FitsKept, Held
  <2> QED BY <2>1, <2>2
<1>3. TasksFit' BY <1>2 DEF TasksFit
<1> QED BY <1>1, <1>3

LEMMA StoresFrom ==
    ASSUME NEW a \in Actors, UNCHANGED <<stores, evidence>>
    PROVE  From(corpus', a) /\ From(parents', a) /\ From(vectors', a) /\ From(evidence', a)
<1>1. corpus' = corpus /\ parents' = parents /\ vectors' = vectors /\ evidence' = evidence
  BY DEF stores
<1> QED BY <1>1 DEF From

LEMMA FitGoes ==
    ASSUME Typed, Typed', FitInv, Evolves, NEW a \in Actors, NEW p, NEW z, Goes(a, p, z),
           From(corpus', a), From(parents', a), From(vectors', a), From(evidence', a), From(z, a)
    PROVE  RowsFit' /\ TasksFit'
<1>1. Fits(task[a].id, task[a].version, record, lastId) BY DEF FitInv, TasksFit
<1>2. Fits(task'[a].id, task'[a].version, record', lastId')
  BY <1>1, Held, FitsKept DEF Goes
<1> QED BY <1>2, FitBy DEF Goes

LEMMA FitStarts ==
    ASSUME Typed, Typed', FitInv, Evolves, NEW a \in Actors, Alone(a), UNCHANGED <<stores, evidence>>,
           task'[a].seen = {}, Fits(task'[a].id, task'[a].version, record', lastId')
    PROVE  RowsFit' /\ TasksFit'
BY FitBy, StoresFrom DEF From

LEMMA QueueKept ==
    ASSUME Typed, Typed', FitInv, Evolves, NEW q \in Seq(Sources \X Nat \X (Nat \ {0})),
           \A i \in 1..Len(q) : \E j \in 1..Len(queue) : q[i] = queue[j]
    PROVE  \A i \in 1..Len(q) : Fits(q[i][2], q[i][3], record', lastId')
<1> SUFFICES ASSUME NEW i \in 1..Len(q) PROVE Fits(q[i][2], q[i][3], record', lastId')
  OBVIOUS
<1>1. PICK j \in 1..Len(queue) : q[i] = queue[j] OBVIOUS
<1>2. Fits(queue[j][2], queue[j][3], record, lastId) BY DEF FitInv, QueueFits
<1>3. q[i] \in Sources \X Nat \X (Nat \ {0}) OBVIOUS
<1>4. q[i][2] \in Nat /\ q[i][3] \in Nat BY <1>3
<1> QED BY <1>1, <1>2, <1>4, FitsKept

LEMMA QueueSame ==
    ASSUME Typed, Typed', FitInv, Evolves, UNCHANGED queue
    PROVE  QueueFits'
BY QueueKept DEF QueueFits, Typed, TypeOK
LEMMA RecordKept ==
    ASSUME Typed, FitInv, Next
    PROVE  RecordsFit(record', lastId') /\ Evolves /\ Grows
<1>0. Requests \subseteq Actors /\ Workers \subseteq Actors /\ RecordsFit(record, lastId)
  BY DEF Actors, FitInv
<1>1. ASSUME NEW r \in Requests, NEW x \in Statuses, task[r].src \in Sources, lastId' = lastId,
             \/ record' = [record EXCEPT ![task[r].src] = WithStatus(task[r].src, x)]
             \/ record' = [record EXCEPT ![task[r].src] = WithHash(task[r], x)] /\ x # "pending"
      PROVE  RecordsFit(record', lastId') /\ Evolves /\ Grows
  <2> DEFINE d == task[r].src
  <2>1. CASE ~Known(d)
    <3>1. record' = [record EXCEPT ![d] = None] BY <1>1, <2>1 DEF WithStatus, WithHash
    <3> QED BY <1>0, <1>1, <3>1, Restated
  <2>2. CASE Known(d)
    <3> DEFINE m == record'[d]
    <3>1. record[d] \in Record BY <1>1, <2>2, RecordOf
    <3>2. \A y \in Record : \A c :
              /\ [y EXCEPT !.status = x].id = y.id
              /\ [y EXCEPT !.status = x].version = y.version
              /\ [y EXCEPT !.status = x].latest = y.latest
              /\ [y EXCEPT !.status = x].sha = y.sha
              /\ [y EXCEPT !.status = x, !.sha = c].id = y.id
              /\ [y EXCEPT !.status = x, !.sha = c].version = y.version
              /\ [y EXCEPT !.status = x, !.sha = c].latest = y.latest
              /\ [y EXCEPT !.status = x, !.sha = c].status = x
      BY DEF Record
    <3>3. \/ m = [record[d] EXCEPT !.status = x]
          \/ m = [record[d] EXCEPT !.status = x, !.sha = task[r].content] /\ x # "pending"
      BY <1>1, <2>2 DEF WithStatus, WithHash, Typed, TypeOK
    <3>4. /\ m.id = record[d].id /\ m.version = record[d].version /\ m.latest = record[d].latest
          /\ m.status = "pending" => m.sha = record[d].sha
      <4> HIDE DEF m
      <4>1. CASE m = [record[d] EXCEPT !.status = x]
        BY <3>1, <3>2, <4>1
      <4>2. CASE m = [record[d] EXCEPT !.status = x, !.sha = task[r].content] /\ x # "pending"
        BY <3>1, <3>2, <4>2
      <4> QED BY <3>3, <4>1, <4>2
    <3>5. record' = [record EXCEPT ![d] = m] BY <1>1 DEF Typed, TypeOK
    <3> QED BY <1>0, <1>1, <2>2, <3>4, <3>5, Restated
  <2> QED BY <2>1, <2>2
<1>2. ASSUME NEW r \in Requests, Passes(r)
      PROVE  RecordsFit(record', lastId') /\ Evolves /\ Grows
  <2>1. CASE Register(r) BY <2>1, RegisterFits
  <2>2. CASE KeepFile(r)
    <3>1. task[r].src \in Sources BY <1>0, <2>2, Held DEF KeepFile, Sound
    <3> QED BY <1>1, <2>2, <3>1 DEF KeepFile, Statuses
  <2>3. CASE MarkReindexing(r)
    <3>1. task[r].src \in Sources BY <1>0, <2>3, Held DEF MarkReindexing, Sound
    <3> QED BY <1>1, <2>3, <3>1 DEF MarkReindexing, Statuses
  <2>4. CASE EndReindex(r)
    <3>1. task[r].src \in Sources BY <1>0, <2>4, Held DEF EndReindex, Sound
    <3> QED BY <1>1, <2>4, <3>1 DEF EndReindex, Statuses
  <2>5. CASE Forget(r)
    <3>1. task[r].src \in Sources BY <1>0, <2>5, Held DEF Forget, Sound
    <3> QED BY <1>0, <2>5, <3>1, Restated DEF Forget
  <2>6. CASE UNCHANGED <<record, lastId>> BY <1>0, <2>6, Unrecorded
  <2> QED BY <1>2, <2>1, <2>2, <2>3, <2>4, <2>5, <2>6
          DEF Passes, ReuseUpload, ReplaceFile, RemoveFile, Reload, HashFile, StartReindex,
              WatchCleared, EndWatch
<1>3. ASSUME NEW w \in Workers, TakeJob(w) \/ EndJob(w)
      PROVE  RecordsFit(record', lastId') /\ Evolves /\ Grows
  <2>1. CASE UNCHANGED record
    BY <1>0, <1>3, <2>1, Unrecorded DEF TakeJob, EndJob
  <2>2. CASE ~UNCHANGED record
    <3>1. PICK d \in Sources, x \in Statuses \ {"pending"} :
              Known(d) /\ record' = [record EXCEPT ![d].status = x]
      <4>1. CASE TakeJob(w)
        BY <2>2, <4>1, Queued DEF TakeJob, HasRecord, Statuses
      <4>2. CASE EndJob(w)
        BY <1>0, <2>2, <4>2, Held DEF EndJob, HasRecord, JobStatus, Statuses, Sound
      <4> QED BY <1>3, <4>1, <4>2
    <3> DEFINE m == [record[d] EXCEPT !.status = x]
    <3>2. record[d] \in Record BY <3>1, RecordOf
    <3>3. /\ m.id = record[d].id /\ m.version = record[d].version /\ m.latest = record[d].latest
          /\ m.sha = record[d].sha
      BY <3>2 DEF Record
    <3>4. record' = [record EXCEPT ![d] = m] BY <3>1 DEF Typed, TypeOK
    <3>5. lastId' = lastId BY <1>3 DEF TakeJob, EndJob
    <3> HIDE DEF m
    <3> QED BY <1>0, <3>1, <3>3, <3>4, <3>5, Restated
  <2> QED BY <2>1, <2>2
<1>4. CASE UNCHANGED <<record, lastId>> BY <1>0, <1>4, Unrecorded
<1> QED
  BY <1>2, <1>3, <1>4, Steps
     DEF StartUpload, StartDelete, StartReindex, Clear, Ingest, ClearReadCorpus, ClearVectors,
         ClearCorpus, ClearReadParents, ClearParents, Load, CheckEvidence, Persist, AddReadCorpus,
         AddCorpus, AddReadParents, AddParents, AddVectors, Fault, StartWatch, Crash, Ended, vars
LEMMA QueueStep ==
    ASSUME Typed, Typed', FitInv, Evolves, Next
    PROVE  QueueFits'
<1>0. queue' \in Seq(Sources \X Nat \X (Nat \ {0})) /\ queue \in Seq(Sources \X Nat \X (Nat \ {0}))
  BY DEF Typed, TypeOK
<1>1. ASSUME NEW r \in Requests, Register(r) PROVE QueueFits'
  <2> DEFINE new == Registered(task[r].src, task[r].content)
             x == <<task[r].src, new.id, new.version>>
  <2>1. queue' = Append(queue, x) /\ Fits(new.id, new.version, record', lastId')
    BY <1>1, RegisterFits DEF Register
  <2>2. \A i \in 1..Len(queue) : Fits(queue[i][2], queue[i][3], record', lastId')
    BY <1>0, QueueKept
  <2>3. x[2] = new.id /\ x[3] = new.version OBVIOUS
  <2>4. /\ \A i \in 1..Len(queue) : queue'[i] = queue[i]
        /\ Len(queue') = Len(queue) + 1 /\ queue'[Len(queue) + 1] = x
    <3> HIDE DEF x
    <3> QED BY <1>0, <2>1
  <2> HIDE DEF x, new
  <2>5. \A i \in 1..Len(queue') : i \in 1..Len(queue) \/ i = Len(queue) + 1
    BY <1>0, <2>4
  <2> QED BY <2>1, <2>2, <2>3, <2>4, <2>5 DEF QueueFits
<1>2. ASSUME NEW w \in Workers, TakeJob(w) PROVE QueueFits'
  <2>1. queue # << >> /\ queue' = Tail(queue) BY <1>2 DEF TakeJob
  <2>2. \A i \in 1..Len(queue') : i + 1 \in 1..Len(queue) /\ queue'[i] = queue[i + 1]
    BY <1>0, <2>1
  <2>3. \A i \in 1..Len(queue') : \E j \in 1..Len(queue) : queue'[i] = queue[j]
    BY <2>2
  <2> QED BY <1>0, <2>3, QueueKept DEF QueueFits
<1>3. CASE UNCHANGED queue BY <1>3, QueueSame
<1>4. ASSUME NEW r \in Requests, Passes(r) PROVE Register(r) \/ UNCHANGED queue
  BY <1>4 DEF Passes, ReuseUpload, ReplaceFile, KeepFile, RemoveFile, Forget, MarkReindexing, Reload,
              EndReindex, HashFile, StartReindex, WatchCleared, EndWatch
<1>5. CASE Crash BY <1>5 DEF Crash, QueueFits
<1> QED
  BY <1>1, <1>2, <1>3, <1>4, <1>5, Steps
     DEF StartUpload, StartDelete, StartReindex, EndJob, Clear, Ingest, ClearReadCorpus, ClearVectors,
         ClearCorpus, ClearReadParents, ClearParents, Load, CheckEvidence, Persist, AddReadCorpus,
         AddCorpus, AddReadParents, AddParents, AddVectors, Fault, StartWatch, Crash, Ended, vars

LEMMA RowsStep ==
    ASSUME Typed, Typed', FitInv, RecordsFit(record', lastId'), Evolves, Next
    PROVE  RowsFit' /\ TasksFit'
<1>0. Requests \subseteq Actors /\ Workers \subseteq Actors
  BY DEF Actors
<1>1. ASSUME NEW a \in Actors, NEW p, NEW z, Goes(a, p, z), UNCHANGED <<stores, evidence>>,
             z \subseteq corpus \cup parents \cup vectors \cup evidence \cup task[a].seen
      PROVE  RowsFit' /\ TasksFit'
  <2>1. From(z, a) BY <1>1 DEF From
  <2> QED BY <1>1, <2>1, StoresFrom, FitGoes
<1>2. ASSUME NEW r \in Requests, Passes(r) PROVE RowsFit' /\ TasksFit'
  <2>1. PICK p \in Places \ BackedPlaces : Goes(r, p, task[r].seen)
    BY <1>2, RequestGoes
  <2>2. UNCHANGED <<stores, evidence>>
    BY <1>2 DEF Passes, ReuseUpload, ReplaceFile, Register, KeepFile, RemoveFile, Forget,
                MarkReindexing, Reload, EndReindex, HashFile, StartReindex, WatchCleared, EndWatch
  <2> QED BY <1>0, <1>1, <2>1, <2>2
<1>3. ASSUME NEW a \in Actors, NEW id \in Nat, NEW version \in Nat, Begun(a, id, version),
             UNCHANGED <<stores, evidence>>, Fits(id, version, record, lastId)
      PROVE  RowsFit' /\ TasksFit'
  <2>1. Fits(id, version, record', lastId') BY <1>3, FitsKept
  <2> QED BY <1>3, <2>1, FitStarts DEF Begun
<1>4. Fits(0, 0, record, lastId)
  BY NatRecords DEF Fits
<1>5. ASSUME NEW d \in Sources, Known(d)
      PROVE  /\ record[d].id \in Nat /\ record[d].version \in Nat
             /\ Fits(record[d].id, record[d].version, record, lastId)
  BY <1>5, NatRecords, OwnFits DEF FitInv, Known
<1>6. ASSUME NEW r \in Requests, NEW d \in Sources, NEW c \in Contents, StartUpload(r, d, c)
      PROVE  RowsFit' /\ TasksFit'
  <2>1. Begun(r, 0, 0) /\ UNCHANGED <<stores, evidence>> BY <1>6, TasksBegin DEF StartUpload
  <2> QED BY <1>0, <1>3, <1>4, <2>1
<1>7. ASSUME NEW r \in Requests, NEW d \in Sources,
             StartDelete(r, d) \/ (StartReindex(r, d) /\ ~Move(r, "over"))
      PROVE  RowsFit' /\ TasksFit'
  <2>1. Begun(r, record[d].id, record[d].version) BY <1>7, TasksBegin
  <2>2. Known(d) /\ UNCHANGED <<stores, evidence>> BY <1>7 DEF StartDelete, StartReindex
  <2> QED BY <1>0, <1>3, <1>5, <2>1, <2>2
<1>8. ASSUME NEW w \in Workers, TakeJob(w) PROVE RowsFit' /\ TasksFit'
  <2>1. UNCHANGED <<stores, evidence>> /\ queue # << >> BY <1>8 DEF TakeJob
  <2>2. CASE UNCHANGED task
    <3>1. Goes(w, task[w].at, task[w].seen) BY <2>2 DEF Goes, Alone
    <3> QED BY <1>0, <1>1, <2>1, <3>1
  <2>3. CASE Begun(w, Head(queue)[2], Head(queue)[3])
    <3>1. queue \in Seq(Sources \X Nat \X (Nat \ {0})) BY DEF Typed, TypeOK
    <3>2. 1 \in 1..Len(queue) /\ Head(queue) = queue[1] BY <2>1, <3>1
    <3>3. Fits(Head(queue)[2], Head(queue)[3], record, lastId) BY <3>2 DEF FitInv, QueueFits
    <3>4. Head(queue)[2] \in Nat /\ Head(queue)[3] \in Nat BY <2>1, Queued
    <3> QED BY <1>0, <1>3, <2>1, <2>3, <3>3, <3>4
  <2> QED BY <1>8, <2>2, <2>3, TasksBegin
<1>9. ASSUME NEW w \in Workers, EndJob(w) PROVE RowsFit' /\ TasksFit'
  <2>1. Begun(w, 0, 0) /\ UNCHANGED <<stores, evidence>> BY <1>9, TasksBegin DEF EndJob
  <2> QED BY <1>0, <1>3, <1>4, <2>1
<1>10. ASSUME NEW a \in Actors, Clear(a) PROVE RowsFit' /\ TasksFit'
  <2>1. CASE ClearReadCorpus(a)
    BY <1>1, <2>1, ActorGoes DEF GoesOn, ClearReadCorpus
  <2>2. CASE ClearReadParents(a)
    BY <1>1, <2>2, ActorGoes DEF GoesOn, ClearReadParents
  <2>3. CASE ClearVectors(a) \/ ClearCorpus(a) \/ ClearParents(a)
    <3>1. PICK p, z : Goes(a, p, z) /\ z \subseteq task[a].seen
      BY <2>3, ActorGoes DEF GoesOn
    <3>2. From(corpus', a) /\ From(parents', a) /\ From(vectors', a) /\ From(evidence', a) /\ From(z, a)
      BY <2>3, <3>1 DEF ClearVectors, ClearCorpus, ClearParents, From, Matching
    <3> QED BY <3>1, <3>2, FitGoes
  <2> QED BY <1>10, <2>1, <2>2, <2>3 DEF Clear
<1>11. ASSUME NEW a \in Actors, Ingest(a) PROVE RowsFit' /\ TasksFit'
  <2>1. CASE Load(a)
    <3>1. PICK p \in Places \ BackedPlaces : Goes(a, p, task[a].seen) BY <2>1, LoadGoes
    <3> QED BY <1>1, <2>1, <3>1 DEF Load
  <2>2. CASE CheckEvidence(a)
    <3>1. PICK p \in Places, z \in SUBSET Evidence :
              Goes(a, p, z) /\ \A e \in z : e.id = task[a].id /\ e.version = task[a].version
      BY <2>2, CheckGoes DEF GoesOn
    <3>2. From(z, a) BY <3>1 DEF From
    <3>3. UNCHANGED <<stores, evidence>> BY <2>2 DEF CheckEvidence
    <3> QED BY <3>1, <3>2, <3>3, StoresFrom, FitGoes
  <2>3. CASE Persist(a)
    <3>1. PICK p \in Places : Goes(a, p, {}) BY <2>3, PersistGoes DEF GoesOn
    <3>2. From(corpus', a) /\ From(parents', a) /\ From(vectors', a) /\ From(evidence', a) /\ From({}, a)
      BY <2>3 DEF Persist, From, stores
    <3> QED BY <3>1, <3>2, FitGoes
  <2>4. CASE AddReadCorpus(a)
    BY <1>1, <2>4, ActorGoes DEF GoesOn, AddReadCorpus
  <2>5. CASE AddReadParents(a)
    BY <1>1, <2>5, ActorGoes DEF GoesOn, AddReadParents
  <2>6. CASE AddCorpus(a) \/ AddParents(a) \/ AddVectors(a)
    <3>1. PICK p, z : Goes(a, p, z) /\ z \subseteq task[a].seen
      BY <2>6, ActorGoes DEF GoesOn
    <3>2. Row(task[a]).id = task[a].id /\ Row(task[a]).version = task[a].version
      BY DEF Row
    <3>3. From(corpus', a) /\ From(parents', a) /\ From(vectors', a) /\ From(evidence', a) /\ From(z, a)
      BY <2>6, <3>1, <3>2 DEF AddCorpus, AddParents, AddVectors, From
    <3> QED BY <3>1, <3>3, FitGoes
  <2> QED BY <1>11, <2>1, <2>2, <2>3, <2>4, <2>5, <2>6 DEF Ingest
<1>12. ASSUME NEW a \in Actors, Fault(a) PROVE RowsFit' /\ TasksFit'
  <2>1. PICK p \in Places \ BackedPlaces : Goes(a, p, {}) BY <1>12, FaultGoes
  <2> QED BY <1>1, <1>12, <2>1 DEF Fault
<1>13. CASE Ended
  BY <1>13 DEF Ended, vars, stores, FitInv, RowsFit, TasksFit
<1>14. ASSUME NEW r \in Requests, NEW d \in Sources, StartWatch(r, d) PROVE RowsFit' /\ TasksFit'
  <2>1. Begun(r, 0, 0) /\ UNCHANGED <<stores, evidence>> BY <1>14, TasksBegin DEF StartWatch
  <2> QED BY <1>0, <1>3, <1>4, <2>1
<1>15. CASE Crash
  <2>1. UNCHANGED <<record, vectors, evidence, lastId>> BY <1>15 DEF Crash
  <2>2. \A x \in corpus' \cup parents' : Fits(x.id, x.version, record, lastId)
    BY <1>15, TornRows DEF FitInv, RowsFit, TasksFit, AllFit, Row
  <2>3. \A a \in Actors : task'[a] = task[a] \/ (task'[a].id = 0 /\ task'[a].version = 0 /\ task'[a].seen = {})
    BY <1>15 DEF Crash, NoTask, Doing
  <2>4. TasksFit'
    BY <1>4, <2>1, <2>3 DEF FitInv, TasksFit, AllFit
  <2>5. RowsFit'
    BY <2>1, <2>2 DEF FitInv, RowsFit, AllFit
  <2> QED BY <2>4, <2>5
<1> QED BY <1>2, <1>6, <1>7, <1>8, <1>9, <1>10, <1>11, <1>12, <1>13, <1>14, <1>15, Steps

LEMMA InitFits == Init => FitInv
BY DEF Init, NoTask, Doing, FitInv, RecordsFit, RowsFit, TasksFit, QueueFits, AllFit, Fits

LEMMA FitNext == Typed /\ Typed' /\ FitInv /\ [Next]_vars => FitInv' /\ (Grows \/ UNCHANGED vars)
<1> SUFFICES ASSUME Typed, Typed', FitInv, [Next]_vars
             PROVE  FitInv' /\ (Grows \/ UNCHANGED vars)
  OBVIOUS
<1>1. CASE Next
  <2>1. RecordsFit(record', lastId') /\ Evolves /\ Grows BY <1>1, RecordKept
  <2>2. QueueFits' BY <1>1, <2>1, QueueStep
  <2>3. RowsFit' /\ TasksFit' BY <1>1, <2>1, RowsStep
  <2> QED BY <2>1, <2>2, <2>3 DEF FitInv
<1>2. CASE UNCHANGED vars
  BY <1>2 DEF vars, stores, FitInv, RowsFit, TasksFit, QueueFits
<1> QED BY <1>1, <1>2

\* While a document lives its version only grows, and content registered over
\* other content gets a version no row and no artifact of the document has:
\* create_document_record counts from latest_version.
THEOREM VersionsGrow == Spec => VersionsOnlyGrow
<1>1. Grows \/ UNCHANGED vars => [Grows]_vars OBVIOUS
<1> QED BY <1>1, InitFits, FitNext, InitTyped, TypedStep, PTL DEF Spec, VersionsOnlyGrow, Grows
-----------------------------------------------------------------------------
(* No upload is left hanging.                                              *)

\* What will settle a record that is pending or indexing, or has left it so.
ByRequest(d) == \E r \in Requests : task[r].kind \in {"delete", "reindex"} /\ task[r].src = d

ByQueue(d) == \E i \in 1..Len(queue) : queue[i][1] = d /\ queue[i][2] = record[d].id

ByWorker(d) == \E w \in Workers : Running(w) /\ task[w].src = d /\ task[w].id = record[d].id

Settled(d) == d \in lost \/ ByRequest(d) \/ ByQueue(d) \/ ByWorker(d)

Hanging(d) == Known(d) /\ record[d].status \in {"pending", "indexing"}

KindInv ==
    \A a \in Actors :
        /\ task[a].at = "idle" => task[a].kind = "ingest"
        /\ task[a].at \in {"hash", "mark"} => task[a].kind = "reindex"
        /\ a \in Workers => task[a].kind = "ingest"

\* SettledWhenQuiet in states that are not quiet: every record that hangs has a
\* job, queued or running, for its own document, or one of the exceptions.
HangInv == KindInv /\ \A d \in Sources : Hanging(d) => Settled(d)

\* Actor a goes on with what it does.
Keeping(a) ==
    /\ Alone(a)
    /\ task'[a].kind = task[a].kind /\ task'[a].src = task[a].src /\ task'[a].id = task[a].id
    /\ task'[a].at \notin {"idle", "hash"}
    /\ task'[a].at = "mark" => task[a].at = "hash"
    /\ a \in Workers => task'[a].at # "over"

LEMMA KeepingBy ==
    ASSUME Typed, NEW a \in Actors, NEW p \in Places \ {"idle", "hash"}, NEW c \in Contents \cup {None},
           NEW s \in SUBSET (IndexRow \cup Evidence),
           \/ Move(a, p)
           \/ task' = [task EXCEPT ![a].at = p, ![a].seen = s]
           \/ task' = [task EXCEPT ![a].at = p, ![a].content = c],
           p = "mark" => task[a].at = "hash",
           a \in Workers => p # "over"
    PROVE  Keeping(a)
<1>1. PICK d \in Contents \cup {None}, z \in SUBSET (IndexRow \cup Evidence) :
          Becomes(a, With(task[a], p, d, z))
  BY Held, Updates
<1> DEFINE u == With(task[a], p, d, z)
<1>2. u.at = p /\ u.kind = task[a].kind /\ u.src = task[a].src /\ u.id = task[a].id
  BY Held, WithFields
<1>3. task' = [task EXCEPT ![a] = u] /\ task \in [Actors -> Task]
  BY <1>1, Held DEF Becomes
<1> HIDE DEF u
<1> QED BY <1>2, <1>3 DEF Keeping, Alone

LEMMA PassesKeep ==
    ASSUME Typed, NEW r \in Requests, Passes(r)
    PROVE  Keeping(r)
<1>0. r \in Actors /\ r \notin Workers BY DocumentsAssumption DEF Actors
<1>1. CASE ~HashFile(r)
  <2>1. PICK p \in {"clear", "over", "forget", "forget_again", "load"} : Move(r, p)
    BY <1>1 DEF Passes, ReuseUpload, ReplaceFile, Register, KeepFile, RemoveFile, Forget,
                MarkReindexing, Reload, EndReindex, WatchCleared, EndWatch
  <2>2. p \in Places \ {"idle", "hash"} /\ p # "mark"
    BY DEF Places, Clearing, Adding
  <2> QED BY <1>0, <2>1, <2>2, KeepingBy
<1>2. CASE HashFile(r)
  <2> DEFINE c == file[task[r].src]
  <2>1. c \in Contents \cup {None}
    BY <1>0, <1>2, Held DEF HashFile, Sound, Typed, TypeOK
  <2>2. PICK p \in {"over", "mark", "settle"} :
            /\ task' = [task EXCEPT ![r].at = p, ![r].content = c]
            /\ p = "mark" => task[r].at = "hash"
    BY <1>2 DEF HashFile
  <2>3. p \in Places \ {"idle", "hash"}
    BY DEF Places
  <2> QED BY <1>0, <2>1, <2>2, <2>3, KeepingBy
<1> QED BY <1>1, <1>2

LEMMA ActorKeeps ==
    ASSUME Typed, KindInv, NEW a \in Actors, Clear(a) \/ Ingest(a) \/ Fault(a)
    PROVE  Keeping(a)
<1>0. a \in Workers => task[a].kind = "ingest" BY DEF KindInv
<1>1. ASSUME NEW p \in {"clear_vectors", "clear_corpus", "clear_parents", "clear_parent_rows", "cleared",
                        "add", "add_corpus", "add_parents", "add_parent_rows", "add_vectors",
                        "check", "persist", "indexed", "failed", "over"},
             a \in Workers => p # "over",
             NEW c \in Contents \cup {None}, NEW z \in SUBSET (IndexRow \cup Evidence),
             \/ Move(a, p)
             \/ task' = [task EXCEPT ![a].at = p, ![a].seen = z]
             \/ task' = [task EXCEPT ![a].at = p, ![a].content = c]
      PROVE  Keeping(a)
  <2>1. p \in Places \ {"idle", "hash"} /\ p # "mark"
    BY <1>1 DEF Places, Clearing, Adding
  <2> QED BY <1>1, <2>1, KeepingBy
<1>2. None \in Contents \cup {None} /\ {} \in SUBSET (IndexRow \cup Evidence)
  OBVIOUS
<1>3. corpus \in SUBSET (IndexRow \cup Evidence) /\ parents \in SUBSET (IndexRow \cup Evidence)
  BY DEF Typed, TypeOK
<1>4. CASE Clear(a)
  BY <1>1, <1>2, <1>3, <1>4 DEF Clear, ClearReadCorpus, ClearVectors, ClearCorpus, ClearReadParents,
                                ClearParents
<1>5. CASE Load(a)
  <2> DEFINE c == file[task[a].src]
  <2>1. c \in Contents \cup {None}
    BY <1>5, Held DEF Load, Sound, Typed, TypeOK
  <2>2. PICK p \in {"failed", "over", "check"} :
            /\ task' = [task EXCEPT ![a].at = p, ![a].content = c]
            /\ task[a].kind = "ingest" => p # "over"
    BY <1>5 DEF Load, Failing, Clearing
  <2> HIDE DEF c
  <2> QED BY <1>0, <1>1, <1>2, <2>1, <2>2
<1>6. CASE CheckEvidence(a)
  <2> DEFINE new == Artifacts(task[a], file[task[a].src])
  <2>1. PICK p \in {"persist", "indexed", "add", "failed", "over"}, z \in {{new}, {}} :
            /\ task' = [task EXCEPT ![a].at = p, ![a].seen = z]
            /\ z = {new} => new.original # None
            /\ task[a].kind = "ingest" => p # "over"
    BY <1>6 DEF CheckEvidence, Failing, Clearing
  <2>2. task[a].src \in Sources /\ task[a].content \in Contents /\ new.original \in Contents \cup {None}
    BY <1>6, Held DEF CheckEvidence, Sound, ContentPlaces, Adding, Typed, TypeOK, Artifacts
  <2>3. new.original # None => new \in Evidence
    BY <2>2, Held DEF Artifacts, Evidence
  <2> HIDE DEF new
  <2>4. z \in SUBSET (IndexRow \cup Evidence)
    BY <2>1, <2>3
  <2> QED BY <1>0, <1>1, <1>2, <2>1, <2>4
<1>7. CASE Persist(a)
  <2>1. PICK p \in {"indexed", "add"} : task' = [task EXCEPT ![a].at = p, ![a].seen = {}]
    BY <1>7 DEF Persist
  <2> QED BY <1>1, <1>2, <2>1
<1>8. CASE Ingest(a) /\ ~Load(a) /\ ~CheckEvidence(a) /\ ~Persist(a)
  BY <1>1, <1>2, <1>3, <1>8 DEF Ingest, AddReadCorpus, AddCorpus, AddReadParents, AddParents, AddVectors
<1>9. CASE Fault(a)
  <2>1. PICK p \in {"failed", "cleared", "over"} :
            /\ task' = [task EXCEPT ![a].at = p, ![a].seen = {}]
            /\ task[a].kind = "ingest" => p # "over"
    BY <1>9 DEF Fault, Failing
  <2> QED BY <1>0, <1>1, <1>2, <2>1
<1> QED BY <1>4, <1>5, <1>6, <1>7, <1>8, <1>9

LEMMA KeepingKinds ==
    ASSUME KindInv, NEW a \in Actors, Keeping(a)
    PROVE  KindInv'
<1> SUFFICES ASSUME NEW b \in Actors
             PROVE  /\ task'[b].at = "idle" => task'[b].kind = "ingest"
                    /\ task'[b].at \in {"hash", "mark"} => task'[b].kind = "reindex"
                    /\ b \in Workers => task'[b].kind = "ingest"
  BY DEF KindInv
<1>1. CASE b = a BY <1>1 DEF KindInv, Keeping
<1>2. CASE b # a BY <1>2 DEF KindInv, Keeping, Alone
<1> QED BY <1>1, <1>2

\* Whoever settles d goes on, when its record keeps its id.
LEMMA SettlesOn ==
    ASSUME NEW a \in Actors, Keeping(a), NEW d \in Sources, Settled(d),
           d \in lost => d \in lost', record'[d].id = record[d].id,
           ByQueue(d) => ByQueue(d)'
    PROVE  Settled(d)'
<1>0. Requests \subseteq Actors /\ Workers \subseteq Actors BY DEF Actors
<1>1. ByRequest(d) => ByRequest(d)'
  BY <1>0 DEF ByRequest, Keeping, Alone
<1>2. ASSUME NEW w \in Workers, Running(w) PROVE Running(w)' /\ task'[w].src = task[w].src /\ task'[w].id = task[w].id
  <2>1. CASE w = a BY <2>1, <1>2 DEF Running, Keeping
  <2>2. CASE w # a BY <1>0, <2>2, <1>2 DEF Running, Keeping, Alone
  <2> QED BY <2>1, <2>2
<1>3. ByWorker(d) => ByWorker(d)'
  BY <1>2 DEF ByWorker
<1> QED BY <1>1, <1>3 DEF Settled

\* A step of actor a that concerns the record of source d at most, which is
\* settled or settles afterwards.
LEMMA HangsBy ==
    ASSUME HangInv, NEW a \in Actors, Keeping(a), NEW d, queue' = queue, lost \subseteq lost',
           \A e \in Sources \ {d} : record'[e] = record[e],
           d \in Sources => (Hanging(d)' => Settled(d)')
    PROVE  HangInv'
<1>1. KindInv' BY KeepingKinds DEF HangInv
<1>2. ASSUME NEW e \in Sources, Hanging(e)' PROVE Settled(e)'
  <2>1. CASE e = d BY <1>2, <2>1
  <2>2. CASE e # d
    <3>1. record'[e] = record[e] BY <2>2
    <3>2. Settled(e) BY <1>2, <3>1 DEF HangInv, Hanging, Known
    <3>3. ByQueue(e) => ByQueue(e)' BY <3>1 DEF ByQueue
    <3>4. e \in lost => e \in lost' OBVIOUS
    <3> QED BY <3>1, <3>2, <3>3, <3>4, SettlesOn
  <2> QED BY <2>1, <2>2
<1> QED BY <1>1, <1>2 DEF HangInv

LEMMA HangsOn ==
    ASSUME HangInv, NEW a \in Actors, Keeping(a), UNCHANGED <<record, queue>>, lost \subseteq lost'
    PROVE  HangInv'
<1>1. KindInv' BY KeepingKinds DEF HangInv
<1>2. ASSUME NEW e \in Sources, Hanging(e)' PROVE Settled(e)'
  <2>1. record'[e] = record[e] OBVIOUS
  <2>2. Settled(e) BY <1>2, <2>1 DEF HangInv, Hanging, Known
  <2>3. ByQueue(e) => ByQueue(e)' BY DEF ByQueue
  <2> QED BY <2>1, <2>2, <2>3, SettlesOn
<1> QED BY <1>1, <1>2 DEF HangInv

\* A task that starts was nobody's settler.
LEMMA HangsStarted ==
    ASSUME HangInv, NEW r \in Requests, Alone(r), task[r].at = "idle",
           UNCHANGED <<record, queue, lost>>,
           task'[r].at \notin {"idle", "mark"}, task'[r].at = "hash" => task'[r].kind = "reindex"
    PROVE  HangInv'
<1>0. r \notin Workers /\ Requests \subseteq Actors /\ Workers \subseteq Actors /\ task[r].kind = "ingest"
  BY DocumentsAssumption DEF Actors, HangInv, KindInv
<1>1. KindInv'
  <2> SUFFICES ASSUME NEW b \in Actors
               PROVE  /\ task'[b].at = "idle" => task'[b].kind = "ingest"
                      /\ task'[b].at \in {"hash", "mark"} => task'[b].kind = "reindex"
                      /\ b \in Workers => task'[b].kind = "ingest"
    BY DEF KindInv
  <2>1. CASE b = r BY <1>0, <2>1
  <2>2. CASE b # r BY <2>2 DEF HangInv, KindInv, Alone
  <2> QED BY <2>1, <2>2
<1>2. ASSUME NEW e \in Sources, Hanging(e)' PROVE Settled(e)'
  <2>1. Settled(e) BY <1>2 DEF HangInv, Hanging, Known
  <2>2. ByRequest(e) => ByRequest(e)'
    BY <1>0 DEF ByRequest, Alone
  <2>3. \A w \in Workers : task'[w] = task[w]
    BY <1>0 DEF Alone
  <2>4. ByWorker(e) => ByWorker(e)'
    BY <2>3 DEF ByWorker, Running
  <2>5. ByQueue(e) => ByQueue(e)' BY DEF ByQueue
  <2> QED BY <2>1, <2>2, <2>4, <2>5 DEF Settled
<1> QED BY <1>1, <1>2 DEF HangInv

\* Pending and indexing are the states that hang.
LEMMA StatusHangs ==
    ASSUME Typed, NEW d \in Sources, Known(d), NEW x \in Statuses
    PROVE  /\ [record[d] EXCEPT !.status = x].status = x
           /\ [record[d] EXCEPT !.status = x].id = record[d].id
           /\ \A c : [record[d] EXCEPT !.status = x, !.sha = c].status = x
BY RecordOf DEF Record

LEMMA HangsPasses ==
    ASSUME Typed, Typed', HangInv, NEW r \in Requests, Passes(r)
    PROVE  HangInv'
<1>0. r \in Actors /\ Keeping(r) BY PassesKeep DEF Actors
<1>a. PICK d : d = task[r].src OBVIOUS
<1>1. task'[r].kind = task[r].kind /\ task'[r].src = d
  BY <1>0, <1>a DEF Keeping
<1>2. CASE Register(r)
  <2> DEFINE new == Registered(d, task[r].content)
             x == <<d, new.id, new.version>>
  <2>1. d \in Sources BY <1>0, <1>a, <1>2, Held DEF Register, Sound
  <2>2. \A e \in Sources : record'[e] = IF e = d THEN new ELSE record[e]
    BY <1>a, <1>2, <2>1 DEF Register, Typed, TypeOK
  <2>3. queue' = Append(queue, x) /\ lost' = lost \ {d}
    BY <1>a, <1>2 DEF Register
  <2>4. x[1] = d /\ x[2] = new.id OBVIOUS
  <2> HIDE DEF x, new
  <2>5. /\ \A i \in 1..Len(queue) : i \in 1..Len(queue') /\ queue'[i] = queue[i]
        /\ Len(queue') \in 1..Len(queue') /\ queue'[Len(queue')] = x
    BY <2>3 DEF Typed, TypeOK
  <2>6. KindInv' BY <1>0, KeepingKinds DEF HangInv
  <2>7. ASSUME NEW e \in Sources, Hanging(e)' PROVE Settled(e)'
    <3>1. CASE e = d
      <4>1. record'[e].id = x[2] /\ x[1] = e BY <2>2, <2>4, <3>1
      <4> QED BY <2>5, <4>1 DEF Settled, ByQueue
    <3>2. CASE e # d
      <4>1. record'[e] = record[e] BY <2>2, <3>2
      <4>2. Settled(e) BY <2>7, <4>1 DEF HangInv, Hanging, Known
      <4>3. ByQueue(e) => ByQueue(e)' BY <2>5, <4>1 DEF ByQueue
      <4>4. e \in lost => e \in lost' BY <2>3, <3>2
      <4> QED BY <1>0, <4>1, <4>2, <4>3, <4>4, SettlesOn
    <3> QED BY <3>1, <3>2
  <2> QED BY <2>6, <2>7 DEF HangInv
<1>3. CASE KeepFile(r)
  <2>1. ByRequest(d)' BY <1>1, <1>3 DEF KeepFile, ByRequest
  <2>2. queue' = queue /\ lost' = lost /\ \A e \in Sources \ {d} : record'[e] = record[e]
    BY <1>a, <1>3 DEF KeepFile, history, Typed, TypeOK
  <2>3. d \in Sources => (Hanging(d)' => Settled(d)')
    BY <2>1 DEF Settled
  <2>4. lost \subseteq lost' BY <2>2
  <2> QED BY <1>0, <2>2, <2>3, <2>4, HangsBy
<1>4. CASE MarkReindexing(r)
  <2>1. task[r].kind = "reindex" BY <1>0, <1>4 DEF MarkReindexing, HangInv, KindInv
  <2>2. ByRequest(d)' BY <1>1, <2>1 DEF ByRequest
  <2>3. queue' = queue /\ lost' = lost /\ \A e \in Sources \ {d} : record'[e] = record[e]
    BY <1>a, <1>4 DEF MarkReindexing, history, Typed, TypeOK
  <2>4. d \in Sources => (Hanging(d)' => Settled(d)')
    BY <2>2 DEF Settled
  <2>5. lost \subseteq lost' BY <2>3
  <2> QED BY <1>0, <2>3, <2>4, <2>5, HangsBy
<1>5. CASE EndReindex(r)
  <2>1. d \in Sources BY <1>0, <1>a, <1>5, Held DEF EndReindex, Sound
  <2>2. ~Hanging(d)'
    <3>1. record'[d] = WithHash(task[r], "ready")
      BY <1>a, <1>5, <2>1 DEF EndReindex, Typed, TypeOK
    <3>2. CASE Known(d)
      <4>1. record'[d] = [record[d] EXCEPT !.status = "ready", !.sha = task[r].content]
        BY <1>a, <3>1, <3>2 DEF WithHash
      <4>2. record'[d].status = "ready"
        BY <2>1, <3>2, <4>1, StatusHangs DEF Statuses
      <4> QED BY <4>2 DEF Hanging
    <3>3. CASE ~Known(d)
      <4>1. record'[d] = None BY <1>a, <3>1, <3>3 DEF WithHash
      <4> QED BY <4>1 DEF Hanging, Known
    <3> QED BY <3>2, <3>3
  <2>3. queue' = queue /\ lost' = lost /\ \A e \in Sources \ {d} : record'[e] = record[e]
    BY <1>a, <1>5 DEF EndReindex, history, Typed, TypeOK
  <2>4. lost \subseteq lost' BY <2>3
  <2> QED BY <1>0, <2>2, <2>3, <2>4, HangsBy
<1>6. CASE Forget(r)
  <2>1. d \in Sources BY <1>0, <1>a, <1>6, Held DEF Forget, Sound
  <2>2. record'[d] = None BY <1>a, <1>6, <2>1 DEF Forget, Typed, TypeOK
  <2>3. queue' = queue /\ lost' = lost /\ \A e \in Sources \ {d} : record'[e] = record[e]
    BY <1>a, <1>6 DEF Forget, history, Typed, TypeOK
  <2>4. ~Hanging(d)' BY <2>2 DEF Hanging, Known
  <2>5. lost \subseteq lost' BY <2>3
  <2> QED BY <1>0, <2>3, <2>4, <2>5, HangsBy
<1>7. CASE UNCHANGED <<record, queue, lost>>
  BY <1>0, <1>7, HangsOn
<1>8. UNCHANGED <<record, queue, lost>> \/ Register(r) \/ KeepFile(r) \/ MarkReindexing(r)
      \/ EndReindex(r) \/ Forget(r)
  <2>1. ASSUME NEW e \in Sources, StartReindex(r, e) PROVE UNCHANGED <<record, queue, lost>>
    BY <2>1 DEF StartReindex, Begins, history
  <2>2. CASE \E c \in Contents : ReuseUpload(r, c)
    BY <2>2 DEF ReuseUpload, history
  <2>3. CASE ReplaceFile(r) \/ RemoveFile(r) \/ Reload(r) \/ HashFile(r) \/ WatchCleared(r) \/ EndWatch(r)
    BY <2>3 DEF ReplaceFile, RemoveFile, Reload, HashFile, WatchCleared, EndWatch, history
  <2> QED BY <2>1, <2>2, <2>3 DEF Passes
<1> QED BY <1>2, <1>3, <1>4, <1>5, <1>6, <1>7, <1>8

\* A job that starts settles its document from now on, and one that ends has
\* settled it.
LEMMA HangsTaken ==
    ASSUME Typed, HangInv, NEW w \in Workers, TakeJob(w)
    PROVE  HangInv'
<1> DEFINE d == Head(queue)[1]
           id == Head(queue)[2]
<1>0. /\ w \in Actors /\ Workers \subseteq Actors /\ w \notin Requests
      /\ task[w].at = "idle" /\ queue # << >> /\ queue' = Tail(queue) /\ lost' = lost
  BY DocumentsAssumption DEF Actors, TakeJob, history
<1>1. d \in Sources /\ Head(queue) = queue[1] BY <1>0, Queued DEF Typed, TypeOK
<1>2. \A i \in 2..Len(queue) : i - 1 \in 1..Len(queue') /\ queue'[i - 1] = queue[i]
  BY <1>0 DEF Typed, TypeOK
<1>3. Alone(w) /\ task'[w].kind = "ingest" /\ task'[w].at \notin {"hash", "mark"}
  <2>1. CASE HasRecord(d, id)
    <3>1. task' = [task EXCEPT ![w] = Doing("load", "ingest", d, None, id, Head(queue)[3])]
      BY <2>1 DEF TakeJob
    <3>2. task \in [Actors -> Task] BY DEF Typed, TypeOK
    <3>3. task'[w] = Doing("load", "ingest", d, None, id, Head(queue)[3])
      BY <1>0, <3>1, <3>2
    <3> QED BY <3>1, <3>2, <3>3 DEF Alone, Doing
  <2>2. CASE ~HasRecord(d, id)
    BY <1>0, <2>2 DEF TakeJob, Alone, HangInv, KindInv
  <2> QED BY <2>1, <2>2
<1>4. KindInv'
  <2> SUFFICES ASSUME NEW b \in Actors
               PROVE  /\ task'[b].at = "idle" => task'[b].kind = "ingest"
                      /\ task'[b].at \in {"hash", "mark"} => task'[b].kind = "reindex"
                      /\ b \in Workers => task'[b].kind = "ingest"
    BY DEF KindInv
  <2>1. CASE b = w BY <1>3, <2>1
  <2>2. CASE b # w BY <1>3, <2>2 DEF HangInv, KindInv, Alone
  <2> QED BY <2>1, <2>2
<1>5. ASSUME NEW e \in Sources, record'[e] = record[e], Hanging(e), ~(e = d /\ record[e].id = id)
      PROVE  Settled(e)'
  <2>1. Settled(e) BY <1>5 DEF HangInv
  <2>2. ByRequest(e) => ByRequest(e)'
    BY <1>0, <1>3 DEF ByRequest, Alone, Actors
  <2>3. ByWorker(e) => ByWorker(e)'
    BY <1>0, <1>3, <1>5 DEF ByWorker, Running, Alone
  <2>4. ASSUME ByQueue(e) PROVE ByQueue(e)'
    <3>1. PICK i \in 1..Len(queue) : queue[i][1] = e /\ queue[i][2] = record[e].id BY <2>4 DEF ByQueue
    <3>2. i # 1 BY <1>1, <1>5, <3>1
    <3>3. i \in 2..Len(queue) BY <3>2 DEF Typed, TypeOK
    <3> QED BY <1>2, <1>5, <3>1, <3>3 DEF ByQueue
  <2> QED BY <1>0, <2>1, <2>2, <2>3, <2>4 DEF Settled
<1>6. ASSUME NEW e \in Sources, Hanging(e)' PROVE Settled(e)'
  <2>1. CASE ~HasRecord(d, id)
    <3>1. record' = record BY <2>1 DEF TakeJob
    <3>2. Hanging(e) BY <1>6, <3>1 DEF Hanging, Known
    <3>3. ~(e = d /\ record[e].id = id) BY <2>1, <3>2 DEF HasRecord, Hanging
    <3> QED BY <1>5, <3>1, <3>2, <3>3
  <2>2. CASE HasRecord(d, id) /\ e # d
    <3>1. record'[e] = record[e] BY <2>2, <1>1 DEF TakeJob, Typed, TypeOK
    <3>2. Hanging(e) BY <1>6, <3>1 DEF Hanging, Known
    <3> QED BY <1>5, <2>2, <3>1, <3>2
  <2>3. CASE HasRecord(d, id) /\ e = d
    <3>1. /\ task'[w] = Doing("load", "ingest", d, None, id, Head(queue)[3])
          /\ record'[d] = [record[d] EXCEPT !.status = "indexing"]
      BY <1>0, <1>1, <2>3 DEF TakeJob, Typed, TypeOK
    <3>2. record'[d].id = record[d].id BY <1>1, <2>3, <3>1, StatusHangs DEF HasRecord, Statuses
    <3>3. task'[w].at = "load" /\ task'[w].src = d /\ task'[w].id = id BY <3>1 DEF Doing
    <3> QED BY <2>3, <3>2, <3>3 DEF Settled, ByWorker, Running, HasRecord
  <2> QED BY <2>1, <2>2, <2>3
<1> QED BY <1>4, <1>6 DEF HangInv

LEMMA HangsEnded ==
    ASSUME Typed, HangInv, NEW w \in Workers, EndJob(w)
    PROVE  HangInv'
<1> DEFINE d == task[w].src
           id == task[w].id
<1>0. /\ w \in Actors /\ Workers \subseteq Actors /\ w \notin Requests
      /\ queue' = queue /\ lost' = lost /\ Alone(w) /\ task'[w] = NoTask
  BY DocumentsAssumption DEF Actors, EndJob, history, Alone, Typed, TypeOK
<1>1. d \in Sources BY <1>0, Held DEF EndJob, Sound
<1>2. KindInv'
  <2> SUFFICES ASSUME NEW b \in Actors
               PROVE  /\ task'[b].at = "idle" => task'[b].kind = "ingest"
                      /\ task'[b].at \in {"hash", "mark"} => task'[b].kind = "reindex"
                      /\ b \in Workers => task'[b].kind = "ingest"
    BY DEF KindInv
  <2>1. CASE b = w BY <1>0, <2>1 DEF NoTask, Doing
  <2>2. CASE b # w BY <1>0, <2>2 DEF HangInv, KindInv, Alone
  <2> QED BY <2>1, <2>2
<1>3. ASSUME NEW e \in Sources, Hanging(e)' PROVE Settled(e)'
  <2>1. ~(HasRecord(d, id) /\ e = d)
    <3> SUFFICES ASSUME HasRecord(d, id), e = d PROVE FALSE OBVIOUS
    <3>1. record'[d] = [record[d] EXCEPT !.status = JobStatus(task[w])]
      BY <1>1 DEF EndJob, Typed, TypeOK
    <3>2. JobStatus(task[w]) \in {"ready", "failed"} BY DEF JobStatus
    <3>3. record'[d].status \in {"ready", "failed"}
      BY <1>1, <3>1, <3>2, StatusHangs DEF HasRecord, Statuses
    <3> QED BY <1>3, <3>3 DEF Hanging
  <2>2. record'[e] = record[e] BY <1>1, <2>1 DEF EndJob, Typed, TypeOK
  <2>3. Settled(e) BY <1>3, <2>2 DEF HangInv, Hanging, Known
  <2>4. ~(e = d /\ record[e].id = id) BY <1>3, <2>1, <2>2 DEF HasRecord, Hanging, Known
  <2>5. ByRequest(e) => ByRequest(e)'
    BY <1>0 DEF ByRequest, Alone, Actors
  <2>6. ByWorker(e) => ByWorker(e)'
    BY <1>0, <2>2, <2>4 DEF ByWorker, Running, Alone
  <2>7. ByQueue(e) => ByQueue(e)' BY <1>0, <2>2 DEF ByQueue
  <2> QED BY <1>0, <2>3, <2>5, <2>6, <2>7 DEF Settled
<1> QED BY <1>2, <1>3 DEF HangInv

\* A kill makes lost whatever had somebody working for it.
LEMMA HangsKilled ==
    ASSUME Typed, HangInv, Crash
    PROVE  HangInv'
<1>0. /\ Requests \subseteq Actors /\ Workers \subseteq Actors
      /\ record' = record /\ lost' = lost \cup InFlight
  BY DEF Actors, Crash
<1>1. \A a \in Actors : task'[a] = IF ~Running(a) THEN task[a]
                                  ELSE IF a \in Requests THEN [NoTask EXCEPT !.at = "over"] ELSE NoTask
  BY DEF Crash
<1>2. NoTask.kind = "ingest" /\ NoTask.at = "idle" /\ [NoTask EXCEPT !.at = "over"].at = "over"
  BY DEF NoTask, Doing
<1>3. KindInv'
  <2> SUFFICES ASSUME NEW b \in Actors
               PROVE  /\ task'[b].at = "idle" => task'[b].kind = "ingest"
                      /\ task'[b].at \in {"hash", "mark"} => task'[b].kind = "reindex"
                      /\ b \in Workers => task'[b].kind = "ingest"
    BY DEF KindInv
  <2>1. CASE ~Running(b) BY <1>1, <2>1 DEF HangInv, KindInv
  <2>2. CASE Running(b) BY <1>1, <1>2, <2>2, DocumentsAssumption
  <2> QED BY <2>1, <2>2
<1>4. ASSUME NEW e \in Sources, Hanging(e)' PROVE Settled(e)'
  <2>1. Settled(e) BY <1>0, <1>4 DEF HangInv, Hanging, Known
  <2>2. ASSUME ByRequest(e) PROVE e \in lost' \/ ByRequest(e)'
    <3>1. PICK r \in Requests : task[r].kind \in {"delete", "reindex"} /\ task[r].src = e
      BY <2>2 DEF ByRequest
    <3>2. CASE Running(r) BY <1>0, <3>1, <3>2 DEF InFlight
    <3>3. CASE ~Running(r) BY <1>0, <1>1, <3>1, <3>3 DEF ByRequest
    <3> QED BY <3>2, <3>3
  <2>3. ByWorker(e) => e \in lost'
    BY <1>0 DEF ByWorker, InFlight
  <2>4. ByQueue(e) => e \in lost'
    <3>1. DOMAIN queue = 1..Len(queue) BY DEF Typed, TypeOK
    <3> QED BY <1>0, <3>1 DEF ByQueue, InFlight
  <2> QED BY <1>0, <2>1, <2>2, <2>3, <2>4 DEF Settled
<1> QED BY <1>3, <1>4 DEF HangInv

LEMMA HangStep ==
    ASSUME Typed, Typed', HangInv, Next
    PROVE  HangInv'
<1>0. Requests \subseteq Actors /\ task \in [Actors -> Task] BY DEF Actors, Typed, TypeOK
<1>1. ASSUME NEW r \in Requests, task[r].at = "idle", UNCHANGED <<record, queue, lost>>,
             NEW p \in {"store", "clear", "hash"}, NEW k, NEW d, NEW c, NEW id, NEW version,
             p = "hash" => k = "reindex",
             task' = [task EXCEPT ![r] = Doing(p, k, d, c, id, version)]
      PROVE  HangInv'
  <2>1. task'[r].at = p /\ task'[r].kind = k /\ Alone(r)
    BY <1>0, <1>1 DEF Doing, Alone
  <2> QED BY <1>1, <2>1, HangsStarted
<1>2. ASSUME NEW r \in Requests, NEW d \in Sources, NEW c \in Contents, StartUpload(r, d, c) PROVE HangInv'
  BY <1>1, <1>2 DEF StartUpload, Begins
<1>3. ASSUME NEW r \in Requests, NEW d \in Sources, StartDelete(r, d) PROVE HangInv'
  <2>1. PICK k \in {"delete", "remove"} : task' = [task EXCEPT ![r] = For(k, d, "clear")]
    BY <1>3 DEF StartDelete
  <2>2. task' = [task EXCEPT ![r] = Doing("clear", k, d, None, record[d].id, record[d].version)]
    BY <2>1 DEF For
  <2>3. UNCHANGED <<record, queue, lost>> /\ task[r].at = "idle"
    BY <1>3 DEF StartDelete, Begins
  <2> QED BY <1>1, <2>2, <2>3
<1>4. ASSUME NEW r \in Requests, NEW d \in Sources, StartReindex(r, d), ~Move(r, "over") PROVE HangInv'
  BY <1>1, <1>4 DEF StartReindex, Begins, For
<1>5. ASSUME NEW r \in Requests, NEW d \in Sources, StartWatch(r, d) PROVE HangInv'
  BY <1>1, <1>5 DEF StartWatch
<1>6. ASSUME NEW r \in Requests, Passes(r) PROVE HangInv'
  BY <1>6, HangsPasses
<1>7. ASSUME NEW w \in Workers, TakeJob(w) \/ EndJob(w) PROVE HangInv'
  BY <1>7, HangsTaken, HangsEnded
<1>8. ASSUME NEW a \in Actors, Clear(a) \/ Ingest(a) \/ Fault(a) PROVE HangInv'
  <2>1. Keeping(a) BY <1>8, ActorKeeps DEF HangInv
  <2>2. UNCHANGED <<record, queue, lost>>
    BY <1>8 DEF Clear, Ingest, ClearReadCorpus, ClearVectors, ClearCorpus, ClearReadParents, ClearParents,
                Load, CheckEvidence, Persist, AddReadCorpus, AddCorpus, AddReadParents, AddParents,
                AddVectors, Fault, history
  <2> QED BY <2>1, <2>2, HangsOn
<1>9. CASE Crash BY <1>9, HangsKilled
<1>10. CASE Ended
  BY <1>10 DEF Ended, vars, history, HangInv, KindInv, Hanging, Known, Settled, ByRequest, ByQueue,
               ByWorker, Running
<1> QED BY <1>2, <1>3, <1>4, <1>5, <1>6, <1>7, <1>8, <1>9, <1>10, Steps

LEMMA InitHangs == Init => HangInv
BY DEF Init, NoTask, Doing, HangInv, KindInv, Hanging, Known

LEMMA HangNext == Typed /\ Typed' /\ HangInv /\ [Next]_vars => HangInv'
<1> SUFFICES ASSUME Typed, Typed', HangInv, [Next]_vars PROVE HangInv' OBVIOUS
<1>1. CASE Next BY <1>1, HangStep
<1>2. CASE UNCHANGED vars
  BY <1>2 DEF vars, history, HangInv, KindInv, Hanging, Known, Settled, ByRequest, ByQueue, ByWorker,
              Running
<1> QED BY <1>1, <1>2

\* When nothing runs and nothing is queued, a record is pending or indexing only
\* for a delete that kept the file, a re-index that ended early, or a kill:
\* run_ingest_job writes an outcome whatever happens in it.
THEOREM NothingHangs == Spec => []SettledWhenQuiet
<1>1. HangInv => SettledWhenQuiet
  <2> SUFFICES ASSUME HangInv, Quiet, NEW d \in Sources, Hanging(d)
               PROVE  d \in lost \/ ByRequest(d)
    BY DEF SettledWhenQuiet, Hanging, ByRequest
  <2>1. ~ByQueue(d) BY DEF Quiet, ByQueue
  <2>2. ~ByWorker(d) BY DEF Quiet, ByWorker, Actors
  <2> QED BY <2>1, <2>2 DEF HangInv, Settled
<1> QED BY <1>1, InitHangs, HangNext, InitTyped, TypedStep, PTL DEF Spec

-----------------------------------------------------------------------------
(***************************************************************************)
(* What operations leave behind that nothing runs beside.                  *)
(*                                                                         *)
(* Follows(d, strict) says of source d that nothing works for it and its   *)
(* rows are as they should be, or that one task works for it, by itself,   *)
(* and has come to a certain point, or that its job waits for a worker.    *)
(* With strict it says so of every store and of what deletes and           *)
(* re-indexes do too, which is true as long as operations run one after    *)
(* another; without, of what an upload repairs.                            *)
(***************************************************************************)
CorpusPlaces == {"clear_vectors", "clear_corpus", "add_corpus"}
ParentPlaces == {"clear_parent_rows", "add_parent_rows"}

\* Nothing works for d, and what runs will write back d's rows as they are.
Apart(d) ==
    /\ d \notin InFlight
    /\ \A a \in Actors :
         /\ task[a].at \in CorpusPlaces => RowsOf(d, task[a].seen) = RowsOf(d, corpus)
         /\ task[a].at \in ParentPlaces => RowsOf(d, task[a].seen) = RowsOf(d, parents)

Only(a) == Running(a) /\ queue = << >> /\ \A b \in Actors \ {a} : ~Running(b)

Ready(d) == Known(d) /\ record[d].status = "ready"

Empty(d, strict) ==
    /\ RowsOf(d, corpus) = {} /\ RowsOf(d, parents) = {}
    /\ strict => RowsOf(d, vectors) = {}

Evident(d) ==
    \E e \in evidence : /\ e.id = record[d].id /\ e.version = record[d].version
                        /\ e.original = file[d] /\ e.parsed = file[d]

Full(d, strict) ==
    /\ RowsOf(d, corpus) = Current(d) /\ RowsOf(d, parents) = Current(d)
    /\ Current(d) \subseteq vectors
    /\ strict => RowsOf(d, vectors) = Current(d) /\ Evident(d)

Rest(d, strict) ==
    /\ Ready(d) => Full(d, strict)
    /\ strict => /\ ~Ready(d) => Empty(d, TRUE)
                 /\ file[d] = IF Known(d) THEN record[d].sha ELSE None

\* The task works for the document that its source's record names.
Own(a) ==
    LET d == task[a].src IN
    /\ Known(d) /\ record[d].id = task[a].id /\ record[d].version = task[a].version
    /\ file[d] = record[d].sha

\* Before it clears, ...
Opens(a, strict) ==
    LET t == task[a] IN
    \/ t.at = "store" /\ t.kind = "upload" /\ (strict => Rest(t.src, TRUE))
    \/ /\ t.at \in {"hash", "mark"} /\ t.kind = "reindex" /\ strict /\ Own(a) /\ Rest(t.src, TRUE)
       /\ t.at = "mark" => t.content = file[t.src]

\* ... while it clears, ...
Clears(a, strict) ==
    LET t == task[a]
        d == t.src IN
    /\ t.at \in Clearing \cup {"cleared"}
    /\ \/ t.kind = "upload" /\ t.content = file[d]
       \/ t.kind \in {"delete", "remove", "reindex"} /\ strict /\ Own(a)
    /\ t.kind = "reindex" => ~Ready(d)
    /\ t.at \in {"clear_vectors", "clear_corpus"} => t.seen = corpus
    /\ t.at = "clear_parent_rows" => t.seen = parents
    /\ \A row \in RowsOf(d, corpus) \cup RowsOf(d, parents) : Selected(t, row)
    /\ t.at \in {"clear_parents", "clear_parent_rows", "cleared"} => RowsOf(d, corpus) = {}
    /\ t.at = "cleared" => RowsOf(d, parents) = {}
    /\ strict => IF t.at \in {"clear", "clear_vectors"} THEN RowsOf(d, vectors) \subseteq corpus
                 ELSE RowsOf(d, vectors) = {}

\* ... while it forgets the document whose file it has removed, ...
Forgets(a, strict) ==
    LET t == task[a] IN
    /\ t.at \in {"forget", "forget_again"} /\ t.kind = "remove" /\ strict
    /\ file[t.src] = None /\ Empty(t.src, TRUE)
    /\ t.at = "forget_again" => ~Known(t.src)

RowsAdded == {"add", "add_corpus", "add_parents", "add_parent_rows", "add_vectors"}
CorpusDone == {"add_parents", "add_parent_rows", "add_vectors", "indexed", "settle"}
ParentsDone == {"add_vectors", "indexed", "settle"}
AllDone == {"indexed", "settle"}

\* ... and while it indexes.
Indexes(a, strict) ==
    LET t == task[a]
        d == t.src IN
    /\ t.at \in Adding \cup {"indexed", "settle", "failed"}
    /\ t.kind = "ingest" \/ (strict /\ t.kind = "reindex")
    /\ Own(a) /\ ~Ready(d)
    /\ t.at \notin {"load", "indexed", "failed"} => t.content = file[d]
    /\ t.at = "add_corpus" => t.seen = corpus
    /\ t.at = "add_parent_rows" => t.seen = parents
    /\ t.at = "persist" => t.seen = {Artifacts(t, file[d])}
    /\ t.at \in RowsAdded => Current(d) = {Row(t)} /\ (strict => Evident(d))
    /\ RowsOf(d, corpus) = IF t.at \in CorpusDone THEN Current(d) ELSE {}
    /\ RowsOf(d, parents) = IF t.at \in ParentsDone THEN Current(d) ELSE {}
    /\ IF t.at \in AllDone THEN Full(d, strict) ELSE strict => RowsOf(d, vectors) = {}

Phase(a, strict) == Opens(a, strict) \/ Clears(a, strict) \/ Forgets(a, strict) \/ Indexes(a, strict)

Waits(d, strict) ==
    /\ Known(d) /\ queue = << <<d, record[d].id, record[d].version>> >>
    /\ file[d] = record[d].sha /\ ~Ready(d)
    /\ Empty(d, strict)
    /\ \A a \in Actors : ~Running(a)

Follows(d, strict) ==
    \/ Apart(d) /\ Rest(d, strict)
    \/ \E a \in Actors : Only(a) /\ task[a].src = d /\ Phase(a, strict)
    \/ Waits(d, strict)

FollowInv ==
    /\ \A d \in fresh : Follows(d, FALSE)
    /\ ~disturbed => \A d \in Sources : Follows(d, TRUE)

\* Actor a's task goes to p with content c and rows s.
Turns(a, p, c, s) ==
    /\ Alone(a)
    /\ task'[a].at = p /\ task'[a].content = c /\ task'[a].seen = s
    /\ task'[a].kind = task[a].kind /\ task'[a].src = task[a].src
    /\ task'[a].id = task[a].id /\ task'[a].version = task[a].version

LEMMA Turning ==
    ASSUME Typed, NEW a \in Actors, NEW p \in Places, NEW c \in Contents \cup {None},
           NEW s \in SUBSET (IndexRow \cup Evidence)
    PROVE  /\ Move(a, p) => Turns(a, p, task[a].content, task[a].seen)
           /\ task' = [task EXCEPT ![a].at = p, ![a].seen = s] => Turns(a, p, task[a].content, s)
           /\ task' = [task EXCEPT ![a].at = p, ![a].content = c] => Turns(a, p, c, task[a].seen)
<1>1. \A d \in Contents \cup {None}, z \in SUBSET (IndexRow \cup Evidence) :
         Becomes(a, With(task[a], p, d, z)) => Turns(a, p, d, z)
  <2> SUFFICES ASSUME NEW d \in Contents \cup {None}, NEW z \in SUBSET (IndexRow \cup Evidence),
                      Becomes(a, With(task[a], p, d, z))
               PROVE  Turns(a, p, d, z)
    OBVIOUS
  <2> DEFINE u == With(task[a], p, d, z)
  <2>1. u.at = p /\ u.content = d /\ u.seen = z /\ u.id = task[a].id /\ u.version = task[a].version
        /\ u.kind = task[a].kind /\ u.src = task[a].src
    BY Held, WithFields
  <2>2. task' = [task EXCEPT ![a] = u] /\ task \in [Actors -> Task]
    BY Held DEF Becomes
  <2> HIDE DEF u
  <2> QED BY <2>1, <2>2 DEF Turns, Alone
<1>2. /\ Move(a, p) => Becomes(a, With(task[a], p, task[a].content, task[a].seen))
      /\ task' = [task EXCEPT ![a].at = p, ![a].seen = s] => Becomes(a, With(task[a], p, task[a].content, s))
      /\ task' = [task EXCEPT ![a].at = p, ![a].content = c] => Becomes(a, With(task[a], p, c, task[a].seen))
  BY Held, Updates
<1>3. task[a].content \in Contents \cup {None} /\ task[a].seen \in SUBSET (IndexRow \cup Evidence)
  BY Held
<1> QED BY <1>1, <1>2, <1>3

-----------------------------------------------------------------------------
(* A source that nothing works for.                                        *)

\* What a task writes back has d's rows as it read them, unless it works for d.
LEMMA RowsApart ==
    ASSUME NEW d, NEW a \in Actors, task[a].src # d
    PROVE  /\ RowsOf(d, task[a].seen \ Matching(task[a])) = RowsOf(d, task[a].seen)
           /\ RowsOf(d, task[a].seen \cup {Row(task[a])}) = RowsOf(d, task[a].seen)
           /\ RowsOf(d, vectors \ Matching(task[a])) = RowsOf(d, vectors)
           /\ RowsOf(d, vectors \cup {Row(task[a])}) = RowsOf(d, vectors)
BY DEF RowsOf, Matching, Selected, Row

Same(d) ==
    /\ file'[d] = file[d] /\ record'[d] = record[d]
    /\ RowsOf(d, corpus') = RowsOf(d, corpus) /\ RowsOf(d, parents') = RowsOf(d, parents)
    /\ RowsOf(d, vectors') = RowsOf(d, vectors)

\* The others write back what they read, which is still d's rows.
LEMMA ApartBy ==
    ASSUME NEW d, Apart(d), NEW a \in Actors, Alone(a), d \notin InFlight', Same(d),
           task'[a].at \in CorpusPlaces => RowsOf(d, task'[a].seen) = RowsOf(d, corpus'),
           task'[a].at \in ParentPlaces => RowsOf(d, task'[a].seen) = RowsOf(d, parents')
    PROVE  Apart(d)'
<1>1. \A b \in Actors : /\ task'[b].at \in CorpusPlaces => RowsOf(d, task'[b].seen) = RowsOf(d, corpus')
                        /\ task'[b].at \in ParentPlaces => RowsOf(d, task'[b].seen) = RowsOf(d, parents')
  BY DEF Apart, Alone, Same
<1>2. (d \notin InFlight)'
  OBVIOUS
<1>3. (\A b \in Actors : /\ task[b].at \in CorpusPlaces => RowsOf(d, task[b].seen) = RowsOf(d, corpus)
                         /\ task[b].at \in ParentPlaces => RowsOf(d, task[b].seen) = RowsOf(d, parents))'
  BY <1>1 
<1> QED BY <1>2, <1>3 DEF Apart

LEMMA FlightIs ==
    ASSUME Typed
    PROVE  /\ \A a \in Actors : Running(a) => task[a].src \in InFlight
           /\ queue # << >> => Head(queue)[1] \in InFlight
           /\ InFlight = {} <=> Quiet
<1>1. queue \in Seq(Sources \X Nat \X (Nat \ {0})) /\ DOMAIN queue = 1..Len(queue)
  BY DEF Typed, TypeOK
<1>2. queue # << >> => 1 \in DOMAIN queue /\ Head(queue) = queue[1]
  BY <1>1
<1>3. \A a \in Actors : Running(a) => task[a].src \in InFlight
  BY DEF InFlight
<1>4. queue # << >> => Head(queue)[1] \in InFlight
  BY <1>2 DEF InFlight
<1>5. Quiet => InFlight = {}
  BY <1>1 DEF Quiet, InFlight
<1> QED BY <1>3, <1>4, <1>5 DEF Quiet

\* A step of a task that does not work for d leaves what belongs to d alone.
LEMMA ApartSame ==
    ASSUME Typed, NEW d \in Sources, Apart(d), NEW a \in Actors,
           Passes(a) \/ (a \in Workers /\ EndJob(a)) \/ Clear(a) \/ Ingest(a) \/ Fault(a)
    PROVE  Same(d)
<1>1. task[a].at # "idle" /\ task[a].at # "over" => task[a].src # d
  BY FlightIs DEF Apart, Running
<1>2. CASE Passes(a)
  <2>1. \/ UNCHANGED <<file, record>>
        \/ /\ task[a].at \notin {"idle", "over"}
           /\ file' = file \/ \E c : file' = [file EXCEPT ![task[a].src] = c]
           /\ record' = record \/ \E m : record' = [record EXCEPT ![task[a].src] = m]
    BY <1>2 DEF Passes, ReuseUpload, ReplaceFile, Register, KeepFile, RemoveFile, Forget, MarkReindexing,
                Reload, EndReindex, HashFile, WatchCleared, EndWatch, StartReindex
  <2>2. UNCHANGED stores
    BY <1>2 DEF Passes, ReuseUpload, ReplaceFile, Register, KeepFile, RemoveFile, Forget, MarkReindexing,
                Reload, EndReindex, HashFile, WatchCleared, EndWatch, StartReindex
  <2>3. file'[d] = file[d] /\ record'[d] = record[d]
    BY <1>1, <2>1 DEF Typed, TypeOK
  <2> QED BY <2>2, <2>3 DEF Same, stores
<1>3. CASE EndJob(a)
  <2>1. UNCHANGED <<file, stores>> /\ (record' = record \/ \E s : record' = [record EXCEPT ![task[a].src].status = s])
        /\ task[a].at \notin {"idle", "over"}
    BY <1>3 DEF EndJob
  <2> QED BY <1>1, <2>1 DEF Same, stores, Typed, TypeOK
<1>4. CASE Clear(a) \/ Ingest(a) \/ Fault(a)
  <2>1. task[a].at \in Clearing \cup Adding /\ UNCHANGED <<file, record>>
    BY <1>4 DEF Clear, Ingest, ClearReadCorpus, ClearVectors, ClearCorpus, ClearReadParents, ClearParents,
                Load, CheckEvidence, Persist, AddReadCorpus, AddCorpus, AddReadParents, AddParents,
                AddVectors, Fault, Clearing, Adding
  <2>2. task[a].src # d
    BY <1>1, <2>1 DEF Clearing, Adding
  <2>3. /\ RowsOf(d, task[a].seen \ Matching(task[a])) = RowsOf(d, task[a].seen)
        /\ RowsOf(d, task[a].seen \cup {Row(task[a])}) = RowsOf(d, task[a].seen)
        /\ RowsOf(d, vectors \ Matching(task[a])) = RowsOf(d, vectors)
        /\ RowsOf(d, vectors \cup {Row(task[a])}) = RowsOf(d, vectors)
    BY <2>2, RowsApart
  <2>4. /\ task[a].at \in CorpusPlaces => RowsOf(d, task[a].seen) = RowsOf(d, corpus)
        /\ task[a].at \in ParentPlaces => RowsOf(d, task[a].seen) = RowsOf(d, parents)
    BY DEF Apart
  <2>5. RowsOf(d, corpus') = RowsOf(d, corpus)
    <3>1. CASE ClearCorpus(a) \/ AddCorpus(a)
      BY <2>3, <2>4, <3>1 DEF ClearCorpus, AddCorpus, CorpusPlaces
    <3>2. ~(ClearCorpus(a) \/ AddCorpus(a)) => UNCHANGED corpus
      BY <1>4 DEF Clear, Ingest, ClearReadCorpus, ClearVectors, ClearReadParents, ClearParents,
                  Load, CheckEvidence, Persist, AddReadCorpus, AddReadParents, AddParents,
                  AddVectors, Fault, stores
    <3> QED BY <3>1, <3>2
  <2>6. RowsOf(d, parents') = RowsOf(d, parents)
    <3>1. CASE ClearParents(a) \/ AddParents(a)
      BY <2>3, <2>4, <3>1 DEF ClearParents, AddParents, ParentPlaces
    <3>2. ~(ClearParents(a) \/ AddParents(a)) => UNCHANGED parents
      BY <1>4 DEF Clear, Ingest, ClearReadCorpus, ClearVectors, ClearReadParents, ClearCorpus,
                  Load, CheckEvidence, Persist, AddReadCorpus, AddReadParents, AddCorpus,
                  AddVectors, Fault, stores
    <3> QED BY <3>1, <3>2
  <2>7. RowsOf(d, vectors') = RowsOf(d, vectors)
    <3>1. CASE ClearVectors(a) \/ AddVectors(a)
      BY <2>3, <3>1 DEF ClearVectors, AddVectors
    <3>2. ~(ClearVectors(a) \/ AddVectors(a)) => UNCHANGED vectors
      BY <1>4 DEF Clear, Ingest, ClearReadCorpus, ClearParents, ClearReadParents, ClearCorpus,
                  Load, CheckEvidence, Persist, AddReadCorpus, AddReadParents, AddCorpus,
                  AddParents, Fault, stores
    <3> QED BY <3>1, <3>2
  <2> QED BY <2>1, <2>5, <2>6, <2>7 DEF Same
<1> QED BY <1>2, <1>3, <1>4

\* Wherever an actor goes to write rows back, it has d's rows as they are.
LEMMA ApartGoes ==
    ASSUME Typed, NEW d \in Sources, Apart(d), NEW a \in Actors, Clear(a) \/ Ingest(a) \/ Fault(a)
    PROVE  /\ Alone(a)
           /\ task'[a].at \in CorpusPlaces => RowsOf(d, task'[a].seen) = RowsOf(d, corpus')
           /\ task'[a].at \in ParentPlaces => RowsOf(d, task'[a].seen) = RowsOf(d, parents')
<1>1. Same(d) BY ApartSame
<1>2. CASE Load(a) \/ CheckEvidence(a) \/ Persist(a) \/ Fault(a)
  <2>1. PICK p, z : Goes(a, p, z) /\ p \notin RowPlaces
    BY <1>2, LoadGoes, CheckGoes, PersistGoes, FaultGoes DEF GoesOn, BackedPlaces
  <2> QED BY <2>1 DEF Goes, RowPlaces, CorpusPlaces, ParentPlaces
<1>3. CASE ClearReadCorpus(a) \/ AddReadCorpus(a)
  <2>1. task'[a].seen = corpus /\ Alone(a) /\ task'[a].at \in {"clear_vectors", "add_corpus"}
    BY <1>3, ActorGoes DEF GoesOn, Goes
  <2> QED BY <1>1, <2>1 DEF Same, ParentPlaces
<1>4. CASE ClearReadParents(a) \/ AddReadParents(a)
  <2>1. task'[a].seen = parents /\ Alone(a) /\ task'[a].at \in {"clear_parent_rows", "add_parent_rows"}
    BY <1>4, ActorGoes DEF GoesOn, Goes
  <2> QED BY <1>1, <2>1 DEF Same, CorpusPlaces
<1>5. CASE ClearVectors(a)
  <2>1. task'[a].seen = task[a].seen /\ Alone(a) /\ task'[a].at = "clear_corpus" /\ task[a].at \in CorpusPlaces
    BY <1>5, ActorGoes DEF GoesOn, Goes, ClearVectors, CorpusPlaces
  <2> QED BY <1>1, <2>1 DEF Apart, Same, ParentPlaces
<1>6. CASE ClearCorpus(a) \/ ClearParents(a) \/ AddCorpus(a) \/ AddParents(a) \/ AddVectors(a)
  <2>1. Alone(a) /\ task'[a].at \in {"clear_parents", "cleared", "add_parents", "add_vectors", "indexed"}
    BY <1>6, ActorGoes DEF GoesOn, Goes
  <2> QED BY <2>1 DEF CorpusPlaces, ParentPlaces
<1> QED BY <1>2, <1>3, <1>4, <1>5, <1>6 DEF Clear, Ingest

LEMMA ApartStep ==
    ASSUME Typed, Next, NEW d \in Sources, Apart(d), d \notin InFlight',
           Crash => UNCHANGED <<corpus, parents>>
    PROVE  Apart(d)' /\ Same(d)
<1>0. Requests \subseteq Actors /\ Workers \subseteq Actors BY DEF Actors
<1>1. ASSUME NEW a \in Actors, Alone(a), Same(d), task'[a].at \notin BackedPlaces
      PROVE  Apart(d)'
  <2>1. task'[a].at \notin CorpusPlaces /\ task'[a].at \notin ParentPlaces
    BY <1>1 DEF BackedPlaces, RowPlaces, CorpusPlaces, ParentPlaces
  <2> QED BY <1>1, <2>1, ApartBy
<1>2. ASSUME NEW r \in Requests, Passes(r) PROVE Apart(d)' /\ Same(d)
  <2>1. Alone(r) /\ task'[r].at \notin BackedPlaces BY <1>2, RequestGoes DEF Goes
  <2> QED BY <1>0, <1>1, <1>2, <2>1, ApartSame
<1>3. ASSUME NEW r \in Requests, NEW e \in Sources,
             \/ \E c \in Contents : StartUpload(r, e, c)
             \/ StartDelete(r, e) \/ (StartReindex(r, e) /\ ~Move(r, "over")) \/ StartWatch(r, e)
      PROVE  Apart(d)' /\ Same(d)
  <2>1. Alone(r) /\ task'[r].at \notin BackedPlaces BY <1>3, TasksBegin DEF Begun
  <2>2. UNCHANGED <<file, record, stores>>
    BY <1>3 DEF StartUpload, StartDelete, StartReindex, StartWatch
  <2>3. Same(d) BY <2>2 DEF Same, stores
  <2> QED BY <1>0, <1>1, <2>1, <2>3
<1>4. ASSUME NEW w \in Workers, TakeJob(w) PROVE Apart(d)' /\ Same(d)
  <2>1. d # Head(queue)[1] /\ UNCHANGED <<file, stores>>
    BY <1>4, FlightIs DEF TakeJob, Apart
  <2>2. Same(d)
    <3>1. record' = record \/ record' = [record EXCEPT ![Head(queue)[1]].status = "indexing"]
      BY <1>4 DEF TakeJob
    <3> QED BY <2>1, <3>1 DEF Same, stores, Typed, TypeOK
  <2>3. CASE UNCHANGED task
    <3>1. \A b \in Actors : /\ task'[b].at \in CorpusPlaces => RowsOf(d, task'[b].seen) = RowsOf(d, corpus')
                            /\ task'[b].at \in ParentPlaces => RowsOf(d, task'[b].seen) = RowsOf(d, parents')
      BY <2>2, <2>3 DEF Apart, Same
    <3> QED BY <2>2, <3>1 DEF Apart
  <2>4. CASE Begun(w, Head(queue)[2], Head(queue)[3])
    BY <1>0, <1>1, <2>2, <2>4 DEF Begun
  <2> QED BY <1>4, <2>2, <2>3, <2>4, TasksBegin
<1>5. ASSUME NEW w \in Workers, EndJob(w) PROVE Apart(d)' /\ Same(d)
  <2>1. Alone(w) /\ task'[w].at \notin BackedPlaces BY <1>5, TasksBegin DEF Begun
  <2> QED BY <1>0, <1>1, <1>5, <2>1, ApartSame
<1>6. ASSUME NEW a \in Actors, Clear(a) \/ Ingest(a) \/ Fault(a) PROVE Apart(d)' /\ Same(d)
  BY <1>6, ApartSame, ApartGoes, ApartBy
<1>7. CASE Crash
  <2>1. Same(d) BY <1>7 DEF Crash, Same
  <2>2. \A a \in Actors : task'[a] = task[a] \/ task'[a].at \in {"idle", "over"}
    BY <1>7 DEF Crash, NoTask, Doing
  <2>3. \A b \in Actors : /\ task'[b].at \in CorpusPlaces => RowsOf(d, task'[b].seen) = RowsOf(d, corpus')
                          /\ task'[b].at \in ParentPlaces => RowsOf(d, task'[b].seen) = RowsOf(d, parents')
    BY <2>1, <2>2 DEF Apart, Same, CorpusPlaces, ParentPlaces
  <2> QED BY <2>1, <2>3 DEF Apart
<1>8. CASE Ended
  <2>1. UNCHANGED <<task, file, record, stores>> BY <1>8 DEF Ended, vars
  <2>2. Same(d) BY <2>1 DEF Same, stores
  <2>3. \A b \in Actors : /\ task'[b].at \in CorpusPlaces => RowsOf(d, task'[b].seen) = RowsOf(d, corpus')
                          /\ task'[b].at \in ParentPlaces => RowsOf(d, task'[b].seen) = RowsOf(d, parents')
    BY <2>1, <2>2 DEF Apart, Same
  <2> QED BY <2>2, <2>3 DEF Apart
<1> QED BY <1>2, <1>3, <1>4, <1>5, <1>6, <1>7, <1>8, Steps

LEMMA RestKept ==
    ASSUME NEW d, NEW strict \in BOOLEAN, Rest(d, strict), Same(d),
           strict /\ Ready(d) /\ Evident(d) => Evident(d)'
    PROVE  Rest(d, strict)'
<1>1. Ready(d)' <=> Ready(d) BY DEF Same, Ready, Known
<1>2. Current(d)' = Current(d) BY DEF Same, Current
<1>3. Ready(d) /\ Full(d, strict) => Full(d, strict)'
  <2>1. Current(d) \subseteq vectors => Current(d)' \subseteq vectors'
    <3>1. \A row \in Current(d) : row.src = d BY DEF Current
    <3>2. \A row \in Current(d) : row \in vectors => row \in RowsOf(d, vectors) BY <3>1 DEF RowsOf
    <3>3. \A row \in RowsOf(d, vectors') : row \in vectors' BY DEF RowsOf
    <3> QED BY <1>2, <3>2, <3>3 DEF Same
  <2> QED BY <1>2, <2>1 DEF Full, Same
<1>4. Empty(d, TRUE) => Empty(d, TRUE)' BY DEF Same, Empty
<1> QED BY <1>1, <1>3, <1>4 DEF Rest, Same, Known

\* An operation starts for source d.
Starting(r, d) ==
    \/ \E c \in Contents : StartUpload(r, d, c)
    \/ StartDelete(r, d) \/ (StartReindex(r, d) /\ ~Move(r, "over")) \/ StartWatch(r, d)

LEMMA FlightBy ==
    ASSUME NEW a \in Actors, Alone(a), NEW more,
           Running(a)' => task'[a].src \in InFlight \cup more,
           \A i \in DOMAIN queue' : queue'[i][1] \in InFlight
    PROVE  InFlight' \subseteq InFlight \cup more
<1>1. \A b \in Actors : Running(b)' => task'[b].src \in InFlight \cup more
  <2>1. \A b \in Actors \ {a} : Running(b)' => Running(b) BY DEF Alone, Running
  <2> QED BY <2>1 DEF Alone, InFlight
<1> QED BY <1>1 DEF InFlight

LEMMA FlightStep ==
    ASSUME Typed, KindInv, Next
    PROVE  /\ InFlight' \subseteq InFlight \/ \E r \in Requests, d \in Sources : Starting(r, d)
           /\ \A r \in Requests, d \in Sources : Starting(r, d) => InFlight' \subseteq InFlight \cup {d}
<1>0. Requests \subseteq Actors /\ Workers \subseteq Actors /\ task \in [Actors -> Task]
  BY DEF Actors, Typed, TypeOK
<1>q. \A i \in DOMAIN queue : queue[i][1] \in InFlight BY DEF InFlight
<1>s. queue \in Seq(Sources \X Nat \X (Nat \ {0})) BY DEF Typed, TypeOK
<1>1. ASSUME NEW r \in Requests, NEW d \in Sources, Starting(r, d)
      PROVE  InFlight' \subseteq InFlight \cup {d}
  <2>1. PICK p, k, c, id, version : task' = [task EXCEPT ![r] = Doing(p, k, d, c, id, version)]
    BY <1>1 DEF Starting, StartUpload, StartDelete, StartReindex, StartWatch, For
  <2>2. Alone(r) /\ task'[r].src = d BY <1>0, <2>1 DEF Alone, Doing
  <2>3. queue' = queue BY <1>1 DEF Starting, StartUpload, StartDelete, StartReindex, StartWatch
  <2> QED BY <1>0, <1>q, <2>2, <2>3, FlightBy
<1>2. ASSUME NEW r \in Requests, Passes(r) PROVE InFlight' \subseteq InFlight
  <2>1. Alone(r) /\ task'[r].src = task[r].src BY <1>2, PassesKeep DEF Keeping
  <2>2. Running(r)' => Running(r)
    <3>1. CASE task[r].at = "idle"
      <4>1. Move(r, "over")
        BY <1>2, <3>1 DEF Passes, ReuseUpload, ReplaceFile, Register, KeepFile, RemoveFile, Forget,
                          MarkReindexing, Reload, EndReindex, HashFile, WatchCleared, EndWatch, StartReindex
      <4>2. task'[r].at = "over" BY <1>0, <4>1 DEF Move, Task
      <4> QED BY <4>2 DEF Running
    <3>2. task[r].at # "over"
      BY <1>2 DEF Passes, ReuseUpload, ReplaceFile, Register, KeepFile, RemoveFile, Forget,
                  MarkReindexing, Reload, EndReindex, HashFile, WatchCleared, EndWatch, StartReindex
    <3> QED BY <3>1, <3>2 DEF Running
  <2>3. Running(r) => task[r].src \in InFlight BY <1>0, FlightIs
  <2>4. \A i \in DOMAIN queue' : queue'[i][1] \in InFlight
    <3>1. CASE Register(r)
      <4>1. task[r].src \in InFlight BY <1>0, <2>3, <3>1 DEF Register, Running
      <4>2. PICK id, version : queue' = Append(queue, <<task[r].src, id, version>>) BY <3>1 DEF Register
      <4> QED BY <1>q, <1>s, <4>1, <4>2
    <3>2. CASE ~Register(r)
      <4>1. queue' = queue
        BY <1>2, <3>2 DEF Passes, ReuseUpload, ReplaceFile, KeepFile, RemoveFile, Forget,
                          MarkReindexing, Reload, EndReindex, HashFile, WatchCleared, EndWatch, StartReindex
      <4> QED BY <1>q, <4>1
    <3> QED BY <3>1, <3>2
  <2> QED BY <1>0, <2>1, <2>2, <2>3, <2>4, FlightBy
<1>3. ASSUME NEW w \in Workers, TakeJob(w) PROVE InFlight' \subseteq InFlight
  <2>1. \A i \in DOMAIN queue' : queue'[i][1] \in InFlight
    <3>1. queue # << >> /\ queue' = Tail(queue) BY <1>3 DEF TakeJob
    <3>2. ASSUME NEW i \in DOMAIN queue' PROVE queue'[i] = queue[i + 1] /\ i + 1 \in DOMAIN queue
      BY <1>s, <3>1
    <3> QED BY <1>q, <3>2
  <2>2. Alone(w) /\ (Running(w)' => task'[w].src \in InFlight)
    <3>1. CASE task' = task
      BY <1>3, <3>1 DEF TakeJob, Alone, Running
    <3>2. CASE task' # task
      <4>1. PICK id, version : task' = [task EXCEPT ![w] = Doing("load", "ingest", Head(queue)[1], None, id, version)]
        BY <1>3, <3>2 DEF TakeJob
      <4>2. Alone(w) /\ task'[w].src = Head(queue)[1] BY <1>0, <4>1 DEF Alone, Doing
      <4> QED BY <1>3, <4>2, FlightIs DEF TakeJob
    <3> QED BY <3>1, <3>2
  <2> QED BY <1>0, <2>1, <2>2, FlightBy
<1>4. ASSUME NEW w \in Workers, EndJob(w) PROVE InFlight' \subseteq InFlight
  <2>1. Alone(w) /\ ~Running(w)' /\ queue' = queue
    BY <1>0, <1>4 DEF EndJob, Alone, Running, NoTask, Doing
  <2> QED BY <1>0, <1>q, <2>1, FlightBy
<1>5. ASSUME NEW a \in Actors, Clear(a) \/ Ingest(a) \/ Fault(a) PROVE InFlight' \subseteq InFlight
  <2>1. Alone(a) /\ task'[a].src = task[a].src BY <1>5, ActorKeeps DEF Keeping
  <2>2. Running(a) /\ queue' = queue
    BY <1>5 DEF Clear, Ingest, ClearReadCorpus, ClearVectors, ClearCorpus, ClearReadParents, ClearParents,
                Load, CheckEvidence, Persist, AddReadCorpus, AddCorpus, AddReadParents, AddParents,
                AddVectors, Fault, Clearing, Adding, Running
  <2> QED BY <1>q, <2>1, <2>2, FlightIs, FlightBy
<1>6. CASE Crash
  <2>1. \A a \in Actors : ~Running(a)'
    BY <1>6 DEF Crash, Running, NoTask, Doing
  <2>2. queue' = << >> BY <1>6 DEF Crash
  <2> QED BY <2>1, <2>2 DEF InFlight
<1>7. CASE Ended
  BY <1>7 DEF Ended, vars, InFlight, Running
<1>8. \/ \E r \in Requests : Passes(r)
      \/ \E r \in Requests, d \in Sources : Starting(r, d)
      \/ \E w \in Workers : TakeJob(w) \/ EndJob(w)
      \/ \E a \in Actors : Clear(a) \/ Ingest(a) \/ Fault(a)
      \/ Crash
      \/ Ended
  BY Steps DEF Starting
<1> QED BY <1>1, <1>2, <1>3, <1>4, <1>5, <1>6, <1>7, <1>8

-----------------------------------------------------------------------------
(* A source that one task works for, by itself.                            *)

\* The task goes on, or ends.
LEMMA FollowsOn ==
    ASSUME NEW a \in Actors, Only(a), Alone(a), queue' = queue, Running(a)', NEW strict,
           NEW d, task'[a].src = d, Phase(a, strict)'
    PROVE  Follows(d, strict)'
<1>1. (\A b \in Actors \ {a} : ~Running(b))' BY DEF Only, Alone, Running
<1>2. Only(a)' BY <1>1 DEF Only
<1> QED BY <1>2 DEF Follows

LEMMA FollowsStop ==
    ASSUME NEW a \in Actors, Only(a), Alone(a), queue' = queue, ~Running(a)', NEW strict,
           NEW d, Rest(d, strict)'
    PROVE  Follows(d, strict)'
<1>1. (\A b \in Actors : ~Running(b))' BY DEF Only, Alone, Running
<1>2. queue' = << >> BY DEF Only
<1>3. InFlight' = {} BY <1>1, <1>2 DEF InFlight
<1>4. \A b \in Actors : task'[b].at \notin CorpusPlaces \cup ParentPlaces
  BY <1>1 DEF Running, CorpusPlaces, ParentPlaces
<1>5. Apart(d)' BY <1>3, <1>4 DEF Apart
<1> QED BY <1>5 DEF Follows

\* The fields of the task that takes a step, and that it goes on.
LEMMA GoesOnRunning ==
    ASSUME NEW a \in Actors, NEW p, NEW c, NEW s, Turns(a, p, c, s)
    PROVE  Alone(a) /\ (Running(a)' <=> p \notin {"idle", "over"}) /\ task'[a].src = task[a].src
BY DEF Turns, Running

\* What a task may be at work at, in the terms of its phases.
LEMMA PhaseStep ==
    ASSUME NEW a \in Actors, Only(a), NEW d, task[a].src = d, queue' = queue, NEW strict,
           NEW p, NEW c, NEW s, Turns(a, p, c, s), p \notin {"idle", "over"},
           Opens(a, strict)' \/ Clears(a, strict)' \/ Forgets(a, strict)' \/ Indexes(a, strict)'
    PROVE  Follows(d, strict)'
<1>1. Phase(a, strict)' BY DEF Phase
<1> QED BY <1>1, GoesOnRunning, FollowsOn

LEMMA PlacesAre ==
    {"clear", "clear_vectors", "clear_corpus", "clear_parents", "clear_parent_rows", "cleared",
     "forget", "forget_again", "load", "check", "persist", "add", "add_corpus", "add_parents",
     "add_parent_rows", "add_vectors", "indexed", "settle", "failed", "mark", "over"} \subseteq Places
BY DEF Places, Clearing, Adding

\* What is known of the one task at work.
LEMMA AtWork ==
    ASSUME Typed, NEW a \in Actors, Only(a)
    PROVE  /\ task[a].src \in Sources
           /\ task[a].content \in Contents \cup {None} /\ task[a].seen \in SUBSET (IndexRow \cup Evidence)
           /\ queue = << >> /\ file \in [Sources -> Contents \cup {None}]
           /\ record \in [Sources -> Record \cup {None}]
BY Held DEF Only, Running, Sound, Typed, TypeOK

LEMMA OwnFile ==
    ASSUME Typed, NEW a \in Actors, NEW d \in Sources, task[a].src = d, Own(a)
    PROVE  record[d] \in Record /\ file[d] \in Contents /\ file[d] # None
BY RecordOf, RecordFields, DocumentsAssumption DEF Own

\* Rows of d that are d's current row and nothing else are selected for whoever
\* works for its document.
LEMMA CurrentSelected ==
    ASSUME NEW a \in Actors, NEW d, task[a].src = d, Own(a), Rest(d, TRUE)
    PROVE  /\ \A row \in RowsOf(d, corpus) \cup RowsOf(d, parents) : Selected(task[a], row)
           /\ RowsOf(d, vectors) \subseteq corpus
<1>1. \A row \in Current(d) : row.src = d /\ row.id = task[a].id /\ row.version = task[a].version
  BY DEF Current, Own
<1>2. CASE Ready(d)
  <2>1. RowsOf(d, corpus) = Current(d) /\ RowsOf(d, parents) = Current(d) /\ RowsOf(d, vectors) = Current(d)
    BY <1>2 DEF Rest, Full
  <2>2. RowsOf(d, corpus) \subseteq corpus BY DEF RowsOf
  <2> QED BY <1>1, <2>1, <2>2 DEF Selected
<1>3. CASE ~Ready(d)
  BY <1>3 DEF Rest, Empty
<1> QED BY <1>2, <1>3

LEMMA RestSubset ==
    ASSUME NEW d, Rest(d, TRUE)
    PROVE  RowsOf(d, vectors) \subseteq corpus
<1>1. RowsOf(d, corpus) \subseteq corpus BY DEF RowsOf
<1> QED BY <1>1 DEF Rest, Full, Empty

LEMMA OpensStep ==
    ASSUME Typed, NEW strict \in BOOLEAN, NEW a \in Actors, NEW d \in Sources, task[a].src = d,
           Only(a), Opens(a, strict), ReplaceFile(a) \/ HashFile(a) \/ MarkReindexing(a)
    PROVE  Follows(d, strict)'
<1>1. CASE ReplaceFile(a)
  <2>1. Turns(a, "clear", task[a].content, task[a].seen)
    BY <1>1, AtWork, PlacesAre, Turning DEF ReplaceFile
  <2>2. /\ task[a].kind = "upload"
        /\ file'[d] = task[a].content
        /\ UNCHANGED <<record, stores, queue>>
    BY <1>1, AtWork DEF Opens, ReplaceFile
  <2>3. strict => RowsOf(d, vectors) \subseteq corpus
    <3>1. strict => Rest(d, TRUE) BY <1>1 DEF Opens, ReplaceFile
    <3> QED BY <3>1, RestSubset
  <2>4. \A row \in RowsOf(d, corpus) \cup RowsOf(d, parents) : Selected(task[a], row)'
    BY <2>1, <2>2 DEF RowsOf, Selected, Turns
  <2>5. Clears(a, strict)'
    BY <2>1, <2>2, <2>3, <2>4 DEF Clears, Turns, Clearing, stores, RowsOf, Selected
  <2> QED BY <2>1, <2>2, <2>5, PhaseStep
<1>2. CASE HashFile(a)
  <2>1. /\ task[a].at = "hash" /\ task[a].kind = "reindex" /\ strict /\ Own(a) /\ Rest(d, TRUE)
        /\ UNCHANGED <<file, record, stores, evidence, queue>>
    BY <1>2 DEF Opens, HashFile
  <2>2. file[d] \in Contents /\ file[d] # None
    BY <2>1, OwnFile
  <2>3. task' = [task EXCEPT ![a].at = "mark", ![a].content = file[d]]
    BY <1>2, <2>1, <2>2 DEF HashFile
  <2>4. Turns(a, "mark", file[d], task[a].seen)
    BY <2>2, <2>3, AtWork, PlacesAre, Turning
  <2>5. Rest(d, TRUE)'
    <3>1. Same(d) BY <2>1 DEF Same, stores
    <3>2. Evident(d) => Evident(d)' BY <2>1 DEF Evident
    <3> QED BY <2>1, <3>1, <3>2, RestKept
  <2>6. Own(a)' BY <2>1, <2>4 DEF Own, Turns, Known
  <2>7. Opens(a, strict)' BY <2>1, <2>4, <2>5, <2>6 DEF Opens, Turns
  <2>8. queue' = queue BY <2>1
  <2> QED BY <2>4, <2>7, <2>8, PhaseStep
<1>3. CASE MarkReindexing(a)
  <2>1. /\ task[a].at = "mark" /\ task[a].kind = "reindex" /\ strict /\ Own(a) /\ Rest(d, TRUE)
        /\ task[a].content = file[d] /\ UNCHANGED <<file, stores, queue>>
    BY <1>3 DEF Opens, MarkReindexing
  <2>2. Turns(a, "clear", task[a].content, task[a].seen)
    BY <1>3, AtWork, PlacesAre, Turning DEF MarkReindexing
  <2>3. record[d] \in Record /\ file[d] \in Contents BY <2>1, OwnFile
  <2>4. record'[d] = [record[d] EXCEPT !.status = "indexing", !.sha = task[a].content]
    BY <1>3, <2>1, AtWork DEF MarkReindexing, WithHash, Own
  <2>5. /\ record'[d].id = record[d].id /\ record'[d].version = record[d].version
        /\ record'[d].sha = file[d] /\ record'[d].status = "indexing" /\ record'[d] \in Record
    BY <2>1, <2>3, <2>4 DEF Record, Statuses
  <2>6. Own(a)' BY <2>1, <2>2, <2>5, RecordsAssumption DEF Own, Turns, Known
  <2>7. ~Ready(d)' BY <2>5 DEF Ready
  <2>8. /\ \A row \in RowsOf(d, corpus) \cup RowsOf(d, parents) : Selected(task[a], row)
        /\ RowsOf(d, vectors) \subseteq corpus
    BY <2>1, CurrentSelected
  <2>9. Clears(a, strict)'
    BY <2>1, <2>2, <2>6, <2>7, <2>8 DEF Clears, Turns, Clearing, stores, RowsOf, Selected
  <2>10. queue' = queue BY <2>1
  <2>11. "clear" \notin {"idle", "over"} OBVIOUS
  <2> QED BY <2>2, <2>9, <2>10, <2>11, PhaseStep
<1> QED BY <1>1, <1>2, <1>3

-----------------------------------------------------------------------------
(* The task clears its document's rows, ...                                *)

\* The rows and the places that a clearing task may have after a step.
LEMMA ClearsKept ==
    ASSUME NEW strict \in BOOLEAN, NEW a \in Actors, NEW d, task[a].src = d, Clears(a, strict),
           NEW p \in Clearing \cup {"cleared"}, NEW s, Turns(a, p, task[a].content, s),
           UNCHANGED <<file, record>>,
           p \in {"clear_vectors", "clear_corpus"} => s = corpus',
           p = "clear_parent_rows" => s = parents',
           RowsOf(d, corpus') \subseteq RowsOf(d, corpus), RowsOf(d, parents') \subseteq RowsOf(d, parents),
           p \in {"clear_parents", "clear_parent_rows", "cleared"} => RowsOf(d, corpus') = {},
           p = "cleared" => RowsOf(d, parents') = {},
           strict => IF p \in {"clear", "clear_vectors"} THEN RowsOf(d, vectors') \subseteq corpus'
                     ELSE RowsOf(d, vectors') = {}
    PROVE  Clears(a, strict)'
<1>1. task'[a].src = d BY DEF Turns
<1>2. \A row : Selected(task[a], row) => Selected(task[a], row)'
  BY DEF Turns, Selected
<1>3. Own(a) => Own(a)' BY DEF Turns, Own, Known
<1>4. Ready(d)' <=> Ready(d) BY DEF Ready, Known
<1>5. (\A row \in RowsOf(d, corpus) \cup RowsOf(d, parents) : Selected(task[a], row))'
  BY <1>2 DEF Clears
<1>6. \/ task'[a].kind = "upload" /\ task'[a].content = file'[d]
      \/ task'[a].kind \in {"delete", "remove", "reindex"} /\ strict /\ Own(a)'
  BY <1>3 DEF Turns, Clears
<1>7. task'[a].kind = "reindex" => ~Ready(d)' BY <1>4 DEF Turns, Clears
<1>8. task'[a].at = p /\ task'[a].seen = s BY DEF Turns
<1> QED BY <1>1, <1>5, <1>6, <1>7, <1>8 DEF Clears

LEMMA ClearsStep ==
    ASSUME Typed, NEW strict \in BOOLEAN, NEW a \in Actors, NEW d \in Sources, task[a].src = d,
           Only(a), Clears(a, strict), Clear(a)
    PROVE  Follows(d, strict)'
<1>0. /\ \A row \in RowsOf(d, corpus) \cup RowsOf(d, parents) : Selected(task[a], row)
      /\ corpus \in SUBSET (IndexRow \cup Evidence) /\ parents \in SUBSET (IndexRow \cup Evidence)
  BY DEF Clears, Typed, TypeOK
<1>1. ASSUME NEW p \in Clearing \cup {"cleared"}, NEW s, Turns(a, p, task[a].content, s),
             Clears(a, strict)', queue' = queue
      PROVE  Follows(d, strict)'
  <2>1. p \notin {"idle", "over"} BY DEF Clearing
  <2> QED BY <1>1, <2>1, PhaseStep
<1>2. CASE ClearReadCorpus(a)
  <2>1. Turns(a, "clear_vectors", task[a].content, corpus)
    BY <1>0, <1>2, AtWork, PlacesAre, Turning DEF ClearReadCorpus
  <2>2. UNCHANGED <<file, record, corpus, parents, vectors, queue>> /\ task[a].at = "clear"
    BY <1>2 DEF ClearReadCorpus, stores
  <2>3. strict => RowsOf(d, vectors) \subseteq corpus BY <2>2 DEF Clears
  <2>4. Clears(a, strict)' BY <2>1, <2>2, <2>3, ClearsKept DEF Clearing
  <2> QED BY <1>1, <2>1, <2>2, <2>4 DEF Clearing
<1>3. CASE ClearVectors(a)
  <2>1. Turns(a, "clear_corpus", task[a].content, task[a].seen)
    BY <1>3, AtWork, PlacesAre, Turning DEF ClearVectors
  <2>2. UNCHANGED <<file, record, corpus, parents, queue>> /\ task[a].at = "clear_vectors"
        /\ vectors' = vectors \ Matching(task[a]) /\ task[a].seen = corpus
    BY <1>3 DEF ClearVectors, Clears
  <2>3. strict => RowsOf(d, vectors) \subseteq corpus BY <2>2 DEF Clears
  <2>4. strict => RowsOf(d, vectors') = {}
    BY <1>0, <2>2, <2>3 DEF RowsOf, Matching
  <2>5. /\ "clear_corpus" \in Clearing \cup {"cleared"} /\ UNCHANGED <<file, record>>
        /\ RowsOf(d, corpus') \subseteq RowsOf(d, corpus) /\ RowsOf(d, parents') \subseteq RowsOf(d, parents)
        /\ Turns(a, "clear_corpus", task[a].content, corpus')
    BY <2>1, <2>2 DEF Clearing
  <2>6. Clears(a, strict)' BY <2>4, <2>5, ClearsKept
  <2> QED BY <1>1, <2>1, <2>2, <2>6 DEF Clearing
<1>4. CASE ClearCorpus(a)
  <2>1. Turns(a, "clear_parents", task[a].content, task[a].seen)
    BY <1>4, AtWork, PlacesAre, Turning DEF ClearCorpus
  <2>2. UNCHANGED <<file, record, vectors, parents, queue>> /\ task[a].at = "clear_corpus"
        /\ corpus' = corpus \ Matching(task[a]) /\ task[a].seen = corpus
    BY <1>4 DEF ClearCorpus, Clears
  <2>3. strict => RowsOf(d, vectors) = {} BY <2>2 DEF Clears
  <2>4. RowsOf(d, corpus') = {} BY <1>0, <2>2 DEF RowsOf, Matching
  <2>5. /\ "clear_parents" \in Clearing \cup {"cleared"} /\ UNCHANGED <<file, record>>
        /\ RowsOf(d, corpus') \subseteq RowsOf(d, corpus) /\ RowsOf(d, parents') \subseteq RowsOf(d, parents)
        /\ strict => RowsOf(d, vectors') = {}
    BY <2>2, <2>3, <2>4 DEF Clearing
  <2>6. Clears(a, strict)' BY <2>1, <2>4, <2>5, ClearsKept
  <2> QED BY <1>1, <2>1, <2>2, <2>6 DEF Clearing
<1>5. CASE ClearReadParents(a)
  <2>1. Turns(a, "clear_parent_rows", task[a].content, parents)
    BY <1>0, <1>5, AtWork, PlacesAre, Turning DEF ClearReadParents
  <2>2. UNCHANGED <<file, record, corpus, parents, vectors, queue>> /\ task[a].at = "clear_parents"
    BY <1>5 DEF ClearReadParents, stores
  <2>3. (strict => RowsOf(d, vectors) = {}) /\ RowsOf(d, corpus) = {} BY <2>2 DEF Clears
  <2>4. Clears(a, strict)' BY <2>1, <2>2, <2>3, ClearsKept DEF Clearing
  <2> QED BY <1>1, <2>1, <2>2, <2>4 DEF Clearing
<1>6. CASE ClearParents(a)
  <2>1. Turns(a, "cleared", task[a].content, {})
    BY <1>6, AtWork, PlacesAre, Turning DEF ClearParents
  <2>2. UNCHANGED <<file, record, vectors, corpus, queue>> /\ task[a].at = "clear_parent_rows"
        /\ parents' = parents \ Matching(task[a]) /\ task[a].seen = parents
    BY <1>6 DEF ClearParents, Clears
  <2>3. (strict => RowsOf(d, vectors) = {}) /\ RowsOf(d, corpus) = {} BY <2>2 DEF Clears
  <2>4. RowsOf(d, parents') = {} BY <1>0, <2>2 DEF RowsOf, Matching
  <2>5. /\ "cleared" \in Clearing \cup {"cleared"} /\ UNCHANGED <<file, record>>
        /\ RowsOf(d, corpus') \subseteq RowsOf(d, corpus) /\ RowsOf(d, parents') \subseteq RowsOf(d, parents)
        /\ RowsOf(d, corpus') = {} /\ (strict => RowsOf(d, vectors') = {})
    BY <2>2, <2>3, <2>4
  <2>6. Clears(a, strict)' BY <2>1, <2>4, <2>5, ClearsKept DEF Clearing
  <2> QED BY <1>1, <2>1, <2>2, <2>6
<1> QED BY <1>2, <1>3, <1>4, <1>5, <1>6 DEF Clear

\* ... and goes on to what it was cleared for.
LEMMA ClearedStep ==
    ASSUME Typed, NEW strict \in BOOLEAN, NEW a \in Actors, NEW d \in Sources, task[a].src = d,
           Only(a), Clears(a, strict),
           Register(a) \/ KeepFile(a) \/ RemoveFile(a) \/ Reload(a)
    PROVE  Follows(d, strict)'
<1>0. /\ task[a].at = "cleared" /\ Empty(d, strict)
      /\ task[a].kind # "upload" => strict /\ Own(a)
      /\ task[a].kind = "reindex" => ~Ready(d)
      /\ task[a].kind = "upload" => task[a].content = file[d]
      /\ UNCHANGED stores
  BY DEF Register, KeepFile, RemoveFile, Reload, Clears, Empty
<1>1. Empty(d, strict)' BY <1>0 DEF Empty, stores
<1>2. CASE Register(a)
  <2> DEFINE new == Registered(d, task[a].content)
  <2>1. Turns(a, "over", task[a].content, task[a].seen)
    BY <1>2, AtWork, PlacesAre, Turning DEF Register
  <2>2. new \in Record
    BY <1>2, AtWork, Held, RegisteredTyped DEF Register, Only, Running, Sound
  <2>3. new.sha = task[a].content /\ new.status = "pending" BY DEF Registered
  <2>4. task[a].kind = "upload" /\ file' = file /\ record'[d] = new
    BY <1>2, AtWork DEF Register
  <2>5. queue' = << <<d, new.id, new.version>> >>
    <3>1. queue' = Append(queue, <<d, new.id, new.version>>) /\ queue = << >> BY <1>2, AtWork DEF Register
    <3> HIDE DEF new
    <3> QED BY <3>1
  <2> HIDE DEF new
  <2>6. (\A b \in Actors : ~Running(b))' BY <2>1 DEF Only, Turns, Alone, Running
  <2>7. Known(d)' /\ ~Ready(d)' BY <2>2, <2>3, <2>4, RecordsAssumption DEF Known, Ready
  <2>8. file'[d] = record'[d].sha BY <1>0, <2>3, <2>4
  <2>9. Waits(d, strict)' BY <1>1, <2>4, <2>5, <2>6, <2>7, <2>8 DEF Waits
  <2> QED BY <2>9 DEF Follows
<1>3. CASE KeepFile(a)
  <2>1. Turns(a, "over", task[a].content, task[a].seen)
    BY <1>3, AtWork, PlacesAre, Turning DEF KeepFile
  <2>2. strict /\ Own(a) /\ file' = file /\ queue' = queue BY <1>0, <1>3 DEF KeepFile
  <2>3. record[d] \in Record BY <2>2, OwnFile
  <2>4. record'[d] = [record[d] EXCEPT !.status = "pending"]
    BY <1>3, <2>2, AtWork DEF KeepFile, WithStatus, Own
  <2>5. record'[d] \in Record /\ record'[d].status = "pending" /\ record'[d].sha = record[d].sha
    BY <2>3, <2>4 DEF Record, Statuses
  <2>6. Known(d)' /\ ~Ready(d)' /\ file'[d] = record'[d].sha
    BY <2>2, <2>5, RecordsAssumption DEF Known, Ready, Own
  <2>7. Rest(d, strict)' BY <1>1, <2>2, <2>6 DEF Rest, Empty
  <2>8. Alone(a) /\ ~Running(a)' BY <2>1, GoesOnRunning
  <2> QED BY <2>2, <2>7, <2>8, FollowsStop
<1>4. CASE RemoveFile(a)
  <2>1. task[a].kind = "remove" /\ strict /\ Own(a) /\ UNCHANGED <<record, queue>> /\ file'[d] = None
    BY <1>0, <1>4, AtWork DEF RemoveFile
  <2>2. file[d] # None BY <2>1, OwnFile
  <2>3. Turns(a, "forget", task[a].content, task[a].seen)
    <3>1. Move(a, "forget") BY <1>4, <2>2 DEF RemoveFile
    <3> QED BY <3>1, AtWork, PlacesAre, Turning
  <2>4. Forgets(a, strict)' BY <1>1, <2>1, <2>3 DEF Forgets, Turns, Empty
  <2>5. queue' = queue /\ "forget" \notin {"idle", "over"} BY <2>1
  <2> QED BY <2>3, <2>4, <2>5, PhaseStep
<1>5. CASE Reload(a)
  <2>1. task[a].kind = "reindex" /\ strict /\ Own(a) /\ ~Ready(d) /\ UNCHANGED <<file, record, queue>>
    BY <1>0, <1>5, AtWork DEF Reload
  <2>2. file[d] # None BY <2>1, OwnFile
  <2>3. Turns(a, "load", task[a].content, task[a].seen)
    <3>1. Move(a, "load") BY <1>5, <2>2 DEF Reload
    <3> QED BY <3>1, AtWork, PlacesAre, Turning
  <2>4. Own(a)' /\ ~Ready(d)' BY <2>1, <2>3 DEF Own, Turns, Known, Ready
  <2>5. Indexes(a, strict)'
    BY <1>1, <2>1, <2>3, <2>4
       DEF Indexes, Turns, Empty, Adding, RowsAdded, CorpusDone, ParentsDone, AllDone
  <2>6. queue' = queue /\ "load" \notin {"idle", "over"} BY <2>1
  <2> QED BY <2>3, <2>5, <2>6, PhaseStep
<1> QED BY <1>2, <1>3, <1>4, <1>5

LEMMA ForgetsStep ==
    ASSUME Typed, NEW strict \in BOOLEAN, NEW a \in Actors, NEW d \in Sources, task[a].src = d,
           Only(a), Forgets(a, strict), Forget(a)
    PROVE  Follows(d, strict)'
<1>1. /\ task[a].kind = "remove" /\ strict /\ file'[d] = None /\ record'[d] = None
      /\ UNCHANGED <<stores, queue>> /\ Empty(d, TRUE)
  BY AtWork DEF Forget, Forgets
<1>2. Empty(d, TRUE)' BY <1>1 DEF Empty, stores
<1>3. queue' = queue BY <1>1
<1>4. CASE task[a].at = "forget"
  <2>1. Turns(a, "forget_again", task[a].content, task[a].seen)
    BY <1>4, AtWork, PlacesAre, Turning DEF Forget
  <2>2. Forgets(a, strict)' BY <1>1, <1>2, <2>1 DEF Forgets, Turns, Known
  <2>3. "forget_again" \notin {"idle", "over"} OBVIOUS
  <2> QED BY <1>3, <2>1, <2>2, <2>3, PhaseStep
<1>5. CASE task[a].at = "forget_again"
  <2>1. Turns(a, "over", task[a].content, task[a].seen)
    BY <1>5, AtWork, PlacesAre, Turning DEF Forget
  <2>2. Rest(d, strict)' BY <1>1, <1>2 DEF Rest, Ready, Known
  <2>3. Alone(a) /\ ~Running(a)' BY <2>1, GoesOnRunning
  <2> QED BY <1>3, <2>2, <2>3, FollowsStop
<1> QED BY <1>4, <1>5 DEF Forgets

-----------------------------------------------------------------------------
(* ... or indexes its file.                                                *)

\* The rows and the places that an indexing task may have after a step.
LEMMA IndexesKept ==
    ASSUME NEW strict \in BOOLEAN, NEW a \in Actors, NEW d, task[a].src = d, Indexes(a, strict),
           NEW p \in Adding \cup {"indexed", "settle", "failed"}, NEW c, NEW s, Turns(a, p, c, s),
           UNCHANGED <<file, record>>,
           p \notin {"load", "indexed", "failed"} => c = file[d],
           p = "add_corpus" => s = corpus',
           p = "add_parent_rows" => s = parents',
           p = "persist" => s = {Artifacts(task[a], file[d])'},
           p \in RowsAdded => Current(d) = {Row(task[a])'} /\ (strict => Evident(d)'),
           RowsOf(d, corpus') = IF p \in CorpusDone THEN Current(d) ELSE {},
           RowsOf(d, parents') = IF p \in ParentsDone THEN Current(d) ELSE {},
           IF p \in AllDone THEN Full(d, strict)' ELSE strict => RowsOf(d, vectors') = {}
    PROVE  Indexes(a, strict)'
<1>1. task'[a].src = d /\ task'[a].at = p /\ task'[a].content = c /\ task'[a].seen = s BY DEF Turns
<1>2. Own(a)' BY DEF Turns, Own, Known, Indexes
<1>3. ~Ready(d)' BY DEF Ready, Known, Indexes
<1>4. Current(d)' = Current(d) BY DEF Current
<1>5. task'[a].kind = "ingest" \/ (strict /\ task'[a].kind = "reindex") BY DEF Turns, Indexes
<1> QED BY <1>1, <1>2, <1>3, <1>4, <1>5 DEF Indexes

LEMMA IndexesOn ==
    ASSUME NEW strict \in BOOLEAN, NEW a \in Actors, Only(a), NEW d, task[a].src = d,
           NEW p \in Adding \cup {"indexed", "settle", "failed"}, NEW c, NEW s, Turns(a, p, c, s),
           Indexes(a, strict)', queue' = queue
    PROVE  Follows(d, strict)'
<1>1. p \notin {"idle", "over"} BY DEF Adding
<1> QED BY <1>1, PhaseStep

\* The row the task adds is the one its record calls for, if there is to be one.
LEMMA RowIsCurrent ==
    ASSUME NEW a \in Actors, NEW d, task[a].src = d, Own(a), task[a].content = file[d]
    PROVE  /\ task[a].content \notin Blank => Current(d) = {Row(task[a])}
           /\ task[a].content \in Blank => Current(d) = {}
BY DEF Own, Current, Row

\* What was parsed, and where it goes.
LEMMA CheckStep ==
    ASSUME Typed, NEW strict \in BOOLEAN, NEW a \in Actors, NEW d \in Sources, task[a].src = d,
           Only(a), Indexes(a, strict), Load(a) \/ CheckEvidence(a) \/ Persist(a)
    PROVE  Follows(d, strict)'
<1>0. /\ Own(a) /\ ~Ready(d)
      /\ task[a].at \in {"load", "check", "persist"}
      /\ RowsOf(d, corpus) = {} /\ RowsOf(d, parents) = {}
      /\ strict => RowsOf(d, vectors) = {}
      /\ UNCHANGED <<file, record, stores, queue>>
      /\ task[a].kind = "ingest" \/ (strict /\ task[a].kind = "reindex")
  BY DEF Load, CheckEvidence, Persist, Indexes, CorpusDone, ParentsDone, AllDone
<1>1. file[d] \in Contents /\ file[d] # None /\ record[d] \in Record BY <1>0, OwnFile
<1>2. /\ RowsOf(d, corpus') = {} /\ RowsOf(d, parents') = {}
      /\ strict => RowsOf(d, vectors') = {}
  BY <1>0 DEF stores
<1>3. ASSUME NEW p \in {"check", "persist", "failed"}, NEW s,
             Turns(a, p, IF p = "failed" THEN task[a].content ELSE file[d], s),
             p = "persist" => s = {Artifacts(task[a], file[d])'}
      PROVE  Follows(d, strict)'
  <2> DEFINE c == IF p = "failed" THEN task[a].content ELSE file[d]
  <2>1. /\ p \notin RowsAdded /\ p \notin CorpusDone /\ p \notin ParentsDone /\ p \notin AllDone
        /\ p \in Adding \cup {"indexed", "settle", "failed"} /\ p \notin {"add_corpus", "add_parent_rows"}
    BY DEF RowsAdded, CorpusDone, ParentsDone, AllDone, Adding
  <2>2. Turns(a, p, c, s) /\ (p \notin {"load", "indexed", "failed"} => c = file[d]) BY <1>3
  <2> HIDE DEF c
  <2>3. Indexes(a, strict)' BY <1>0, <1>2, <1>3, <2>1, <2>2, IndexesKept
  <2>4. queue' = queue BY <1>0
  <2> QED BY <2>1, <2>2, <2>3, <2>4, IndexesOn
<1>4. ASSUME NEW p \in {"indexed", "add"}, Turns(a, p, task[a].content, {}),
             task[a].content = file[d],
             p = IF task[a].content \in Blank THEN "indexed" ELSE "add",
             Artifacts(task[a], file[d]) \in evidence'
      PROVE  Follows(d, strict)'
  <2>1. Evident(d)'
    <3>1. Artifacts(task[a], file[d]).id = record'[d].id
          /\ Artifacts(task[a], file[d]).version = record'[d].version
          /\ Artifacts(task[a], file[d]).original = file'[d] /\ Artifacts(task[a], file[d]).parsed = file'[d]
      BY <1>0, <1>4 DEF Artifacts, Own
    <3> QED BY <1>4, <3>1 DEF Evident
  <2>2. queue' = queue BY <1>0
  <2>3. Row(task[a])' = Row(task[a]) BY <1>4 DEF Row, Turns
  <2>4. CASE p = "add"
    <3>1. Current(d) = {Row(task[a])'} BY <1>0, <1>4, <2>3, <2>4, RowIsCurrent
    <3>2. "add" \in Adding /\ "add" \notin CorpusDone /\ "add" \notin ParentsDone /\ "add" \notin AllDone
      BY DEF CorpusDone, ParentsDone, AllDone, Adding
    <3>3. UNCHANGED <<file, record>> BY <1>0
    <3>4. Indexes(a, strict)' BY <1>2, <1>4, <2>1, <2>4, <3>1, <3>2, <3>3, IndexesKept
    <3> QED BY <1>4, <2>2, <2>4, <3>2, <3>4, IndexesOn
  <2>5. CASE p = "indexed"
    <3>1. Current(d) = {} BY <1>0, <1>4, <2>5, RowIsCurrent
    <3>2. Current(d)' = Current(d) BY <1>0 DEF Current
    <3>3. Full(d, strict)' BY <1>2, <2>1, <3>1, <3>2 DEF Full
    <3>4. UNCHANGED <<file, record>> BY <1>0
    <3>5. "indexed" \in AllDone /\ "indexed" \notin RowsAdded BY DEF AllDone, RowsAdded
    <3>6. Indexes(a, strict)' BY <1>2, <1>4, <2>5, <3>1, <3>3, <3>4, <3>5, IndexesKept
    <3> QED BY <1>4, <2>2, <2>5, <3>6, IndexesOn
  <2> QED BY <2>4, <2>5
<1>5. CASE Load(a)
  <2>1. Turns(a, "check", file[d], task[a].seen)
    <3>1. task' = [task EXCEPT ![a].at = "check", ![a].content = file[d]] BY <1>1, <1>5 DEF Load
    <3> QED BY <1>1, <3>1, AtWork, PlacesAre, Turning
  <2> QED BY <1>3, <2>1
<1>6. CASE CheckEvidence(a)
  <2> DEFINE new == Artifacts(task[a], file[d])
             accepted == Kept(task[a]) \subseteq {new}
  <2>1. task[a].content = file[d] BY <1>6 DEF CheckEvidence, Indexes
  <2>2. new.original # None BY <1>1 DEF Artifacts
  <2>3. new \in Evidence
    BY <1>1, <2>1, Held DEF Artifacts, Evidence
  <2>4. CASE ~accepted
    <3>1. task' = [task EXCEPT ![a].at = Failing(a), ![a].seen = {}] BY <1>6, <2>4 DEF CheckEvidence
    <3>2. CASE task[a].kind = "ingest"
      <4>1. Failing(a) = "failed" BY <3>2 DEF Failing
      <4>2. Turns(a, "failed", task[a].content, {}) BY <3>1, <4>1, AtWork, PlacesAre, Turning
      <4> QED BY <1>3, <4>2
    <3>3. CASE task[a].kind = "reindex" /\ strict
      <4>1. Failing(a) = "over" BY <3>3 DEF Failing
      <4>2. Turns(a, "over", task[a].content, {}) BY <3>1, <4>1, AtWork, PlacesAre, Turning
      <4>3. ~Ready(d)' /\ Known(d)' /\ file'[d] = record'[d].sha BY <1>0 DEF Ready, Known, Own
      <4>4. Rest(d, strict)' BY <1>2, <3>3, <4>3 DEF Rest, Empty
      <4>5. Alone(a) /\ ~Running(a)' BY <4>2, GoesOnRunning
      <4> QED BY <1>0, <4>4, <4>5, FollowsStop
    <3> QED BY <1>0, <3>2, <3>3
  <2>5. CASE accepted /\ Kept(task[a]) = {}
    <3>1. task' = [task EXCEPT ![a].at = "persist", ![a].seen = {new}]
      BY <1>6, <2>2, <2>5 DEF CheckEvidence
    <3>2. Turns(a, "persist", task[a].content, {new}) BY <2>3, <3>1, AtWork, PlacesAre, Turning
    <3>3. Artifacts(task[a], file[d])' = new BY <1>0, <3>2 DEF Artifacts, Turns
    <3> QED BY <1>3, <2>1, <3>2, <3>3
  <2>6. CASE accepted /\ Kept(task[a]) # {}
    <3> DEFINE p == IF task[a].content \in Blank THEN "indexed" ELSE "add"
    <3>1. task' = [task EXCEPT ![a].at = p, ![a].seen = {}]
      BY <1>6, <2>2, <2>6 DEF CheckEvidence
    <3>2. p \in Places BY PlacesAre
    <3>3. Turns(a, p, task[a].content, {}) BY <3>1, <3>2, AtWork, Turning
    <3>4. new \in evidence' BY <1>6, <2>6 DEF Kept, CheckEvidence
    <3> QED BY <1>4, <2>1, <3>3, <3>4
  <2> QED BY <2>4, <2>5, <2>6
<1>7. CASE Persist(a)
  <2> DEFINE p == IF task[a].content \in Blank THEN "indexed" ELSE "add"
  <2>1. task[a].content = file[d] /\ task[a].seen = {Artifacts(task[a], file[d])}
    BY <1>7 DEF Persist, Indexes
  <2>2. task' = [task EXCEPT ![a].at = p, ![a].seen = {}] BY <1>7 DEF Persist
  <2>3. p \in Places BY PlacesAre
  <2>4. Turns(a, p, task[a].content, {}) BY <2>2, <2>3, AtWork, Turning
  <2>5. Artifacts(task[a], file[d]) \in evidence' BY <1>7, <2>1 DEF Persist
  <2> QED BY <1>4, <2>1, <2>4, <2>5
<1> QED BY <1>5, <1>6, <1>7

\* The row goes into the three stores.
LEMMA AddStep ==
    ASSUME Typed, NEW strict \in BOOLEAN, NEW a \in Actors, NEW d \in Sources, task[a].src = d,
           Only(a), Indexes(a, strict),
           AddReadCorpus(a) \/ AddCorpus(a) \/ AddReadParents(a) \/ AddParents(a) \/ AddVectors(a)
    PROVE  Follows(d, strict)'
<1> DEFINE row == Row(task[a])
<1> USE DEF RowsAdded, CorpusDone, ParentsDone, AllDone, Adding
<1>0. /\ Current(d) = {row} /\ row.src = d
      /\ strict => Evident(d)
      /\ task[a].content = file[d]
      /\ UNCHANGED <<file, record, evidence, queue>>
      /\ RowsOf(d, corpus) = IF task[a].at \in CorpusDone THEN {row} ELSE {}
      /\ RowsOf(d, parents) = IF task[a].at \in ParentsDone THEN {row} ELSE {}
      /\ strict => RowsOf(d, vectors) = {}
      /\ corpus \in SUBSET (IndexRow \cup Evidence) /\ parents \in SUBSET (IndexRow \cup Evidence)
  BY DEF AddReadCorpus, AddCorpus, AddReadParents, AddParents, AddVectors, Indexes, Row, Typed, TypeOK
<1>1. \A store : RowsOf(d, store \cup {row}) = RowsOf(d, store) \cup {row}
  BY <1>0 DEF RowsOf
<1>2. (strict => Evident(d)') /\ Current(d)' = Current(d)
  BY <1>0 DEF Evident, Current
<1>3. ASSUME NEW p \in {"add_corpus", "add_parents", "add_parent_rows", "add_vectors", "indexed"}, NEW s,
             Turns(a, p, task[a].content, s),
             p = "add_corpus" => s = corpus',
             p = "add_parent_rows" => s = parents',
             RowsOf(d, corpus') = IF p \in CorpusDone THEN {row} ELSE {},
             RowsOf(d, parents') = IF p \in ParentsDone THEN {row} ELSE {},
             IF p = "indexed" THEN {row} \subseteq vectors' /\ (strict => RowsOf(d, vectors') = {row})
             ELSE strict => RowsOf(d, vectors') = {}
      PROVE  Follows(d, strict)'
  <2>1. p \in Adding \cup {"indexed", "settle", "failed"} /\ UNCHANGED <<file, record>> /\ queue' = queue
    BY <1>0
  <2>2. Row(task[a])' = row BY <1>3 DEF Row, Turns
  <2>3. p \notin AllDone => (strict => RowsOf(d, vectors') = {}) BY <1>3
  <2>4. p \in AllDone => Full(d, strict)'
    <3>1. p \in AllDone => p = "indexed" OBVIOUS
    <3> HIDE DEF row
    <3> QED BY <1>0, <1>2, <1>3, <3>1 DEF Full
  <2>5. p \in RowsAdded => Current(d) = {Row(task[a])'} /\ (strict => Evident(d)')
    BY <1>0, <1>2, <2>2
  <2>6. /\ RowsOf(d, corpus') = IF p \in CorpusDone THEN Current(d) ELSE {}
        /\ RowsOf(d, parents') = IF p \in ParentsDone THEN Current(d) ELSE {}
        /\ p # "persist"
    BY <1>0, <1>3
  <2>7. Indexes(a, strict)'
    <3> HIDE DEF row, RowsAdded, CorpusDone, ParentsDone, AllDone, Adding
    <3> QED BY <1>0, <1>3, <2>1, <2>3, <2>4, <2>5, <2>6, IndexesKept
  <2> HIDE DEF row, RowsAdded, CorpusDone, ParentsDone, AllDone, Adding
  <2> QED BY <1>3, <2>1, <2>7, IndexesOn
<1>4. CASE AddReadCorpus(a)
  <2>1. Turns(a, "add_corpus", task[a].content, corpus)
    BY <1>0, <1>4, AtWork, PlacesAre, Turning DEF AddReadCorpus
  <2>2. UNCHANGED <<corpus, parents, vectors>> /\ task[a].at = "add" BY <1>4 DEF AddReadCorpus, stores
  <2> HIDE DEF row
  <2> QED BY <1>0, <1>3, <2>1, <2>2
<1>5. CASE AddCorpus(a)
  <2>1. Turns(a, "add_parents", task[a].content, task[a].seen)
    BY <1>5, AtWork, PlacesAre, Turning DEF AddCorpus
  <2>2. /\ UNCHANGED <<parents, vectors>> /\ task[a].at = "add_corpus"
        /\ task[a].seen = corpus /\ corpus' = corpus \cup {row}
    BY <1>5 DEF AddCorpus, Indexes
  <2> HIDE DEF row
  <2> QED BY <1>0, <1>1, <1>3, <2>1, <2>2
<1>6. CASE AddReadParents(a)
  <2>1. Turns(a, "add_parent_rows", task[a].content, parents)
    BY <1>0, <1>6, AtWork, PlacesAre, Turning DEF AddReadParents
  <2>2. UNCHANGED <<corpus, parents, vectors>> /\ task[a].at = "add_parents" BY <1>6 DEF AddReadParents, stores
  <2> HIDE DEF row
  <2> QED BY <1>0, <1>3, <2>1, <2>2
<1>7. CASE AddParents(a)
  <2>1. Turns(a, "add_vectors", task[a].content, {})
    BY <1>7, AtWork, PlacesAre, Turning DEF AddParents
  <2>2. /\ UNCHANGED <<corpus, vectors>> /\ task[a].at = "add_parent_rows"
        /\ task[a].seen = parents /\ parents' = parents \cup {row}
    BY <1>7 DEF AddParents, Indexes
  <2> HIDE DEF row
  <2> QED BY <1>0, <1>1, <1>3, <2>1, <2>2
<1>8. CASE AddVectors(a)
  <2>1. Turns(a, "indexed", task[a].content, task[a].seen)
    BY <1>8, AtWork, PlacesAre, Turning DEF AddVectors
  <2>2. /\ UNCHANGED <<corpus, parents>> /\ task[a].at = "add_vectors" /\ vectors' = vectors \cup {row}
    BY <1>8 DEF AddVectors
  <2> HIDE DEF row
  <2> QED BY <1>0, <1>1, <1>3, <2>1, <2>2
<1> QED BY <1>4, <1>5, <1>6, <1>7, <1>8

\* The record is settled.
LEMMA SettleStep ==
    ASSUME Typed, NEW strict \in BOOLEAN, NEW a \in Actors, NEW d \in Sources, task[a].src = d,
           Only(a), Indexes(a, strict),
           HashFile(a) \/ EndReindex(a) \/ EndJob(a)
    PROVE  Follows(d, strict)'
<1>0. /\ Own(a) /\ ~Ready(d) /\ UNCHANGED <<file, stores, evidence, queue>>
      /\ task[a].kind = "ingest" \/ (strict /\ task[a].kind = "reindex")
  BY DEF HashFile, EndReindex, EndJob, Indexes
<1>1. file[d] \in Contents /\ file[d] # None /\ record[d] \in Record BY <1>0, OwnFile
<1>2. CASE HashFile(a)
  <2>1. task[a].at = "indexed" /\ UNCHANGED <<file, record>>
    BY <1>2 DEF HashFile, Indexes, Adding
  <2>2. task' = [task EXCEPT ![a].at = "settle", ![a].content = file[d]]
    BY <1>1, <1>2, <2>1 DEF HashFile
  <2>3. Turns(a, "settle", file[d], task[a].seen)
    BY <1>1, <2>2, AtWork, PlacesAre, Turning
  <2>4. Full(d, strict) /\ RowsOf(d, corpus) = Current(d) /\ RowsOf(d, parents) = Current(d)
    BY <2>1 DEF Indexes, CorpusDone, ParentsDone, AllDone
  <2>5. Full(d, strict)'
    <3>1. Current(d)' = Current(d) BY <2>1 DEF Current
    <3>2. Evident(d) => Evident(d)' BY <1>0, <2>1 DEF Evident
    <3> QED BY <1>0, <2>4, <3>1, <3>2 DEF Full, stores
  <2>6. RowsOf(d, corpus') = Current(d) /\ RowsOf(d, parents') = Current(d) BY <1>0, <2>4 DEF stores
  <2>7. "settle" \in CorpusDone /\ "settle" \in ParentsDone /\ "settle" \in AllDone /\ "settle" \notin RowsAdded
    BY DEF CorpusDone, ParentsDone, AllDone, RowsAdded
  <2>8. Indexes(a, strict)' BY <2>1, <2>3, <2>5, <2>6, <2>7, IndexesKept
  <2>9. queue' = queue BY <1>0
  <2> QED BY <2>3, <2>8, <2>9, IndexesOn
<1>3. ASSUME NEW m \in Record, record'[d] = m, m.id = record[d].id, m.version = record[d].version,
             m.sha = record[d].sha, m.status = "ready" => Full(d, strict),
             m.status # "ready" => (strict => RowsOf(d, vectors) = {})
                                   /\ RowsOf(d, corpus) = {} /\ RowsOf(d, parents) = {},
             Alone(a), ~Running(a)'
      PROVE  Follows(d, strict)'
  <2>1. Current(d)' = Current(d) BY <1>3 DEF Current
  <2>2. Evident(d) => Evident(d)' BY <1>0, <1>3 DEF Evident
  <2>3. Known(d)' /\ (Ready(d)' <=> m.status = "ready") BY <1>3, RecordsAssumption DEF Known, Ready
  <2>4. Ready(d)' => Full(d, strict)' BY <1>0, <1>3, <2>1, <2>2, <2>3 DEF Full, stores
  <2>5. strict /\ ~Ready(d)' => Empty(d, TRUE)' BY <1>0, <1>3, <2>3 DEF Empty, stores
  <2>6. file'[d] = record'[d].sha BY <1>0, <1>3 DEF Own
  <2>7. Rest(d, strict)' BY <2>3, <2>4, <2>5, <2>6 DEF Rest
  <2>8. queue' = queue BY <1>0
  <2> QED BY <1>3, <2>7, <2>8, FollowsStop
<1>4. CASE EndReindex(a)
  <2>1. Turns(a, "over", task[a].content, task[a].seen)
    BY <1>4, AtWork, PlacesAre, Turning DEF EndReindex
  <2>2. task[a].content = record[d].sha /\ Full(d, strict)
    BY <1>4 DEF EndReindex, Indexes, Own, AllDone
  <2>3. record'[d] = [record[d] EXCEPT !.status = "ready", !.sha = record[d].sha]
    BY <1>0, <1>4, <2>2, AtWork DEF EndReindex, WithHash, Own
  <2> DEFINE m == [record[d] EXCEPT !.status = "ready", !.sha = record[d].sha]
  <2>4. m \in Record /\ m.id = record[d].id /\ m.version = record[d].version
        /\ m.sha = record[d].sha /\ m.status = "ready"
    BY <1>1 DEF Record, Statuses
  <2>5. Alone(a) /\ ~Running(a)' BY <2>1, GoesOnRunning
  <2>6. record'[d] = m BY <2>3
  <2> HIDE DEF m
  <2> QED BY <1>3, <2>2, <2>4, <2>5, <2>6
<1>5. CASE EndJob(a)
  <2> DEFINE s == JobStatus(task[a])
             m == [record[d] EXCEPT !.status = s]
  <2>1. task[a].at \in {"indexed", "failed"} BY <1>5 DEF EndJob
  <2>2. s = (IF task[a].at = "indexed" THEN "ready" ELSE "failed") BY DEF JobStatus
  <2>3. record'[d] = m BY <1>0, <1>5, AtWork DEF EndJob, HasRecord, Own
  <2>4. s \in Statuses BY <2>1, <2>2 DEF Statuses
  <2>5. m \in Record /\ m.id = record[d].id /\ m.version = record[d].version
        /\ m.sha = record[d].sha /\ m.status = s
    <3> HIDE DEF s
    <3> QED BY <1>1, <2>4 DEF Record
  <2>6. task[a].at = "indexed" => Full(d, strict) BY DEF Indexes, AllDone
  <2>7. task[a].at = "failed" => (strict => RowsOf(d, vectors) = {})
                                 /\ RowsOf(d, corpus) = {} /\ RowsOf(d, parents) = {}
    BY DEF Indexes, AllDone, CorpusDone, ParentsDone
  <2>8. Alone(a) /\ ~Running(a)' BY <1>5, Held DEF EndJob, Alone, Running, NoTask, Doing
  <2> HIDE DEF m
  <2> QED BY <1>3, <2>1, <2>2, <2>3, <2>5, <2>6, <2>7, <2>8
<1> QED BY <1>2, <1>4, <1>5

\* A worker takes the one job that waits.
LEMMA TakenStep ==
    ASSUME Typed, NEW strict \in BOOLEAN, NEW d \in Sources, Waits(d, strict), NEW w \in Workers, TakeJob(w)
    PROVE  Follows(d, strict)'
<1>0. w \in Actors /\ task \in [Actors -> Task] /\ record[d] \in Record /\ record \in [Sources -> Record \cup {None}]
  BY RecordOf DEF Actors, Typed, TypeOK, Waits
<1>1. /\ Head(queue)[1] = d /\ Head(queue)[2] = record[d].id /\ Head(queue)[3] = record[d].version
      /\ Tail(queue) = << >>
  BY DEF Waits
<1>2. HasRecord(d, record[d].id) BY DEF Waits, HasRecord
<1>3. /\ task' = [task EXCEPT ![w] = Doing("load", "ingest", d, None, record[d].id, record[d].version)]
      /\ record' = [record EXCEPT ![d].status = "indexing"]
      /\ queue' = << >> /\ UNCHANGED <<file, stores>>
  BY <1>1, <1>2 DEF TakeJob
<1>4. /\ task'[w].at = "load" /\ task'[w].kind = "ingest" /\ task'[w].src = d
      /\ task'[w].id = record[d].id /\ task'[w].version = record[d].version
      /\ \A b \in Actors \ {w} : task'[b] = task[b]
  BY <1>0, <1>3 DEF Doing
<1>5. record'[d] = [record[d] EXCEPT !.status = "indexing"] BY <1>0, <1>3
<1>6. /\ record'[d] \in Record /\ record'[d].id = record[d].id /\ record'[d].version = record[d].version
      /\ record'[d].sha = record[d].sha /\ record'[d].status = "indexing"
  BY <1>0, <1>5 DEF Record, Statuses
<1>7. Own(w)' /\ ~Ready(d)'
  BY <1>3, <1>4, <1>6, RecordsAssumption DEF Own, Known, Ready, Waits
<1>8. Empty(d, strict)' BY <1>3 DEF Empty, Waits, stores
<1>9. Indexes(w, strict)'
  BY <1>4, <1>7, <1>8 DEF Indexes, Empty, Adding, RowsAdded, CorpusDone, ParentsDone, AllDone
<1>10. Only(w)'
  <2>1. \A b \in Actors \ {w} : ~Running(b)' BY <1>4 DEF Waits, Running
  <2>2. (\A b \in Actors \ {w} : ~Running(b))' BY <2>1
  <2> QED BY <1>3, <1>4, <2>2 DEF Only, Running
<1>11. Phase(w, strict)' BY <1>9 DEF Phase
<1> QED BY <1>0, <1>4, <1>10, <1>11 DEF Follows

-----------------------------------------------------------------------------
(* Every step of the one task, of the one job and of the others.           *)

\* Whoever takes a step of an operation under way is running.
LEMMA Runs ==
    ASSUME NEW a \in Actors
    PROVE  /\ Clear(a) \/ Ingest(a) \/ Fault(a) \/ EndJob(a) => Running(a)
           /\ Passes(a) /\ ~Running(a) =>
                 task[a].at = "idle" /\ Move(a, "over")
                 /\ UNCHANGED <<file, record, stores, evidence, queue>>
<1>1. Clear(a) \/ Ingest(a) \/ Fault(a) \/ EndJob(a) => Running(a)
  BY DEF Clear, Ingest, ClearReadCorpus, ClearVectors, ClearCorpus, ClearReadParents, ClearParents,
         Load, CheckEvidence, Persist, AddReadCorpus, AddCorpus, AddReadParents, AddParents,
         AddVectors, Fault, EndJob, Clearing, Adding, Running
<1>2. Passes(a) /\ ~Running(a) =>
         task[a].at = "idle" /\ Move(a, "over") /\ UNCHANGED <<file, record, stores, evidence, queue>>
  BY DEF Passes, ReuseUpload, ReplaceFile, Register, KeepFile, RemoveFile, Forget, MarkReindexing,
         Reload, EndReindex, HashFile, WatchCleared, EndWatch, StartReindex, Running
<1> QED BY <1>1, <1>2

\* Nothing about a source depends on a task that does not run.
LEMMA PhaseKept ==
    ASSUME NEW strict \in BOOLEAN, NEW a \in Actors, Phase(a, strict), task'[a] = task[a],
           UNCHANGED <<file, record, stores, evidence>>
    PROVE  Phase(a, strict)'
<1>1. /\ Own(a)' <=> Own(a)
      /\ \A d : /\ Ready(d)' <=> Ready(d)
                /\ Known(d)' <=> Known(d)
                /\ Current(d)' = Current(d)
                /\ Evident(d)' <=> Evident(d)
      /\ \A t, row : Selected(t, row)' <=> Selected(t, row)
  BY DEF Own, Ready, Known, Current, Evident, Selected
<1>2. \A d : /\ Empty(d, strict)' <=> Empty(d, strict)
             /\ Empty(d, TRUE)' <=> Empty(d, TRUE)
             /\ Full(d, strict)' <=> Full(d, strict)
             /\ Full(d, TRUE)' <=> Full(d, TRUE)
  BY <1>1 DEF Empty, Full, stores
<1>3. \A d : Rest(d, TRUE)' <=> Rest(d, TRUE)
  BY <1>1, <1>2 DEF Rest
<1>4. Opens(a, strict) => Opens(a, strict)' BY <1>1, <1>3 DEF Opens
<1>5. Clears(a, strict) => Clears(a, strict)' BY <1>1 DEF Clears, stores, Own, Selected
<1>6. Forgets(a, strict) => Forgets(a, strict)' BY <1>1, <1>2 DEF Forgets
<1>7. Indexes(a, strict) => Indexes(a, strict)' BY <1>1, <1>2 DEF Indexes, stores
<1> QED BY <1>4, <1>5, <1>6, <1>7 DEF Phase

LEMMA IdleStep ==
    ASSUME Typed, NEW strict \in BOOLEAN, NEW d \in Sources, Follows(d, strict), ~Apart(d),
           NEW r \in Actors, Passes(r), ~Running(r)
    PROVE  Follows(d, strict)'
<1>1. /\ UNCHANGED <<file, record, stores, evidence, queue>>
      /\ task'[r].at = "over" /\ \A b \in Actors \ {r} : task'[b] = task[b]
  <2>1. UNCHANGED <<file, record, stores, evidence, queue>> /\ Move(r, "over") BY Runs
  <2>2. GoesOn(r, "over", task[r].seen) BY <2>1, Held, Going, PlacesAre
  <2> QED BY <2>1, <2>2 DEF GoesOn, Goes, Alone
<1>2. \A b \in Actors : Running(b)' => Running(b)
  BY <1>1 DEF Running
<1>3. CASE Waits(d, strict)
  <2>1. (\A b \in Actors : ~Running(b))' BY <1>2, <1>3 DEF Waits
  <2>2. Waits(d, strict)' BY <1>1, <1>3, <2>1 DEF Waits, Known, Ready, Empty, stores
  <2> QED BY <2>2 DEF Follows
<1>4. CASE \E a \in Actors : Only(a) /\ task[a].src = d /\ Phase(a, strict)
  <2>1. PICK a \in Actors : Only(a) /\ task[a].src = d /\ Phase(a, strict) BY <1>4
  <2>2. a # r /\ task'[a] = task[a] BY <1>1, <2>1 DEF Only
  <2>3. Phase(a, strict)' BY <1>1, <2>1, <2>2, PhaseKept
  <2>4. (\A b \in Actors \ {a} : ~Running(b))' BY <1>2, <2>1 DEF Only
  <2>5. Only(a)' BY <1>1, <2>1, <2>2, <2>4 DEF Only, Running
  <2> QED BY <2>1, <2>2, <2>3, <2>5 DEF Follows
<1> QED BY <1>3, <1>4 DEF Follows

\* The steps that a task in one of these phases can take.
LEMMA Working ==
    ASSUME NEW strict \in BOOLEAN, NEW a \in Actors, Running(a),
           Passes(a) \/ EndJob(a) \/ Clear(a) \/ Ingest(a)
    PROVE  /\ Opens(a, strict) => ReplaceFile(a) \/ HashFile(a) \/ MarkReindexing(a)
           /\ Clears(a, strict) => Clear(a) \/ Register(a) \/ KeepFile(a) \/ RemoveFile(a) \/ Reload(a)
           /\ Forgets(a, strict) => Forget(a)
           /\ Indexes(a, strict) => Ingest(a) \/ HashFile(a) \/ EndReindex(a) \/ EndJob(a)
<1> USE DEF Passes, ReuseUpload, ReplaceFile, Register, KeepFile, RemoveFile, Forget, MarkReindexing,
            Reload, EndReindex, HashFile, WatchCleared, EndWatch, StartReindex, EndJob
<1>c. Clear(a) => task[a].at \in Clearing
  BY DEF Clear, ClearReadCorpus, ClearVectors, ClearCorpus, ClearReadParents, ClearParents, Clearing
<1>i. Ingest(a) => task[a].at \in Adding
  BY DEF Ingest, Load, CheckEvidence, Persist, AddReadCorpus, AddCorpus, AddReadParents, AddParents,
         AddVectors, Adding
<1>1. Opens(a, strict) => task[a].at \in {"store", "hash", "mark"} BY DEF Opens
<1>2. Opens(a, strict) => ReplaceFile(a) \/ HashFile(a) \/ MarkReindexing(a)
  BY <1>c, <1>i, <1>1 DEF Clearing, Adding
<1>3. Clears(a, strict) => task[a].at \in Clearing \cup {"cleared"} /\ task[a].kind \notin {"watch", "ingest"}
  BY DEF Clears
<1>4. Clears(a, strict) => Clear(a) \/ Register(a) \/ KeepFile(a) \/ RemoveFile(a) \/ Reload(a)
  BY <1>i, <1>3 DEF Clearing, Adding
<1>5. Forgets(a, strict) => task[a].at \in {"forget", "forget_again"} BY DEF Forgets
<1>6. Forgets(a, strict) => Forget(a)
  BY <1>c, <1>i, <1>5 DEF Clearing, Adding
<1>7. Indexes(a, strict) => task[a].at \in Adding \cup {"indexed", "settle", "failed"}
                            /\ task[a].kind \in {"ingest", "reindex"}
  BY DEF Indexes
<1>8. Indexes(a, strict) => Ingest(a) \/ HashFile(a) \/ EndReindex(a) \/ EndJob(a)
  BY <1>c, <1>7 DEF Clearing, Adding
<1> QED BY <1>2, <1>4, <1>6, <1>8

LEMMA PhaseOn ==
    ASSUME Typed, NEW strict \in BOOLEAN, NEW d \in Sources, NEW a \in Actors, Only(a),
           task[a].src = d, Phase(a, strict), Passes(a) \/ EndJob(a) \/ Clear(a) \/ Ingest(a)
    PROVE  Follows(d, strict)'
<1>0. Running(a) BY DEF Only
<1>1. CASE Opens(a, strict) BY <1>0, <1>1, Working, OpensStep
<1>2. CASE Clears(a, strict) BY <1>0, <1>2, Working, ClearsStep, ClearedStep
<1>3. CASE Forgets(a, strict) BY <1>0, <1>3, Working, ForgetsStep
<1>4. CASE Indexes(a, strict) BY <1>0, <1>4, Working, CheckStep, AddStep, SettleStep DEF Ingest
<1> QED BY <1>1, <1>2, <1>3, <1>4 DEF Phase

\* Where only one task or one job is at work, whatever takes a step that is not
\* a start, a failure or a kill is it.
LEMMA FollowsWorking ==
    ASSUME Typed, Next, NEW strict \in BOOLEAN, NEW d \in Sources, Follows(d, strict), ~Apart(d),
           ~Crash, \A a \in Actors : ~Fault(a), \A r \in Requests, e \in Sources : ~Starting(r, e)
    PROVE  Follows(d, strict)'
<1>0. Requests \subseteq Actors /\ Workers \subseteq Actors BY DEF Actors
<1>1. ASSUME NEW a \in Actors, Passes(a) \/ EndJob(a) \/ Clear(a) \/ Ingest(a)
      PROVE  Follows(d, strict)'
  <2>1. CASE ~Running(a) BY <1>1, <2>1, Runs, IdleStep
  <2>2. CASE Running(a)
    <3>1. PICK b \in Actors : Only(b) /\ task[b].src = d /\ Phase(b, strict)
      BY <2>2 DEF Follows, Waits
    <3>2. b = a BY <2>2, <3>1 DEF Only
    <3> QED BY <1>1, <3>1, <3>2, PhaseOn
  <2> QED BY <2>1, <2>2
<1>2. ASSUME NEW w \in Workers, TakeJob(w) PROVE Follows(d, strict)'
  <2>1. queue # << >> BY <1>2 DEF TakeJob
  <2>2. Waits(d, strict) BY <2>1 DEF Follows, Only
  <2> QED BY <1>2, <2>2, TakenStep
<1>3. ~Ended
  <2>1. ~Quiet BY DEF Follows, Waits, Only, Quiet
  <2> QED BY <2>1 DEF Ended
<1>4. \/ \E r \in Requests : Passes(r)
      \/ \E w \in Workers : TakeJob(w) \/ EndJob(w)
      \/ \E a \in Actors : Clear(a) \/ Ingest(a)
  BY <1>3, Steps DEF Starting
<1> QED BY <1>0, <1>1, <1>2, <1>4

\* Nothing works for d before the step, nor after it.
LEMMA FollowsApart ==
    ASSUME Typed, Next, NEW strict \in BOOLEAN, NEW d \in Sources, Apart(d), Rest(d, strict),
           d \notin InFlight', Crash => UNCHANGED <<corpus, parents>>,
           strict /\ Ready(d) /\ Evident(d) /\ Same(d) => Evident(d)'
    PROVE  Follows(d, strict)'
<1>1. Apart(d)' /\ Same(d) BY ApartStep
<1>2. Rest(d, strict)' BY <1>1, RestKept
<1> QED BY <1>1, <1>2 DEF Follows

LEMMA QuietRests ==
    ASSUME NEW strict, NEW d, Follows(d, strict), Quiet
    PROVE  Apart(d) /\ Rest(d, strict)
BY DEF Follows, Only, Waits, Quiet

LEMMA NotInFlight ==
    ASSUME Typed, NEW strict, NEW d, Follows(d, strict), d \notin InFlight
    PROVE  Apart(d) /\ Rest(d, strict)
<1>1. ~\E a \in Actors : Only(a) /\ task[a].src = d /\ Phase(a, strict)
  BY FlightIs DEF Only
<1>2. ~Waits(d, strict)
  <2>1. Waits(d, strict) => queue # << >> /\ Head(queue)[1] = d BY DEF Waits
  <2> QED BY <2>1, FlightIs
<1> QED BY <1>1, <1>2 DEF Follows

-----------------------------------------------------------------------------
(* What starts, and what evidence remains.                                 *)

LEMMA RestRows ==
    ASSUME NEW d, Rest(d, TRUE)
    PROVE  \A row \in RowsOf(d, corpus) \cup RowsOf(d, parents) :
              row.src = d /\ row.id = record[d].id /\ row.version = record[d].version
<1>1. RowsOf(d, corpus) \cup RowsOf(d, parents) \subseteq Current(d)
  BY DEF Rest, Full, Empty
<1> QED BY <1>1 DEF Current

\* Alone, an upload may do anything; what else starts needs the source in order.
LEMMA StartsStep ==
    ASSUME Typed, Quiet, NEW strict \in BOOLEAN, NEW r \in Requests, NEW d \in Sources,
           Starting(r, d), ~StartWatch(r, d), strict => Rest(d, TRUE),
           strict \/ \E c \in Contents : StartUpload(r, d, c)
    PROVE  Follows(d, strict)'
<1>0. r \in Actors /\ task \in [Actors -> Task] BY DEF Actors, Typed, TypeOK
<1>1. UNCHANGED <<file, record, stores, evidence, queue>>
  BY DEF Starting, StartUpload, StartDelete, StartReindex
<1>2. PICK p, k, c, i, v : /\ p \in {"store", "clear", "hash"}
                          /\ task' = [task EXCEPT ![r] = Doing(p, k, d, c, i, v)]
  BY DEF Starting, StartUpload, StartDelete, StartReindex, For
<1>3. task'[r] = Doing(p, k, d, c, i, v) /\ \A b \in Actors \ {r} : task'[b] = task[b] BY <1>0, <1>2
<1>4. Only(r)' /\ task'[r].src = d
  <2>1. (\A b \in Actors \ {r} : ~Running(b))' BY <1>3 DEF Quiet, Running
  <2>2. task'[r].at = p /\ task'[r].src = d BY <1>3 DEF Doing
  <2>3. Running(r)' BY <1>2, <2>2 DEF Running
  <2>4. queue' = << >> BY <1>1 DEF Quiet
  <2> QED BY <2>1, <2>2, <2>3, <2>4 DEF Only
<1>5. strict => Rest(d, TRUE)'
  <2>1. Same(d) /\ (Evident(d) => Evident(d)') BY <1>1 DEF Same, stores, Evident
  <2> QED BY <2>1, RestKept
<1>6. CASE \E x \in Contents : StartUpload(r, d, x)
  <2>1. task'[r].at = "store" /\ task'[r].kind = "upload" BY <1>0, <1>6 DEF StartUpload, Doing
  <2>2. Opens(r, strict)' BY <1>4, <1>5, <2>1 DEF Opens
  <2>3. Phase(r, strict)' BY <2>2 DEF Phase
  <2> QED BY <1>0, <1>4, <2>3 DEF Follows
<1>7. CASE StartDelete(r, d)
  <2>1. /\ strict /\ Rest(d, TRUE) /\ Known(d)
        /\ ~\E x \in Contents : StartUpload(r, d, x)
        /\ task'[r].at = "clear" /\ task'[r].kind \in {"delete", "remove"}
        /\ task'[r].id = record[d].id /\ task'[r].version = record[d].version
    <3>1. PICK kind \in {"delete", "remove"} : task' = [task EXCEPT ![r] = For(kind, d, "clear")]
      BY <1>7 DEF StartDelete
    <3>2. task'[r].at = "clear" /\ task'[r].kind = kind
          /\ task'[r].id = record[d].id /\ task'[r].version = record[d].version
      BY <1>0, <3>1 DEF For, Doing
    <3>3. ~\E x \in Contents : StartUpload(r, d, x)
      BY <1>0, <3>2 DEF StartUpload, Doing
    <3> QED BY <1>7, <3>2, <3>3 DEF StartDelete
  <2>2. Own(r)' BY <1>1, <1>4, <2>1 DEF Own, Known, Rest
  <2>3. \A row \in RowsOf(d, corpus) \cup RowsOf(d, parents) : Selected(task'[r], row)
    BY <1>4, <2>1, RestRows DEF Selected
  <2>4. (\A row \in RowsOf(d, corpus) \cup RowsOf(d, parents) : Selected(task[r], row))'
    BY <1>1, <2>3 DEF Selected, stores
  <2>5. RowsOf(d, vectors') \subseteq corpus' BY <1>1, <2>1, RestSubset DEF stores
  <2>6. Clears(r, strict)'
    BY <1>4, <2>1, <2>2, <2>4, <2>5 DEF Clears, Clearing
  <2>7. Phase(r, strict)' BY <2>6 DEF Phase
  <2> QED BY <1>0, <1>4, <2>7 DEF Follows
<1>8. CASE StartReindex(r, d) /\ ~Move(r, "over")
  <2>1. task' = [task EXCEPT ![r] = For("reindex", d, "hash")] /\ Known(d) BY <1>8 DEF StartReindex
  <2>2. task'[r].at = "hash" /\ task'[r].kind = "reindex"
        /\ task'[r].id = record[d].id /\ task'[r].version = record[d].version
    BY <1>0, <2>1 DEF For, Doing
  <2>3. ~\E x \in Contents : StartUpload(r, d, x) BY <1>0, <2>2 DEF StartUpload, Doing
  <2>4. strict /\ Rest(d, TRUE) BY <2>3
  <2>5. Own(r)' BY <1>1, <1>4, <2>1, <2>2, <2>4 DEF Own, Known, Rest
  <2>6. Opens(r, strict)' BY <1>4, <1>5, <2>2, <2>4, <2>5 DEF Opens
  <2>7. Phase(r, strict)' BY <2>6 DEF Phase
  <2> QED BY <1>0, <1>4, <2>7 DEF Follows
<1> QED BY <1>6, <1>7, <1>8 DEF Starting

\* Artifacts are replaced only by a task for their own document, which in good
\* order has an id that no other source's document has.
LEMMA EvidentKept ==
    ASSUME Typed, RecordsFit(record, lastId), Next, \A e \in Sources : Follows(e, TRUE),
           NEW d \in Sources, d \notin InFlight, Ready(d), Evident(d), Same(d)
    PROVE  Evident(d)'
<1>1. PICK x \in evidence : /\ x.id = record[d].id /\ x.version = record[d].version
                            /\ x.original = file[d] /\ x.parsed = file[d]
  BY DEF Evident
<1>2. ASSUME NEW a \in Actors, Persist(a) PROVE x \in evidence'
  <2>1. Running(a) /\ task[a].src \in Sources
    BY <1>2, Held DEF Persist, Running, Sound
  <2> DEFINE e == task[a].src
  <2>2. e \in InFlight BY <2>1, FlightIs
  <2>3. e # d BY <2>2
  <2>4. Follows(e, TRUE) BY <2>1
  <2>5. PICK b \in Actors : Only(b) /\ task[b].src = e /\ Phase(b, TRUE)
    BY <2>1, <2>2, <2>4 DEF Follows, Apart, Waits
  <2>6. b = a BY <2>1, <2>5 DEF Only
  <2>7. Own(a)
    BY <1>2, <2>5, <2>6 DEF Persist, Phase, Opens, Clears, Forgets, Indexes, Clearing
  <2>8. Known(e) /\ Known(d) /\ task[a].id = record[e].id BY <2>7 DEF Own, Ready
  <2>9. record[e].id # record[d].id BY <2>1, <2>3, <2>8 DEF RecordsFit, Known
  <2>10. x \notin Kept(task[a]) BY <1>1, <2>8, <2>9 DEF Kept, SameDocument
  <2> QED BY <1>2, <2>10 DEF Persist
<1>3. (\A a \in Actors : ~Persist(a)) => evidence' = evidence
  BY DEF Next, Request, Begin, Clear, Ingest, ReuseUpload, ReplaceFile, Register, KeepFile, RemoveFile,
         Forget, MarkReindexing, Reload, EndReindex, HashFile, WatchCleared, EndWatch, StartReindex,
         StartUpload, StartDelete, StartWatch, TakeJob, EndJob, Fault, Crash, Ended, vars,
         ClearReadCorpus, ClearVectors, ClearCorpus, ClearReadParents, ClearParents,
         Load, CheckEvidence, AddReadCorpus, AddCorpus, AddReadParents, AddParents, AddVectors
<1>4. x \in evidence' BY <1>2, <1>3
<1> QED BY <1>1, <1>4 DEF Evident, Same

-----------------------------------------------------------------------------
(* An upload repairs its source; operations that take turns are exact.     *)

\* Where d is not in flight a failure, a kill or another source's start is
\* nothing to it.
LEMMA FlightAfter ==
    ASSUME Typed, KindInv, Next, NEW d \in Sources, d \notin InFlight, \A r \in Requests : ~Starting(r, d)
    PROVE  d \notin InFlight'
<1>1. CASE \E r \in Requests, e \in Sources : Starting(r, e)
  BY <1>1, FlightStep
<1>2. CASE ~\E r \in Requests, e \in Sources : Starting(r, e)
  BY <1>2, FlightStep
<1> QED BY <1>1, <1>2

LEMMA FreshStep ==
    ASSUME Typed, KindInv, FollowInv, Next, NEW d \in fresh'
    PROVE  Follows(d, FALSE)'
<1>0. Requests \subseteq Actors /\ Workers \subseteq Actors BY DEF Actors
<1>t. fresh \subseteq Sources BY DEF Typed, TypeOK
<1>1. ASSUME d \in fresh, d \notin InFlight, d \notin InFlight', Crash => UNCHANGED <<corpus, parents>>
      PROVE  Follows(d, FALSE)'
  <2>1. Follows(d, FALSE) BY <1>1 DEF FollowInv
  <2>2. Apart(d) /\ Rest(d, FALSE) BY <1>1, <2>1, NotInFlight
  <2> QED BY <1>1, <1>t, <2>2, FollowsApart
<1>2. CASE \E r \in Requests, e \in Sources : Starting(r, e)
  <2>1. PICK r \in Requests, e \in Sources : Starting(r, e) BY <1>2
  <2>2. r \in Actors /\ task \in [Actors -> Task] BY <1>0 DEF Typed, TypeOK
  <2>3. InFlight' \subseteq InFlight \cup {e} BY <2>1, FlightStep
  <2>4. ~Crash
    <3>1. task'[r].at \in {"store", "clear", "hash"}
      BY <2>1, <2>2 DEF Starting, StartUpload, StartDelete, StartReindex, StartWatch, For, Doing
    <3> QED BY <2>2, <3>1 DEF Crash, NoTask, Doing, Running
  <2>5. CASE fresh' = fresh \ (InFlight \cup {e})
    BY <1>1, <2>3, <2>4, <2>5
  <2>6. CASE fresh' = fresh \cup {e} /\ Quiet /\ \E c \in Contents : StartUpload(r, e, c)
    <3>1. InFlight = {} BY <2>6, FlightIs
    <3>2. CASE d = e
      <4>1. ~StartWatch(r, e)
        <5>1. task'[r].kind = "upload" BY <2>2, <2>6 DEF StartUpload, Doing
        <5> QED BY <2>2, <5>1 DEF StartWatch, Doing
      <4> QED BY <2>1, <2>6, <3>2, <4>1, StartsStep
    <3>3. CASE d # e
      BY <1>1, <2>3, <2>4, <2>6, <3>1, <3>3
    <3> QED BY <3>2, <3>3
  <2>7. \/ fresh' = fresh \ (InFlight \cup {e})
        \/ fresh' = fresh \cup {e} /\ Quiet /\ \E c \in Contents : StartUpload(r, e, c)
    <3>1. CASE StartWatch(r, e) BY <3>1 DEF StartWatch
    <3>2. CASE ~StartWatch(r, e)
      <4>1. Begins(r, e)
        BY <2>1, <3>2 DEF Starting, StartUpload, StartDelete, StartReindex
      <4>2. task'[r].kind = "upload" => \E c \in Contents : StartUpload(r, e, c)
        BY <2>1, <2>2, <3>2 DEF Starting, StartDelete, StartReindex, For, Doing
      <4> QED BY <4>1, <4>2 DEF Begins
    <3> QED BY <3>1, <3>2
  <2> QED BY <2>5, <2>6, <2>7
<1>3. CASE ~\E r \in Requests, e \in Sources : Starting(r, e)
  <2>1. InFlight' \subseteq InFlight BY <1>3, FlightStep
  <2>2. CASE Crash
    <3>1. d \in fresh \ InFlight /\ UNCHANGED <<corpus, parents>> BY <2>2 DEF Crash
    <3> QED BY <1>1, <2>1, <3>1
  <2>3. ASSUME ~Crash, NEW a \in Actors, Fault(a) PROVE Follows(d, FALSE)'
    <3>1. d \in fresh /\ d # task[a].src BY <2>3 DEF Fault
    <3>2. Running(a) BY <2>3, Runs
    <3>3. Follows(d, FALSE) BY <3>1 DEF FollowInv
    <3>4. Apart(d) BY <3>1, <3>2, <3>3 DEF Follows, Only, Waits
    <3> QED BY <1>1, <2>1, <2>3, <3>1, <3>4 DEF Apart
  <2>4. CASE ~Crash /\ \A a \in Actors : ~Fault(a)
    <3>1. fresh' = fresh
      <4>1. \/ \E r \in Requests : Passes(r)
            \/ \E w \in Workers : TakeJob(w) \/ EndJob(w)
            \/ \E a \in Actors : Clear(a) \/ Ingest(a)
            \/ Ended
        BY <1>3, <2>4, Steps DEF Starting
      <4>2. ASSUME NEW r \in Requests, Passes(r) PROVE fresh' = fresh
        <5>1. ASSUME NEW e \in Sources, StartReindex(r, e), Move(r, "over") PROVE UNCHANGED history
          <6>1. ~Starting(r, e) BY <1>3
          <6>2. CASE UpToDate(e) BY <5>1, <6>2 DEF StartReindex
          <6>3. CASE ~UpToDate(e)
            <7>1. task'[r].at = "hash" BY <1>0, <5>1, <6>3 DEF StartReindex, For, Doing, Typed, TypeOK
            <7>2. task'[r].at = "over" BY <1>0, <5>1, Held, Going, PlacesAre DEF GoesOn, Goes
            <7> QED BY <7>1, <7>2
          <6> QED BY <6>2, <6>3
        <5> QED BY <4>2, <5>1 DEF Passes, ReuseUpload, ReplaceFile, Register, KeepFile, RemoveFile, Forget,
                   MarkReindexing, Reload, EndReindex, HashFile, WatchCleared, EndWatch, history
      <4>3. ASSUME NEW w \in Workers, TakeJob(w) \/ EndJob(w) PROVE fresh' = fresh
        BY <4>3 DEF TakeJob, EndJob, history
      <4>4. ASSUME NEW a \in Actors, Clear(a) \/ Ingest(a) PROVE fresh' = fresh
        BY <4>4 DEF Clear, Ingest, ClearReadCorpus, ClearVectors, ClearCorpus, ClearReadParents, ClearParents,
                    Load, CheckEvidence, Persist, AddReadCorpus, AddCorpus, AddReadParents, AddParents,
                    AddVectors, history
      <4>5. Ended => fresh' = fresh BY DEF Ended, vars, history
      <4> QED BY <4>1, <4>2, <4>3, <4>4, <4>5
    <3>2. d \in fresh /\ Follows(d, FALSE) BY <3>1 DEF FollowInv
    <3>3. CASE Apart(d) BY <1>1, <2>1, <2>4, <3>2, <3>3 DEF Apart
    <3>4. CASE ~Apart(d) BY <1>3, <1>t, <2>4, <3>2, <3>4, FollowsWorking
    <3> QED BY <3>3, <3>4
  <2> QED BY <2>2, <2>3, <2>4
<1> QED BY <1>2, <1>3

\* No operation disturbs another, and none fails.
LEMMA TakesTurns ==
    ASSUME Typed, Next, ~disturbed'
    PROVE  /\ ~disturbed /\ ~Crash /\ \A a \in Actors : ~Fault(a)
           /\ \A r \in Requests, e \in Sources : ~StartWatch(r, e) /\ (Starting(r, e) => Quiet)
<1>1. ~Crash /\ \A a \in Actors : ~Fault(a) BY DEF Crash, Fault
<1>2. \A r \in Requests, e \in Sources : ~StartWatch(r, e) BY DEF StartWatch
<1>3. ASSUME NEW r \in Requests, NEW e \in Sources, Starting(r, e) PROVE Quiet /\ ~disturbed
  <2>1. Begins(r, e)
    BY <1>2, <1>3 DEF Starting, StartUpload, StartDelete, StartReindex
  <2> QED BY <2>1 DEF Begins
<1>4. disturbed \in BOOLEAN BY DEF Typed, TypeOK
<1>5. ~disturbed
  <2>1. CASE \E r \in Requests, e \in Sources : Starting(r, e) BY <1>3, <2>1
  <2>2. CASE ~\E r \in Requests, e \in Sources : Starting(r, e)
    <3>1. ASSUME NEW r \in Requests, Passes(r) PROVE ~disturbed
      <4>1. ASSUME NEW e \in Sources, StartReindex(r, e) PROVE ~disturbed
        BY <4>1 DEF StartReindex, Begins, history
      <4> QED BY <3>1, <4>1 DEF Passes, ReuseUpload, ReplaceFile, Register, KeepFile, RemoveFile, Forget,
                 MarkReindexing, Reload, EndReindex, HashFile, WatchCleared, EndWatch, history
    <3>2. ASSUME NEW w \in Workers, TakeJob(w) \/ EndJob(w) PROVE ~disturbed
      BY <3>2 DEF TakeJob, EndJob, history
    <3>3. ASSUME NEW a \in Actors, Clear(a) \/ Ingest(a) PROVE ~disturbed
      BY <3>3 DEF Clear, Ingest, ClearReadCorpus, ClearVectors, ClearCorpus, ClearReadParents, ClearParents,
                  Load, CheckEvidence, Persist, AddReadCorpus, AddCorpus, AddReadParents, AddParents,
                  AddVectors, history
    <3>4. Ended => ~disturbed BY DEF Ended, vars, history
    <3>5. \/ \E r \in Requests : Passes(r)
          \/ \E w \in Workers : TakeJob(w) \/ EndJob(w)
          \/ \E a \in Actors : Clear(a) \/ Ingest(a)
          \/ Ended
      BY <1>1, <2>2, Steps DEF Starting
    <3> QED BY <3>1, <3>2, <3>3, <3>4, <3>5
  <2> QED BY <2>1, <2>2
<1> QED BY <1>1, <1>2, <1>3, <1>5

LEMMA SerialStep ==
    ASSUME Typed, KindInv, RecordsFit(record, lastId), FollowInv, Next, ~disturbed', NEW d \in Sources
    PROVE  Follows(d, TRUE)'
<1>1. (\A e \in Sources : Follows(e, TRUE)) /\ ~Crash /\ \A a \in Actors : ~Fault(a)
  BY TakesTurns DEF FollowInv
<1>2. ASSUME d \notin InFlight, d \notin InFlight' PROVE Follows(d, TRUE)'
  <2>1. Apart(d) /\ Rest(d, TRUE) BY <1>1, <1>2, NotInFlight
  <2>2. Ready(d) /\ Evident(d) /\ Same(d) => Evident(d)' BY <1>1, <1>2, EvidentKept
  <2> QED BY <1>1, <1>2, <2>1, <2>2, FollowsApart
<1>3. CASE \E r \in Requests, e \in Sources : Starting(r, e)
  <2>1. PICK r \in Requests, e \in Sources : Starting(r, e) BY <1>3
  <2>2. Quiet /\ ~StartWatch(r, e) BY <2>1, TakesTurns
  <2>3. InFlight' \subseteq {e} /\ InFlight = {} BY <2>1, <2>2, FlightStep, FlightIs
  <2>4. CASE d = e
    <3>1. Rest(d, TRUE) BY <1>1, <2>2, QuietRests
    <3> QED BY <2>1, <2>2, <2>4, <3>1, StartsStep
  <2>5. CASE d # e BY <1>2, <2>3, <2>5
  <2> QED BY <2>4, <2>5
<1>4. CASE ~\E r \in Requests, e \in Sources : Starting(r, e)
  <2>1. InFlight' \subseteq InFlight BY <1>4, FlightStep
  <2>2. CASE Apart(d) BY <1>2, <2>1, <2>2 DEF Apart
  <2>3. CASE ~Apart(d) BY <1>1, <1>4, <2>3, FollowsWorking
  <2> QED BY <2>2, <2>3
<1> QED BY <1>3, <1>4

\* What a step leaves as it is, follows as it did.
LEMMA FollowsStutter ==
    ASSUME UNCHANGED vars, NEW d, NEW strict \in BOOLEAN, Follows(d, strict)
    PROVE  Follows(d, strict)'
<1>1. UNCHANGED <<file, record, stores, evidence, queue, task>> /\ UNCHANGED <<corpus, parents, vectors>>
  BY DEF vars, stores
<1>2. \A a \in Actors : Running(a)' <=> Running(a) BY <1>1 DEF Running
<1>3. InFlight' = InFlight BY <1>1 DEF InFlight, Running
<1>4. Apart(d) => Apart(d)' BY <1>1, <1>3 DEF Apart
<1>5. Rest(d, strict) => Rest(d, strict)'
  <2>1. Same(d) /\ (Evident(d) => Evident(d)') BY <1>1 DEF Same, Evident
  <2> QED BY <2>1, RestKept
<1>6. \A a \in Actors : Only(a) => Only(a)' BY <1>1, <1>2 DEF Only
<1>7. \A a \in Actors : Phase(a, strict) => Phase(a, strict)' BY <1>1, PhaseKept
<1>8. Waits(d, strict) => Waits(d, strict)' BY <1>1, <1>2 DEF Waits, Known, Ready, Empty
<1> QED BY <1>1, <1>4, <1>5, <1>6, <1>7, <1>8 DEF Follows

LEMMA InitFollows == Init => FollowInv
<1> SUFFICES ASSUME Init, NEW d \in Sources PROVE Follows(d, TRUE)
  BY DEF Init, FollowInv
<1>1. \A a \in Actors : ~Running(a) /\ task[a].at = "idle"
  BY DEF Init, Running, NoTask, Doing
<1>2. Apart(d)
  BY <1>1 DEF Init, Apart, InFlight, CorpusPlaces, ParentPlaces
<1>3. ~Known(d) /\ file[d] = None BY DEF Init, Known
<1>4. Empty(d, TRUE) BY DEF Init, Empty, RowsOf
<1>5. Rest(d, TRUE) BY <1>3, <1>4 DEF Rest, Ready
<1> QED BY <1>2, <1>5 DEF Follows

LEMMA FollowNext == Typed /\ HangInv /\ FitInv /\ FollowInv /\ [Next]_vars => FollowInv'
<1> SUFFICES ASSUME Typed, HangInv, FitInv, FollowInv, [Next]_vars PROVE FollowInv' OBVIOUS
<1>1. CASE Next
  <2>1. KindInv /\ RecordsFit(record, lastId) BY DEF HangInv, FitInv
  <2>2. \A d \in fresh' : Follows(d, FALSE)' BY <1>1, <2>1, FreshStep
  <2>3. ~disturbed' => \A d \in Sources : Follows(d, TRUE)' BY <1>1, <2>1, SerialStep
  <2>4. (\A d \in fresh : Follows(d, FALSE))' BY <2>2
  <2>5. (~disturbed => \A d \in Sources : Follows(d, TRUE))' BY <2>3
  <2> QED BY <2>4, <2>5 DEF FollowInv
<1>2. CASE UNCHANGED vars
  <2>1. \A d \in fresh' : Follows(d, FALSE)' BY <1>2, FollowsStutter DEF FollowInv, vars, history
  <2>2. ~disturbed' => \A d \in Sources : Follows(d, TRUE)' BY <1>2, FollowsStutter DEF FollowInv, vars, history
  <2>3. (\A d \in fresh : Follows(d, FALSE))' BY <2>1
  <2>4. (~disturbed => \A d \in Sources : Follows(d, TRUE))' BY <2>2
  <2> QED BY <2>3, <2>4 DEF FollowInv
<1> QED BY <1>1, <1>2

LEMMA AlwaysFollows == Spec => []FollowInv
BY InitTyped, TypedStep, InitFits, FitNext, InitHangs, HangNext, InitFollows, FollowNext, PTL DEF Spec

\* Once an upload that nothing ran beside is ready, its source has in the corpus
\* and in the parent store the rows of its version and content and no others,
\* and the vectors to them, whatever races, failures and kills went before:
\* the upload clears its source by path, whatever ids the rows have.
THEOREM UploadsRepair == Spec => []UploadRepairs
<1>1. FollowInv => UploadRepairs
  <2> SUFFICES ASSUME FollowInv, Quiet, NEW d \in fresh, Ready(d)
               PROVE  /\ RowsOf(d, corpus) = Current(d) /\ RowsOf(d, parents) = Current(d)
                      /\ Current(d) \subseteq vectors
    BY DEF UploadRepairs, Ready
  <2>1. Follows(d, FALSE) BY DEF FollowInv
  <2>2. Rest(d, FALSE) BY <2>1, QuietRests
  <2> QED BY <2>2 DEF Rest, Full
<1> QED BY <1>1, AlwaysFollows, PTL

\* As long as operations run one after another, each to its end, every source is
\* consistent between them: registry, file, the three stores and the artifacts.
THEOREM TurnsAreExact == Spec => []SerialIsExact
<1>1. FollowInv => SerialIsExact
  <2> SUFFICES ASSUME FollowInv, ~disturbed, Quiet, NEW d \in Sources
               PROVE  /\ file[d] = (IF Known(d) THEN record[d].sha ELSE None)
                      /\ RowsOf(d, corpus) = IF Ready(d) THEN Current(d) ELSE {}
                      /\ RowsOf(d, parents) = IF Ready(d) THEN Current(d) ELSE {}
                      /\ RowsOf(d, vectors) = IF Ready(d) THEN Current(d) ELSE {}
                      /\ Ready(d) => Evident(d)
    BY DEF SerialIsExact, Ready, Evident
  <2>1. Follows(d, TRUE) BY DEF FollowInv
  <2>2. Rest(d, TRUE) BY <2>1, QuietRests
  <2> QED BY <2>2 DEF Rest, Full, Empty
<1> QED BY <1>1, AlwaysFollows, PTL
=============================================================================
