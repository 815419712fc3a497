------------------------ MODULE LongTermMemoryProofs ------------------------
(***************************************************************************)
(* Type correctness of LongTermMemory, that no overlap or failure of       *)
(* requests leaves two live memories of one key in the global file, and    *)
(* what requests that do not overlap may rely on: the newest memory of a   *)
(* key is the one shown, and a deletion stays done.                        *)
(***************************************************************************)
EXTENDS LongTermMemory, FiniteSetTheorems, TLAPS

Places ==
    {"new", "upsert", "append", "find", "expire", "over"} \cup Saving \cup Replacing

Job == [at : Places, session : Sessions \cup {None}, row : Row \cup {None},
        text : SUBSET Row, sole : BOOLEAN]

\* A request that is at work has its session and its memory.
Working(job) ==
    job.at \notin {"new", "over"} => job.session \in Sessions /\ job.row \in Row

Whole(rows) == \A x, y \in Live(rows) : x.key = y.key => x = y

Sound(job) ==
    /\ Working(job)
    /\ job.at \in {"saveGlobal", "saveExpire"} => Whole(job.text)

\* Every text that is, or is about to become, the global file is whole.
Inv ==
    /\ TypeOK
    /\ \A r \in Requests : Sound(jobs[r])
    /\ Whole(files[Global])
    /\ temp[Global] # None => Whole(temp[Global])

-----------------------------------------------------------------------------
(***************************************************************************)
(* Texts.                                                                  *)
(***************************************************************************)
\* Deleting rows of a whole text leaves it whole.
LEMMA DeletedWhole ==
    ASSUME NEW rows \in SUBSET Row, NEW which \in SUBSET rows
    PROVE  /\ Deleted(rows, which) \in SUBSET Row
           /\ Whole(rows) => Whole(Deleted(rows, which))
<1> DEFINE D(x) == IF x \in which THEN [x EXCEPT !.deleted = TRUE] ELSE x
<1>1. \A x \in rows : D(x) \in Row /\ (~D(x).deleted => D(x) = x)
  BY DEF Row
<1>2. Deleted(rows, which) = {D(x) : x \in rows}
  BY DEF Deleted
<1>3. Live(Deleted(rows, which)) \subseteq Live(rows)
  BY <1>1, <1>2 DEF Live
<1> QED BY <1>1, <1>2, <1>3 DEF Whole

\* _upsert_global makes a whole text of a whole one.
LEMMA UpsertWhole ==
    ASSUME NEW rows \in SUBSET Row, NEW row \in Row
    PROVE  /\ Upsert(rows, row).text \in SUBSET Row
           /\ Upsert(rows, row).row \in Row
           /\ Whole(rows) => Whole(Upsert(rows, row).text)
<1> DEFINE others == SameKey(rows, row)
           same == {x \in others : x.content = row.content}
           one == CHOOSE x \in same : TRUE
           kept == [one EXCEPT !.updated = row.updated]
           added == IF others = {} THEN row
                    ELSE [row EXCEPT !.supersedes = (CHOOSE x \in others : TRUE).id]
           longer == Superseded(rows, row) \cup {added}
           short == First(longer, GlobalWindow, GlobalOrder)
<1>1. others \subseteq rows /\ \A x \in others : ~x.deleted /\ x.key = row.key
  BY DEF SameKey, Live
<1>2. CASE same # {}
  <2>1. one \in same
    BY <1>2
  <2>2. one \in Row /\ ~one.deleted /\ one.key = row.key
    BY <2>1, <1>1
  <2>3. kept \in Row /\ ~kept.deleted /\ kept.key = row.key
    BY <2>2 DEF Row
  <2>4. Upsert(rows, row) = [text |-> (rows \ same) \cup {kept}, row |-> kept]
    BY <1>2 DEF Upsert
  <2>5. (rows \ same) \cup {kept} \in SUBSET Row
    BY <2>3
  <2>6. ASSUME Whole(rows) PROVE Whole((rows \ same) \cup {kept})
    <3>1. \A x \in Live(rows \ same) : x \in Live(rows) /\ x.key # row.key
      <4> SUFFICES ASSUME NEW x \in Live(rows \ same) PROVE x \in Live(rows) /\ x.key # row.key
        OBVIOUS
      <4>1. x \in rows /\ ~x.deleted /\ x \notin same
        BY DEF Live
      <4>2. one \in Live(rows)
        BY <2>1, <2>2, <1>1 DEF Live
      <4> QED BY <4>1, <4>2, <2>1, <2>2, <2>6 DEF Whole, Live
    <3>2. Live((rows \ same) \cup {kept}) \subseteq Live(rows \ same) \cup {kept}
      BY DEF Live
    <3> QED BY <3>1, <3>2, <2>3, <2>6 DEF Whole
  <2> QED BY <2>3, <2>4, <2>5, <2>6
<1>3. CASE same = {}
  <2>1. added \in Row /\ added.key = row.key
    <3>1. CASE others = {}
      BY <3>1
    <3>2. CASE others # {}
      <4>1. (CHOOSE x \in others : TRUE) \in others
        BY <3>2
      <4>2. (CHOOSE x \in others : TRUE).id \in Nat
        BY <4>1, <1>1 DEF Row
      <4> QED BY <4>2, <3>2 DEF Row
    <3> QED BY <3>1, <3>2
  <2> DEFINE S(x) == [x EXCEPT !.deleted = @ \/ x.key = row.key]
  <2>2. \A x \in rows : S(x) \in Row /\ (~S(x).deleted => S(x) = x /\ x.key # row.key)
    BY DEF Row
  <2>3. Superseded(rows, row) = {S(x) : x \in rows}
    BY DEF Superseded
  <2> HIDE DEF S, added
  <2>4. short \subseteq longer
    BY DEF First
  <2>5. longer \in SUBSET Row
    BY <2>1, <2>2, <2>3, Zenon
  <2>6. Upsert(rows, row) = [text |-> short, row |-> added]
    BY <1>3 DEF Upsert, added
  <2>7. \A x \in Live(longer) : x = added \/ (x \in Live(rows) /\ x.key # row.key)
    BY <2>2, <2>3 DEF Live
  <2>8. Live(short) \subseteq Live(longer)
    BY <2>4 DEF Live
  <2>9. ASSUME Whole(rows) PROVE Whole(short)
    BY <2>1, <2>7, <2>8, <2>9 DEF Whole
  <2>10. short \in SUBSET Row
    BY <2>4, <2>5
  <2> HIDE DEF short
  <2> QED BY <2>1, <2>6, <2>9, <2>10
<1> QED BY <1>2, <1>3

-----------------------------------------------------------------------------
LEMMA InitInv == Init => Inv
<1> SUFFICES ASSUME Init PROVE Inv
  OBVIOUS
<1>1. Idle \in Job /\ Sound(Idle) /\ Idle.at = "new"
  BY DEF Idle, Job, Places, Working, Sound
<1>2. jobs \in [Requests -> Job]
  BY <1>1, Zenon DEF Init
<1>5. files \in [Files -> SUBSET Row]
  BY DEF Init
<1>6. temp \in [Files -> (SUBSET Row) \cup {None}]
  BY Zenon DEF Init
<1>4. TypeOK
  BY <1>2, <1>5, <1>6 DEF Init, TypeOK, Job, Places
<1>3. Global \in Files /\ Live({}) = {}
  BY DEF Files, Live
<1> QED BY <1>1, <1>3, <1>4 DEF Init, Inv, Whole

-----------------------------------------------------------------------------
(***************************************************************************)
(* Steps.                                                                  *)
(***************************************************************************)
Jobs == [Requests -> Job]

LEMMA TypeOfJobs == TypeOK => jobs \in Jobs
BY DEF TypeOK, Jobs, Job, Places

LEMMA OneJob ==
    ASSUME jobs \in Jobs, \A r \in Requests : Sound(jobs[r]),
           NEW r \in Requests, NEW job \in Job, Sound(job),
           jobs' = [jobs EXCEPT ![r] = job]
    PROVE  jobs' \in Jobs /\ \A q \in Requests : Sound(jobs'[q])
BY DEF Jobs

\* What is left to show of a step once its job is known to be sound.
LEMMA FromParts ==
    ASSUME jobs' \in Jobs, \A q \in Requests : Sound(jobs'[q]),
           files' \in [Files -> SUBSET Row],
           temp' \in [Files -> (SUBSET Row) \cup {None}],
           clock' \in Nat, forgotten' \subseteq Sessions \X Nat, unsettled' \subseteq Keys,
           Whole(files'[Global]), temp'[Global] # None => Whole(temp'[Global])
    PROVE  Inv'
BY DEF Inv, TypeOK, Jobs, Job, Places

LEMMA StartsKeeps ==
    ASSUME Inv, NEW r \in Requests, NEW job \in Job, Sound(job), Starts(r, job)
    PROVE  /\ jobs' \in Jobs /\ \A q \in Requests : Sound(jobs'[q])
           /\ forgotten' \subseteq Sessions \X Nat
           /\ unsettled' \subseteq Keys
<1>1. jobs \in Jobs /\ \A q \in Requests : Sound(jobs[q])
  BY TypeOfJobs DEF Inv
<1>2. \A j \in Job, b \in BOOLEAN : [j EXCEPT !.sole = b] \in Job
  BY DEF Job
<1>3. \A j \in Job, b \in BOOLEAN : Sound(j) => Sound([j EXCEPT !.sole = b])
  BY DEF Job, Sound, Working
<1>4. PICK b \in BOOLEAN : jobs' = [q \in Requests |-> IF q = r THEN [job EXCEPT !.sole = b]
                                                     ELSE [jobs[q] EXCEPT !.sole = FALSE]]
  BY DEF Starts
<1>5. \A q \in Requests : jobs'[q] \in Job /\ Sound(jobs'[q])
  BY <1>1, <1>2, <1>3, <1>4 DEF Jobs
<1>6. jobs' \in Jobs
  BY <1>4, <1>5 DEF Jobs
<1> QED BY <1>5, <1>6 DEF Starts, Inv, TypeOK

LEMMA RememberKeeps ==
    ASSUME Inv, NEW r \in Requests, Remember(r) PROVE Inv'
<1>1. PICK s \in Sessions, k \in Keys, c \in Contents : \E score \in Scores[c] :
         Starts(r, [Idle EXCEPT !.at = "upsert", !.session = s,
                        !.row = [id |-> clock + 1, key |-> k, content |-> c, score |-> score,
                                 updated |-> clock + 1, deleted |-> FALSE, supersedes |-> 0]])
  BY DEF Remember
<1>2. PICK score \in Scores[c] :
         Starts(r, [Idle EXCEPT !.at = "upsert", !.session = s,
                        !.row = [id |-> clock + 1, key |-> k, content |-> c, score |-> score,
                                 updated |-> clock + 1, deleted |-> FALSE, supersedes |-> 0]])
  BY <1>1
<1> DEFINE row == [id |-> clock + 1, key |-> k, content |-> c, score |-> score,
                   updated |-> clock + 1, deleted |-> FALSE, supersedes |-> 0]
           job == [Idle EXCEPT !.at = "upsert", !.session = s, !.row = row]
<1>3. clock \in Nat /\ score \in Nat
  BY MemoryAssumption DEF Inv, TypeOK
<1>4. row \in Row
  BY <1>3 DEF Row
<1> HIDE DEF row
<1>5. job \in Job /\ Sound(job)
  BY <1>4 DEF Idle, Job, Places, Sound, Working
<1>6. Starts(r, job)
  BY <1>2 DEF row
<1> HIDE DEF job
<1>7. clock' \in Nat /\ UNCHANGED <<files, temp>>
  BY <1>3 DEF Remember
<1> QED BY <1>5, <1>6, <1>7, StartsKeeps, FromParts DEF Inv, TypeOK

LEMMA ForgetKeeps ==
    ASSUME Inv, NEW r \in Requests, Forget(r) PROVE Inv'
<1>1. PICK s \in Sessions : \E row \in files[s] :
         Starts(r, [Idle EXCEPT !.at = "find", !.session = s, !.row = row])
  BY DEF Forget
<1>2. PICK row \in files[s] : Starts(r, [Idle EXCEPT !.at = "find", !.session = s, !.row = row])
  BY <1>1
<1>3. row \in Row
  BY <1>2 DEF Inv, TypeOK, Files
<1>4. /\ [Idle EXCEPT !.at = "find", !.session = s, !.row = row] \in Job
      /\ Sound([Idle EXCEPT !.at = "find", !.session = s, !.row = row])
  BY <1>3 DEF Idle, Job, Places, Sound, Working
<1>5. UNCHANGED <<files, temp, clock>>
  BY DEF Forget
<1> QED BY <1>2, <1>4, <1>5, StartsKeeps, FromParts DEF Inv, TypeOK

\* Changing a job's fields one by one is replacing the job.
LEMMA FieldByField ==
    ASSUME jobs \in Jobs, NEW r \in Requests, NEW p, NEW text
    PROVE  LET t == jobs[r]
               With(text1) == [at |-> p, session |-> t.session, row |-> t.row,
                               text |-> text1, sole |-> t.sole]
           IN  /\ [jobs EXCEPT ![r].at = p] = [jobs EXCEPT ![r] = With(t.text)]
               /\ [jobs EXCEPT ![r].text = text, ![r].at = p] = [jobs EXCEPT ![r] = With(text)]
<1> DEFINE t == jobs[r]
           a == [t EXCEPT !.at = p]
           b == [t EXCEPT !.text = text]
<1>1. t \in [at : Places, session : Sessions \cup {None}, row : Row \cup {None},
             text : SUBSET Row, sole : BOOLEAN]
  BY DEF Jobs, Job
<1>2. a = [at |-> p, session |-> t.session, row |-> t.row, text |-> t.text, sole |-> t.sole]
  BY <1>1
<1>3. b = [at |-> t.at, session |-> t.session, row |-> t.row, text |-> text, sole |-> t.sole]
  BY <1>1
<1> HIDE DEF b
<1>4. [b EXCEPT !.at = p] =
        [at |-> p, session |-> t.session, row |-> t.row, text |-> text, sole |-> t.sole]
  BY <1>3
<1>5. DOMAIN jobs = Requests
  BY DEF Jobs
<1>6. [jobs EXCEPT ![r].text = text, ![r].at = p] = [jobs EXCEPT ![r] = [b EXCEPT !.at = p]]
  BY <1>5 DEF b
<1> QED BY <1>2, <1>4, <1>6

LEMMA ThreeFields ==
    ASSUME jobs \in Jobs, NEW r \in Requests, NEW p, NEW row, NEW text, Writes(r, p, row, text)
    PROVE  jobs' =
           [jobs EXCEPT ![r] = [at |-> p, session |-> jobs[r].session, row |-> row,
                                text |-> text, sole |-> jobs[r].sole]]
<1> DEFINE t == jobs[r]
           a == [t EXCEPT !.at = p]
           b == [a EXCEPT !.row = row]
           c == [b EXCEPT !.text = text]
<1>1. t \in [at : Places, session : Sessions \cup {None}, row : Row \cup {None},
             text : SUBSET Row, sole : BOOLEAN]
  BY DEF Jobs, Job
<1>2. a = [at |-> p, session |-> t.session, row |-> t.row, text |-> t.text, sole |-> t.sole]
  BY <1>1
<1> HIDE DEF a
<1>3. b = [at |-> p, session |-> t.session, row |-> row, text |-> t.text, sole |-> t.sole]
  BY <1>2
<1> HIDE DEF b
<1>4. c = [at |-> p, session |-> t.session, row |-> row, text |-> text, sole |-> t.sole]
  BY <1>3
<1> HIDE DEF c
<1>5. DOMAIN jobs = Requests
  BY DEF Jobs
<1>6. jobs' = [jobs EXCEPT ![r] = c]
  BY <1>5 DEF Writes, a, b, c
<1> QED BY <1>4, <1>6

\* A request that ends, or that goes on to its next place without a write.
LEMMA EndsKeeps ==
    ASSUME Inv, NEW r \in Requests, Ends(r)
    PROVE  jobs' \in Jobs /\ \A q \in Requests : Sound(jobs'[q])
<1>1. [Idle EXCEPT !.at = "over"] \in Job /\ Sound([Idle EXCEPT !.at = "over"])
  BY DEF Idle, Job, Places, Sound, Working
<1>2. jobs' = [jobs EXCEPT ![r] = [Idle EXCEPT !.at = "over"]]
  BY DEF Ends
<1> QED BY <1>1, <1>2, OneJob, TypeOfJobs DEF Inv

LEMMA WritesKeeps ==
    ASSUME Inv, NEW r \in Requests, Busy(r),
           NEW place \in Places, NEW row \in Row, NEW text \in SUBSET Row,
           place \in {"saveGlobal", "saveExpire"} => Whole(text),
           Writes(r, place, row, text)
    PROVE  jobs' \in Jobs /\ \A q \in Requests : Sound(jobs'[q])
<1> DEFINE job == [at |-> place, session |-> jobs[r].session, row |-> row,
                   text |-> text, sole |-> jobs[r].sole]
<1>1. jobs[r] \in Job /\ Sound(jobs[r]) /\ jobs[r].session \in Sessions
  BY TypeOfJobs DEF Inv, Jobs, Sound, Working, Busy
<1>2. job \in Job /\ Sound(job)
  BY <1>1 DEF Job, Sound, Working
<1>3. jobs' = [jobs EXCEPT ![r] = job]
  BY TypeOfJobs, ThreeFields DEF Inv
<1> HIDE DEF job
<1> QED BY <1>2, <1>3, OneJob, TypeOfJobs DEF Inv

\* What a request at work has.
LEMMA AtWork ==
    ASSUME Inv, NEW r \in Requests, Busy(r)
    PROVE  /\ jobs[r] \in Job /\ Sound(jobs[r])
           /\ jobs[r].session \in Sessions /\ jobs[r].row \in Row
           /\ jobs[r].session \in Files /\ jobs[r].session # Global /\ Global \in Files
           /\ files[jobs[r].session] \in SUBSET Row /\ files[Global] \in SUBSET Row
BY TypeOfJobs, MemoryAssumption DEF Inv, TypeOK, Jobs, Sound, Working, Busy, Files

LEMMA ReadGlobalKeeps ==
    ASSUME Inv, NEW r \in Requests, ReadGlobal(r) PROVE Inv'
<1> DEFINE next == Upsert(files[Global], jobs[r].row)
<1>1. Busy(r) /\ Writes(r, "saveGlobal", next.row, next.text)
  BY DEF ReadGlobal, Busy
<1>2. next.row \in Row /\ next.text \in SUBSET Row /\ Whole(next.text)
  BY <1>1, AtWork, UpsertWhole DEF Inv
<1> HIDE DEF next
<1>3. jobs' \in Jobs /\ \A q \in Requests : Sound(jobs'[q])
  BY <1>1, <1>2, WritesKeeps DEF Places, Saving
<1> QED BY <1>3, FromParts DEF ReadGlobal, Inv, TypeOK

LEMMA ReadSessionKeeps ==
    ASSUME Inv, NEW r \in Requests, ReadSession(r) PROVE Inv'
<1> DEFINE text == First(files[jobs[r].session] \cup {jobs[r].row}, SessionWindow, SessionOrder)
<1>1. Busy(r) /\ Writes(r, "saveSession", jobs[r].row, text)
  BY DEF ReadSession, Busy
<1>2. jobs[r].row \in Row /\ text \in SUBSET Row
  BY <1>1, AtWork DEF First
<1> HIDE DEF text
<1>3. jobs' \in Jobs /\ \A q \in Requests : Sound(jobs'[q])
  BY <1>1, <1>2, WritesKeeps DEF Places, Saving
<1> QED BY <1>3, FromParts DEF ReadSession, Inv, TypeOK

LEMMA FindKeeps ==
    ASSUME Inv, NEW r \in Requests, Find(r) PROVE Inv'
<1> DEFINE own == files[jobs[r].session]
           copy == Copy(own, jobs[r].row.id)
<1>1. Busy(r)
  BY DEF Find, Busy
<1>2. own \in SUBSET Row /\ copy \in SUBSET own /\ jobs[r].row \in Row
  BY <1>1, AtWork DEF Copy
<1>3. Deleted(own, copy) \in SUBSET Row
  BY <1>2, DeletedWhole
<1>4. jobs' \in Jobs /\ \A q \in Requests : Sound(jobs'[q])
  <2>1. CASE Live(copy) = {}
    <3>1. Ends(r)
      BY <2>1 DEF Find, Ends
    <3> QED BY <3>1, EndsKeeps
  <2>2. CASE Live(copy) # {}
    <3>1. Writes(r, "saveFind", jobs[r].row, Deleted(own, copy))
      BY <2>2 DEF Find
    <3> HIDE DEF own, copy
    <3> QED BY <1>1, <1>2, <1>3, <3>1, WritesKeeps DEF Places, Saving
  <2> QED BY <2>1, <2>2
<1> QED BY <1>4, FromParts DEF Find, Inv, TypeOK

LEMMA AcknowledgeKeeps ==
    ASSUME Inv, NEW r \in Requests, Busy(r), Acknowledge(r)
    PROVE  forgotten' \subseteq Sessions \X Nat
BY AtWork DEF Acknowledge, Inv, TypeOK, Row

LEMMA ExpireKeeps ==
    ASSUME Inv, NEW r \in Requests, Expire(r) PROVE Inv'
<1> DEFINE rows == files[Global]
           marked == Marked(rows, jobs[r].row.id)
<1>1. Busy(r)
  BY DEF Expire, Busy
<1>2. rows \in SUBSET Row /\ marked \in SUBSET rows /\ jobs[r].row \in Row /\ Whole(rows)
  BY <1>1, AtWork DEF Marked, Live, Inv
<1>3. Deleted(rows, marked) \in SUBSET Row /\ Whole(Deleted(rows, marked))
  BY <1>2, DeletedWhole
<1>4. /\ jobs' \in Jobs /\ \A q \in Requests : Sound(jobs'[q])
      /\ forgotten' \subseteq Sessions \X Nat
  <2>1. CASE marked = {}
    <3>1. Ends(r) /\ Acknowledge(r)
      BY <2>1 DEF Expire
    <3> QED BY <1>1, <3>1, EndsKeeps, AcknowledgeKeeps
  <2>2. CASE marked # {}
    <3>1. Writes(r, "saveExpire", jobs[r].row, Deleted(rows, marked)) /\ UNCHANGED forgotten
      BY <2>2 DEF Expire
    <3> HIDE DEF rows, marked
    <3> QED BY <1>1, <1>2, <1>3, <3>1, WritesKeeps DEF Places, Saving, Inv, TypeOK
  <2> QED BY <2>1, <2>2
<1> QED BY <1>4, FromParts DEF Expire, Inv, TypeOK

LEMMA WriteTempKeeps ==
    ASSUME Inv, NEW r \in Requests, WriteTemp(r) PROVE Inv'
<1> DEFINE place == CASE jobs[r].at = "saveGlobal" -> "replaceGlobal"
                      [] jobs[r].at = "saveSession" -> "replaceSession"
                      [] jobs[r].at = "saveFind" -> "replaceFind"
                      [] jobs[r].at = "saveExpire" -> "replaceExpire"
           job == [at |-> place, session |-> jobs[r].session, row |-> jobs[r].row,
                   text |-> {}, sole |-> jobs[r].sole]
<1>1. Busy(r) /\ jobs[r].at \in Saving
  BY DEF WriteTemp, Busy, Saving
<1>2. place \in Replacing
  BY <1>1 DEF Saving, Replacing
<1>3. job \in Job /\ Sound(job)
  BY <1>1, <1>2, AtWork DEF Job, Places, Sound, Working, Replacing
<1>4. jobs' = [jobs EXCEPT ![r] = job]
  <2>1. jobs' = [jobs EXCEPT ![r].text = {}, ![r].at = place]
    BY TypeOfJobs DEF WriteTemp, Inv, Jobs, Job
  <2> HIDE DEF place
  <2>2. [jobs EXCEPT ![r].text = {}, ![r].at = place] = [jobs EXCEPT ![r] = job]
    BY TypeOfJobs, FieldByField DEF Inv
  <2> QED BY <2>1, <2>2
<1> HIDE DEF job
<1>5. jobs' \in Jobs /\ \A q \in Requests : Sound(jobs'[q])
  BY <1>3, <1>4, OneJob, TypeOfJobs DEF Inv
<1>6. jobs[r].text \in SUBSET Row
  BY <1>1, AtWork DEF Job
<1>7. temp' \in [Files -> (SUBSET Row) \cup {None}]
  BY <1>6 DEF WriteTemp, Inv, TypeOK
<1>8. temp'[Global] # None => Whole(temp'[Global])
  <2>1. CASE jobs[r].at \in {"saveGlobal", "saveExpire"}
    BY <1>1, <2>1, AtWork DEF WriteTemp, Target, Sound, Inv, TypeOK
  <2>2. CASE jobs[r].at \in {"saveSession", "saveFind"}
    BY <1>1, <2>2, AtWork DEF WriteTemp, Target, Inv, TypeOK
  <2> QED BY <1>1, <2>1, <2>2 DEF Saving
<1> QED BY <1>5, <1>7, <1>8, FromParts DEF WriteTemp, Inv, TypeOK

LEMMA StopKeeps ==
    ASSUME Inv, NEW r \in Requests, MissReplace(r) \/ Fail(r) PROVE Inv'
<1>1. Ends(r) /\ UNCHANGED <<files, temp, clock, forgotten, unsettled>>
  BY DEF MissReplace, Fail
<1>2. jobs' \in Jobs /\ \A q \in Requests : Sound(jobs'[q])
  BY <1>1, EndsKeeps
<1> QED BY <1>1, <1>2, FromParts DEF Inv, TypeOK

\* Going on to a place where nothing is about to be written.
LEMMA GoesOn ==
    ASSUME Inv, NEW r \in Requests, Busy(r), NEW place \in {"append", "expire"},
           jobs' = [jobs EXCEPT ![r].at = place]
    PROVE  jobs' \in Jobs /\ \A q \in Requests : Sound(jobs'[q])
<1> DEFINE job == [at |-> place, session |-> jobs[r].session, row |-> jobs[r].row,
                   text |-> jobs[r].text, sole |-> jobs[r].sole]
<1>1. job \in Job /\ Sound(job)
  BY AtWork DEF Job, Places, Sound, Working
<1>2. jobs' = [jobs EXCEPT ![r] = job]
  BY TypeOfJobs, FieldByField DEF Inv
<1> HIDE DEF job
<1> QED BY <1>1, <1>2, OneJob, TypeOfJobs DEF Inv

LEMMA ReplaceKeeps ==
    ASSUME Inv, NEW r \in Requests, Replace(r) PROVE Inv'
<1> DEFINE f == Target(r)
<1>1. Busy(r) /\ jobs[r].at \in Replacing /\ temp[f] # None
  BY DEF Replace, Busy, Replacing
<1>2. f \in Files
  BY <1>1, AtWork DEF Target
<1>3. temp[f] \in SUBSET Row
  BY <1>1, <1>2 DEF Inv, TypeOK
<1> HIDE DEF f
<1>4. files' = [files EXCEPT ![f] = temp[f]] /\ temp' = [temp EXCEPT ![f] = None]
  BY DEF Replace, f
<1>5. /\ files' \in [Files -> SUBSET Row]
      /\ temp' \in [Files -> (SUBSET Row) \cup {None}]
  BY <1>2, <1>3, <1>4 DEF Inv, TypeOK
<1>6. Global \in Files
  BY DEF Files
<1>7. Whole(files'[Global]) /\ (temp'[Global] # None => Whole(temp'[Global]))
  BY <1>1, <1>2, <1>4, <1>6 DEF Inv, TypeOK
<1>8. /\ jobs' \in Jobs /\ \A q \in Requests : Sound(jobs'[q])
      /\ forgotten' \subseteq Sessions \X Nat /\ unsettled' \subseteq Keys
  <2>1. CASE jobs[r].at = "replaceGlobal"
    <3>1. jobs' = [jobs EXCEPT ![r].at = "append"] /\ UNCHANGED forgotten
      BY <2>1 DEF Replace
    <3>2. unsettled' \subseteq Keys
      BY <2>1 DEF Replace, Inv, TypeOK
    <3> QED BY <1>1, <3>1, <3>2, GoesOn DEF Inv, TypeOK
  <2>2. CASE jobs[r].at = "replaceFind"
    <3>1. jobs' = [jobs EXCEPT ![r].at = "expire"] /\ UNCHANGED <<forgotten, unsettled>>
      BY <2>2 DEF Replace
    <3> QED BY <1>1, <3>1, GoesOn DEF Inv, TypeOK
  <2>3. CASE jobs[r].at = "replaceSession"
    <3>1. Ends(r) /\ UNCHANGED <<forgotten, unsettled>>
      BY <2>3 DEF Replace
    <3> QED BY <3>1, EndsKeeps DEF Inv, TypeOK
  <2>4. CASE jobs[r].at = "replaceExpire"
    <3>1. Ends(r) /\ Acknowledge(r) /\ UNCHANGED unsettled
      BY <2>4 DEF Replace
    <3> QED BY <1>1, <3>1, EndsKeeps, AcknowledgeKeeps DEF Inv, TypeOK
  <2> QED BY <1>1, <2>1, <2>2, <2>3, <2>4 DEF Replacing
<1>9. clock' \in Nat
  BY DEF Replace, Inv, TypeOK
<1> QED BY <1>5, <1>7, <1>8, <1>9, FromParts

LEMMA NextInv == Inv /\ [Next]_vars => Inv'
<1> SUFFICES ASSUME Inv, [Next]_vars PROVE Inv'
  OBVIOUS
<1>1. CASE UNCHANGED vars
  BY <1>1 DEF vars, Inv, TypeOK
<1>2. CASE Ended
  BY <1>2 DEF Ended, vars, Inv, TypeOK
<1>3. ASSUME NEW r \in Requests,
             \/ Remember(r) \/ ReadGlobal(r) \/ ReadSession(r)
             \/ Forget(r) \/ Find(r) \/ Expire(r)
             \/ WriteTemp(r) \/ MissReplace(r) \/ Replace(r) \/ Fail(r)
      PROVE  Inv'
  BY <1>3, RememberKeeps, ReadGlobalKeeps, ReadSessionKeeps, ForgetKeeps, FindKeeps,
     ExpireKeeps, WriteTempKeeps, StopKeeps, ReplaceKeeps
<1> QED BY <1>1, <1>2, <1>3 DEF Next

LEMMA Invariance == Spec => []Inv
BY InitInv, NextInv, PTL DEF Spec

\* The types of the files, of what is being written and of the requests.
THEOREM TypeCorrect == Spec => []TypeOK
<1>1. Inv => TypeOK
  BY DEF Inv
<1> QED BY <1>1, Invariance, PTL

\* However chat turns and deletions overlap, fail or replace each other's
\* .json.tmp, no key has two live memories in the global file.
THEOREM KeysAreUnique == Spec => []OneLivePerKey
<1>1. Inv => OneLivePerKey
  BY DEF Inv, Whole, OneLivePerKey
<1> QED BY <1>1, Invariance, PTL

-----------------------------------------------------------------------------
(***************************************************************************)
(* What is promised while requests do not overlap.  Safe says it of files  *)
(* F, when the keys in open may be mixed up and gone has been forgotten.   *)
(***************************************************************************)
Clean(rows, id) == \A x \in Live(rows) : x.id # id

\* Of the copies of a memory the first is deleted, if there are any.
FirstDeleted(rows, id) ==
    (\E x \in rows : x.id = id) => \E x \in Copy(rows, id) : x.deleted

\* y is no newer than g under its key, and does not supersede it.
Behind(g, y) ==
    /\ y.supersedes # g.id
    /\ y.key = g.key => y.id = g.id \/ y.updated < g.updated

AllBehind(global, rows, open) ==
    \A g \in Live(global), y \in Live(rows) : g.key \notin open => Behind(g, y)

Safe(F, open, gone) ==
    /\ \A f \in Files : AllBehind(F[Global], F[f], open)
    /\ \A x \in gone : Clean(F[Global], x[2]) /\ FirstDeleted(F[x[1]], x[2])

\* The memory is the one that the global file has live under its key.
Heads(global, open, row) ==
    /\ \A g \in Live(global) : g.key = row.key => g.id = row.id
    /\ row.key \notin open => row.supersedes # row.id

Old(n, x) == x.id < n /\ x.updated < n /\ x.supersedes < n

\* A memory's identity tells its key.
Fits(owner, n, x) ==
    /\ x.id <= n /\ x.updated <= n /\ x.supersedes <= n
    /\ owner[x.id] = x.key
    /\ x.supersedes # 0 => owner[x.supersedes] = x.key

NotForgotten(gone, id) == \A x \in gone : x[2] # id

KeyedBy(owner, n, rows) == \A x \in rows : Fits(owner, n, x)

-----------------------------------------------------------------------------
LEMMA SafeGlobal ==
    ASSUME NEW F, DOMAIN F = Files, NEW open, NEW gone, gone \subseteq Sessions \X Nat,
           Safe(F, open, gone), NEW text, NEW next,
           AllBehind(text, text, next),
           \A s \in Sessions : AllBehind(text, F[s], next),
           \A x \in gone : Clean(text, x[2])
    PROVE  Safe([F EXCEPT ![Global] = text], next, gone)
<1> DEFINE H == [F EXCEPT ![Global] = text]
<1>1. H[Global] = text /\ \A s \in Sessions : H[s] = F[s]
  BY MemoryAssumption DEF Files
<1>2. \A f \in Files : f = Global \/ f \in Sessions
  BY DEF Files
<1>3. \A x \in gone : x[1] \in Sessions
  OBVIOUS
<1> HIDE DEF H
<1>4. Safe(H, next, gone)
  BY <1>1, <1>2, <1>3 DEF Safe
<1> QED BY <1>4 DEF H

LEMMA SafeSession ==
    ASSUME NEW F, DOMAIN F = Files, NEW open, NEW gone, gone \subseteq Sessions \X Nat,
           Safe(F, open, gone), NEW s \in Sessions, NEW text,
           AllBehind(F[Global], text, open),
           \A x \in gone : x[1] = s => FirstDeleted(text, x[2])
    PROVE  Safe([F EXCEPT ![s] = text], open, gone)
<1> DEFINE H == [F EXCEPT ![s] = text]
<1>1. H[s] = text /\ H[Global] = F[Global] /\ \A f \in Files : f # s => H[f] = F[f]
  BY MemoryAssumption DEF Files
<1>2. \A x \in gone : x[1] \in Files
  BY DEF Files
<1> HIDE DEF H
<1>3. Safe(H, open, gone)
  BY <1>1, <1>2 DEF Safe
<1> QED BY <1>3 DEF H

\* _upsert_global, of a proposal that is newer than everything in the files.
LEMMA UpsertSafe ==
    ASSUME NEW F, F \in [Files -> SUBSET Row], Whole(F[Global]),
           NEW open, NEW gone, gone \subseteq Sessions \X Nat, Safe(F, open, gone),
           NEW n \in Nat, NEW owner, KeyedBy(owner, n, F[Global]),
           \A f \in Files : \A x \in F[f] : Old(n, x),
           \A x \in gone : x[2] < n,
           NEW row \in Row, row.id = n, row.updated = n, ~row.deleted, row.supersedes = 0,
           NEW up, up = Upsert(F[Global], row),
           NEW next, next = IF New(up.row) THEN open \ {up.row.key} ELSE open
    PROVE  /\ Safe([F EXCEPT ![Global] = up.text], next, gone)
           /\ Heads(up.text, next, up.row)
           /\ NotForgotten(gone, up.row.id)
<1> DEFINE rows == F[Global]
           others == SameKey(rows, row)
           same == {x \in others : x.content = row.content}
           one == CHOOSE x \in same : TRUE
           kept == [one EXCEPT !.updated = row.updated]
           other == CHOOSE x \in others : TRUE
           added == IF others = {} THEN row ELSE [row EXCEPT !.supersedes = other.id]
           longer == Superseded(rows, row) \cup {added}
           short == First(longer, GlobalWindow, GlobalOrder)
<1>1. Global \in Files /\ rows \in SUBSET Row /\ \A s \in Sessions : s \in Files /\ F[s] \in SUBSET Row
  BY DEF Files
<1>2. DOMAIN F = Files /\ \A x \in gone : x[1] \in Sessions /\ x[2] \in Nat
  OBVIOUS
<1>3. others \subseteq Live(rows) /\ Live(rows) \subseteq rows /\ \A x \in others : ~x.deleted /\ x.key = row.key
  BY DEF SameKey, Live
<1>4. \A x \in rows : x \in Row /\ Fits(owner, n, x) /\ Old(n, x)
  BY <1>1 DEF KeyedBy
\* What the promise says of the files as they are.
<1>5. \A g \in Live(rows) : g.key \notin open => \A y \in Live(rows) : Behind(g, y)
  BY <1>1 DEF Safe, AllBehind
<1>6. \A g \in Live(rows) : g.key \notin open => \A s \in Sessions : \A y \in Live(F[s]) : Behind(g, y)
  BY <1>1 DEF Safe, AllBehind
<1>7. \A s \in Sessions : \A y \in Live(F[s]) : y \in Row /\ Old(n, y)
  BY <1>1 DEF Live
<1>8. \A x \in gone : Clean(rows, x[2])
  BY DEF Safe
<1>9. CASE same # {}
  <2>1. one \in same
    BY <1>9
  <2>2. one \in Live(rows) /\ one \in Row /\ one.key = row.key /\ Old(n, one) /\ ~one.deleted
    BY <1>3, <1>4, <2>1
  <2> HIDE DEF one, same
  <2>3. /\ kept \in Row /\ kept.id = one.id /\ kept.key = row.key /\ kept.updated = n
        /\ kept.supersedes = one.supersedes /\ ~kept.deleted
    BY <2>2 DEF Row
  <2> DEFINE T == (rows \ same) \cup {kept}
  <2>4. up = [text |-> T, row |-> kept]
    BY <1>9 DEF Upsert, one, same
  <2> HIDE DEF kept
  <2>5. up.text = T /\ up.row = kept /\ next = open
    BY <2>2, <2>3, <2>4 DEF New, Old, Row
  \* All but the one of this key, which is the memory refreshed.
  <2>6. \A x \in Live(T) : x = kept \/ (x \in Live(rows) /\ x.key # row.key)
    <3> SUFFICES ASSUME NEW x \in Live(T), x # kept PROVE x \in Live(rows) /\ x.key # row.key
      OBVIOUS
    <3>1. x \in rows /\ ~x.deleted /\ x \notin same
      BY DEF Live
    <3>2. x \in Live(rows)
      BY <3>1 DEF Live
    <3>3. x # one
      BY <2>1, <3>1
    <3> QED BY <2>2, <3>2, <3>3 DEF Whole
  <2> HIDE DEF T
  <2>7. AllBehind(T, T, open)
    <3> SUFFICES ASSUME NEW g \in Live(T), NEW y \in Live(T), g.key \notin open PROVE Behind(g, y)
      BY DEF AllBehind
    <3>1. CASE g = kept /\ y = kept
      BY <1>5, <2>2, <2>3, <3>1 DEF Behind
    <3>2. CASE g = kept /\ y # kept
      <4>1. y \in Live(rows) /\ y.key # row.key
        BY <2>6, <3>2
      <4> QED BY <1>5, <2>2, <2>3, <3>2, <4>1 DEF Behind
    <3>3. CASE g # kept /\ y = kept
      <4>1. g \in Live(rows) /\ g.key # row.key
        BY <2>6, <3>3
      <4> QED BY <1>5, <2>2, <2>3, <3>3, <4>1 DEF Behind
    <3>4. CASE g # kept /\ y # kept
      BY <1>5, <2>6, <3>4
    <3> QED BY <3>1, <3>2, <3>3, <3>4
  <2>8. ASSUME NEW s \in Sessions PROVE AllBehind(T, F[s], open)
    <3> SUFFICES ASSUME NEW g \in Live(T), NEW y \in Live(F[s]), g.key \notin open PROVE Behind(g, y)
      BY DEF AllBehind
    <3>1. CASE g = kept
      <4>1. Behind(one, y) /\ Old(n, y) /\ y \in Row
        BY <1>6, <1>7, <2>2, <2>3, <3>1
      <4> QED BY <2>2, <2>3, <3>1, <4>1 DEF Behind, Old, Row
    <3>2. CASE g # kept
      BY <1>6, <2>6, <3>2
    <3> QED BY <3>1, <3>2
  <2>9. \A x \in gone : Clean(T, x[2]) /\ x[2] # kept.id
    BY <1>8, <2>2, <2>3, <2>6 DEF Clean
  <2>10. Heads(T, open, kept)
    <3>1. kept.key \notin open => kept.supersedes # kept.id
      BY <1>5, <2>2, <2>3 DEF Behind
    <3> QED BY <2>3, <2>6, <3>1 DEF Heads
  <2>11. Safe([F EXCEPT ![Global] = T], open, gone)
    BY <1>2, <2>7, <2>8, <2>9, SafeGlobal
  <2> QED BY <2>5, <2>9, <2>10, <2>11 DEF NotForgotten
<1>10. CASE same = {}
  <2>1. /\ added \in Row /\ added.id = n /\ added.key = row.key /\ added.updated = n /\ ~added.deleted
        /\ added.supersedes < n
        /\ added.supersedes # 0 => owner[added.supersedes] = row.key
    <3>1. CASE others = {}
      BY <3>1 DEF Row
    <3>2. CASE others # {}
      <4>1. other \in others
        BY <3>2
      <4>2. other \in Row /\ other.key = row.key /\ Fits(owner, n, other) /\ Old(n, other)
        BY <1>3, <1>4, <4>1
      <4> HIDE DEF other
      <4> QED BY <3>2, <4>2 DEF Row, Fits, Old
    <3> QED BY <3>1, <3>2
  <2>2. up = [text |-> short, row |-> added]
    BY <1>10 DEF Upsert
  <2> HIDE DEF added
  <2>3. up.text = short /\ up.row = added /\ next = open \ {row.key}
    BY <2>1, <2>2 DEF New
  <2> DEFINE S(x) == [x EXCEPT !.deleted = @ \/ x.key = row.key]
  <2>4. \A x \in rows : ~S(x).deleted => S(x) = x /\ x.key # row.key
    BY <1>4 DEF Row
  <2>5. Superseded(rows, row) = {S(x) : x \in rows}
    BY DEF Superseded
  <2> HIDE DEF S
  <2>6. \A x \in Live(short) : x = added \/ (x \in Live(rows) /\ x.key # row.key)
    BY <2>4, <2>5 DEF Live, First
  <2> HIDE DEF short
  <2>7. AllBehind(short, short, next)
    <3> SUFFICES ASSUME NEW g \in Live(short), NEW y \in Live(short), g.key \notin next PROVE Behind(g, y)
      BY DEF AllBehind
    <3>1. CASE g = added /\ y = added
      BY <2>1, <3>1 DEF Behind
    <3>2. CASE g = added /\ y # added
      <4>1. y \in Live(rows) /\ Old(n, y) /\ y.key # row.key /\ y \in Row
        BY <1>3, <1>4, <2>6, <3>2
      <4> QED BY <2>1, <3>2, <4>1 DEF Behind, Old, Row
    <3>3. CASE g # added /\ y = added
      <4>1. g \in Live(rows) /\ Fits(owner, n, g) /\ g.key # row.key /\ g \in Row
        BY <1>3, <1>4, <2>6, <3>3
      <4> QED BY <2>1, <3>3, <4>1 DEF Behind, Fits, Row
    <3>4. CASE g # added /\ y # added
      BY <1>5, <2>3, <2>6, <3>4
    <3> QED BY <3>1, <3>2, <3>3, <3>4
  <2>8. ASSUME NEW s \in Sessions PROVE AllBehind(short, F[s], next)
    <3> SUFFICES ASSUME NEW g \in Live(short), NEW y \in Live(F[s]), g.key \notin next PROVE Behind(g, y)
      BY DEF AllBehind
    <3>1. CASE g = added
      <4>1. Old(n, y) /\ y \in Row
        BY <1>7
      <4> QED BY <2>1, <3>1, <4>1 DEF Behind, Old, Row
    <3>2. CASE g # added
      BY <1>6, <2>3, <2>6, <3>2
    <3> QED BY <3>1, <3>2
  <2>9. \A x \in gone : Clean(short, x[2]) /\ x[2] # added.id
    BY <1>2, <1>8, <2>1, <2>6 DEF Clean
  <2>10. Heads(short, next, added)
    BY <2>1, <2>6 DEF Heads, Row
  <2>11. Safe([F EXCEPT ![Global] = short], next, gone)
    BY <1>2, <2>7, <2>8, <2>9, SafeGlobal
  <2> QED BY <2>3, <2>9, <2>10, <2>11 DEF NotForgotten
<1> QED BY <1>9, <1>10

\* Adding a memory to a session's window: the first of the copies of another
\* memory is the last of them to leave it.
LEMMA AppendFirst ==
    ASSUME NEW own \in SUBSET Row, IsFiniteSet(own), NEW row \in Row,
           NEW id, row.id # id, FirstDeleted(own, id)
    PROVE  FirstDeleted(First(own \cup {row}, SessionWindow, SessionOrder), id)
<1> DEFINE all == own \cup {row}
           before(z) == {w \in all : SessionOrder(w, z)}
           text == First(all, SessionWindow, SessionOrder)
<1>1. text = {z \in all : Cardinality(before(z)) < SessionWindow}
  BY DEF First
<1>2. all \subseteq Row /\ IsFiniteSet(all)
  BY FS_AddElement
<1>3. SUFFICES ASSUME NEW x \in text, x.id = id PROVE \E c \in Copy(text, id) : c.deleted
  BY DEF FirstDeleted
<1> HIDE DEF text, all
<1>4. x \in own
  BY <1>1, <1>3 DEF all
<1>5. PICK c \in Copy(own, id) : c.deleted
  BY <1>3, <1>4 DEF FirstDeleted
<1>6. c \in own /\ c.id = id /\ \A y \in own : y.id = id => y = c \/ SessionOrder(c, y)
  BY <1>5 DEF Copy
<1>7. c \in all /\ c \in Row /\ x \in Row
  BY <1>4, <1>6 DEF all
<1>8. c \in text
  <2>1. CASE x = c
    BY <1>3, <2>1
  <2>2. CASE x # c
    <3>1. SessionOrder(c, x)
      BY <1>3, <1>4, <1>6, <2>2
    <3>2. \A w \in all : SessionOrder(w, c) => SessionOrder(w, x)
      BY <1>2, <1>7, <3>1 DEF SessionOrder, Row
    <3>3. before(c) \subseteq before(x)
      BY <3>2
    <3>4. IsFiniteSet(before(x))
      <4>1. before(x) \in SUBSET all
        OBVIOUS
      <4> QED BY <1>2, <4>1, FS_Subset
    <3> DEFINE b == before(c)
               d == before(x)
    <3> HIDE DEF b, d
    <3>5. b \in SUBSET d /\ IsFiniteSet(d)
      BY <3>3, <3>4 DEF b, d
    <3>6. Cardinality(b) <= Cardinality(d) /\ IsFiniteSet(b)
      BY <3>5, FS_Subset
    <3>7. Cardinality(b) \in Nat /\ Cardinality(d) \in Nat
      BY <3>5, <3>6, FS_CardinalityType
    <3>8. Cardinality(d) < SessionWindow
      BY <1>1, <1>3 DEF d
    <3>9. Cardinality(b) < SessionWindow
      BY <3>6, <3>7, <3>8, MemoryAssumption
    <3> QED BY <1>1, <1>7, <3>9 DEF b
  <2> QED BY <2>1, <2>2
<1>9. \A y \in text : y.id = id => y \in own
  BY <1>1 DEF all
<1>10. c \in Copy(text, id)
  BY <1>6, <1>8, <1>9 DEF Copy
<1> QED BY <1>5, <1>10

LEMMA AppendSafe ==
    ASSUME NEW F, F \in [Files -> SUBSET Row],
           NEW open, NEW gone, gone \subseteq Sessions \X Nat, Safe(F, open, gone),
           NEW s \in Sessions, IsFiniteSet(F[s]),
           NEW n, NEW owner, \A x \in F[Global] : Fits(owner, n, x),
           NEW row \in Row, Fits(owner, n, row),
           Heads(F[Global], open, row), \A x \in gone : x[2] # row.id,
           NEW text, text = First(F[s] \cup {row}, SessionWindow, SessionOrder)
    PROVE  Safe([F EXCEPT ![s] = text], open, gone)
<1>1. s \in Files /\ Global \in Files /\ F[s] \in SUBSET Row /\ F[Global] \in SUBSET Row /\ DOMAIN F = Files
  BY DEF Files
<1>2. \A y \in Live(text) : y = row \/ y \in Live(F[s])
  BY DEF First, Live
<1>3. AllBehind(F[Global], text, open)
  <2> SUFFICES ASSUME NEW g \in Live(F[Global]), NEW y \in Live(text), g.key \notin open PROVE Behind(g, y)
    BY DEF AllBehind
  <2>1. g \in F[Global] /\ g \in Row
    BY <1>1 DEF Live
  <2>2. CASE y \in Live(F[s])
    BY <1>1, <2>2 DEF Safe, AllBehind
  <2>3. CASE y = row
    <3>1. CASE g.key = row.key
      BY <2>3, <3>1 DEF Heads, Behind
    <3>2. CASE g.key # row.key
      BY <2>1, <2>3, <3>2 DEF Fits, Behind, Row
    <3> QED BY <3>1, <3>2
  <2> QED BY <1>2, <2>2, <2>3
<1>4. ASSUME NEW x \in gone, x[1] = s PROVE FirstDeleted(text, x[2])
  BY <1>1, <1>4, AppendFirst DEF Safe
<1> QED BY <1>1, <1>3, <1>4, SafeSession

-----------------------------------------------------------------------------
\* Deleting keeps identities and ages, and only ever takes from the living.
LEMMA DeletedLive ==
    ASSUME NEW rows \in SUBSET Row, NEW which
    PROVE  \A x \in Live(Deleted(rows, which)) : x \in Live(rows) /\ x \notin which
<1> DEFINE D(x) == IF x \in which THEN [x EXCEPT !.deleted = TRUE] ELSE x
<1>1. \A x \in rows : ~D(x).deleted => D(x) = x /\ x \notin which
  BY DEF Row
<1>2. Deleted(rows, which) = {D(x) : x \in rows}
  BY DEF Deleted
<1> HIDE DEF D
<1> QED BY <1>1, <1>2 DEF Live

LEMMA DeletedFirst ==
    ASSUME NEW own \in SUBSET Row, NEW which, NEW id,
           NEW c \in Copy(own, id), c.deleted \/ c \in which
    PROVE  FirstDeleted(Deleted(own, which), id)
<1> DEFINE D(x) == IF x \in which THEN [x EXCEPT !.deleted = TRUE] ELSE x
           text == Deleted(own, which)
<1>1. \A x \in own : D(x).id = x.id /\ D(x).updated = x.updated
  BY DEF Row
<1>2. c \in own /\ c.id = id /\ \A y \in own : y.id = id => y = c \/ SessionOrder(c, y)
  BY DEF Copy
<1>3. D(c).deleted
  BY <1>2 DEF Row
<1>4. text = {D(x) : x \in own}
  BY DEF Deleted
<1> HIDE DEF D, text
<1>5. D(c) \in Copy(text, id)
  <2>1. D(c) \in text /\ D(c).id = id
    BY <1>1, <1>2, <1>4
  <2>2. ASSUME NEW y \in text, y.id = id PROVE y = D(c) \/ SessionOrder(D(c), y)
    <3>1. PICK z \in own : y = D(z)
      BY <1>4
    <3>2. z = c \/ SessionOrder(c, z)
      BY <1>1, <1>2, <2>2, <3>1
    <3> QED BY <1>1, <1>2, <3>1, <3>2 DEF SessionOrder
  <2> QED BY <2>1, <2>2 DEF Copy
<1> QED BY <1>3, <1>5 DEF FirstDeleted, text

\* _expire of a session's file, which had a live first copy of the memory.
LEMMA FindSafe ==
    ASSUME NEW F, F \in [Files -> SUBSET Row],
           NEW open, NEW gone, gone \subseteq Sessions \X Nat, Safe(F, open, gone),
           NEW s \in Sessions, NEW id, Live(Copy(F[s], id)) # {},
           NEW text, text = Deleted(F[s], Copy(F[s], id))
    PROVE  Safe([F EXCEPT ![s] = text], open, gone) /\ FirstDeleted(text, id)
<1> DEFINE copy == Copy(F[s], id)
<1>1. s \in Files /\ Global \in Files /\ F[s] \in SUBSET Row /\ DOMAIN F = Files
  BY DEF Files
<1>2. PICK c \in copy : TRUE
  BY DEF Live
<1>3. FirstDeleted(text, id)
  BY <1>1, <1>2, DeletedFirst
<1>4. AllBehind(F[Global], text, open)
  <2>1. \A y \in Live(text) : y \in Live(F[s])
    BY <1>1, DeletedLive
  <2> QED BY <1>1, <2>1 DEF Safe, AllBehind
<1>5. ASSUME NEW x \in gone, x[1] = s PROVE FirstDeleted(text, x[2])
  <2>1. CASE \E z \in F[s] : z.id = x[2]
    <3>1. PICK d \in Copy(F[s], x[2]) : d.deleted
      BY <1>5, <2>1 DEF Safe, FirstDeleted
    <3> QED BY <1>1, <3>1, DeletedFirst
  <2>2. CASE ~\E z \in F[s] : z.id = x[2]
    <3> DEFINE D(z) == IF z \in copy THEN [z EXCEPT !.deleted = TRUE] ELSE z
    <3>1. text = {D(z) : z \in F[s]} /\ \A z \in F[s] : D(z).id = z.id
      BY <1>1 DEF Deleted, Row
    <3> HIDE DEF D
    <3> QED BY <2>2, <3>1 DEF FirstDeleted
  <2> QED BY <2>1, <2>2
<1>6. Safe([F EXCEPT ![s] = text], open, gone)
  BY <1>1, <1>4, <1>5, SafeSession
<1> QED BY <1>3, <1>6

\* _expire_in_payload of the global file.
LEMMA ExpireSafe ==
    ASSUME NEW F, F \in [Files -> SUBSET Row],
           NEW open, NEW gone, gone \subseteq Sessions \X Nat, Safe(F, open, gone),
           NEW id, NEW text, text = Deleted(F[Global], Marked(F[Global], id))
    PROVE  Safe([F EXCEPT ![Global] = text], open, gone) /\ Clean(text, id)
<1>1. Global \in Files /\ F[Global] \in SUBSET Row /\ DOMAIN F = Files /\ \A s \in Sessions : s \in Files
  BY DEF Files
<1>2. \A x \in Live(text) : x \in Live(F[Global]) /\ x \notin Marked(F[Global], id)
  BY <1>1, DeletedLive
<1>3. Clean(text, id)
  BY <1>2 DEF Clean, Marked
<1>4. /\ AllBehind(text, text, open)
      /\ \A s \in Sessions : AllBehind(text, F[s], open)
      /\ \A x \in gone : Clean(text, x[2])
  BY <1>1, <1>2 DEF Safe, AllBehind, Clean
<1>5. Safe([F EXCEPT ![Global] = text], open, gone)
  BY <1>1, <1>4, SafeGlobal
<1> QED BY <1>3, <1>5

-----------------------------------------------------------------------------
(***************************************************************************)
(* Everything that is written fits one assignment of keys to identities.   *)
(***************************************************************************)
TextFits(owner, n, rows) == IsFiniteSet(rows) /\ \A x \in rows : Fits(owner, n, x)

FitBy(owner, F, T, js, n) ==
    /\ \A f \in Files : TextFits(owner, n, F[f]) /\ (T[f] # None => TextFits(owner, n, T[f]))
    /\ \A r \in Requests :
         /\ TextFits(owner, n, js[r].text)
         /\ js[r].at \notin {"new", "over"} => Fits(owner, n, js[r].row)

AllFit == \E owner : FitBy(owner, files, temp, jobs, clock)

LEMMA ImageFinite ==
    ASSUME NEW S, IsFiniteSet(S), NEW f, DOMAIN f = S
    PROVE  IsFiniteSet({f[x] : x \in S})
<1> DEFINE T == {f[x] : x \in S}
           g == [x \in S |-> f[x]]
<1>1. g \in Surjection(S, T)
  BY DEF Surjection
<1> QED BY <1>1, FS_Surjection

LEMMA DeletedFits ==
    ASSUME NEW rows \in SUBSET Row, NEW which, NEW owner, NEW n, TextFits(owner, n, rows)
    PROVE  TextFits(owner, n, Deleted(rows, which))
<1> DEFINE D(x) == IF x \in which THEN [x EXCEPT !.deleted = TRUE] ELSE x
<1>1. \A x \in rows : Fits(owner, n, D(x))
  BY DEF Row, TextFits, Fits
<1>2. Deleted(rows, which) = {D(x) : x \in rows}
  BY DEF Deleted
<1> HIDE DEF D
<1>3. IsFiniteSet(Deleted(rows, which))
  <2>1. PICK f : f = [x \in rows |-> D(x)]
    OBVIOUS
  <2>2. DOMAIN f = rows /\ IsFiniteSet(rows) /\ Deleted(rows, which) = {f[x] : x \in rows}
    BY <1>2, <2>1 DEF TextFits
  <2> QED BY <2>2, ImageFinite
<1> QED BY <1>1, <1>2, <1>3 DEF TextFits

LEMMA UpsertFits ==
    ASSUME NEW rows \in SUBSET Row, NEW row \in Row, NEW owner, NEW n \in Nat,
           TextFits(owner, n, rows), Fits(owner, n, row)
    PROVE  /\ TextFits(owner, n, Upsert(rows, row).text)
           /\ Fits(owner, n, Upsert(rows, row).row)
<1> DEFINE others == SameKey(rows, row)
           same == {x \in others : x.content = row.content}
           one == CHOOSE x \in same : TRUE
           kept == [one EXCEPT !.updated = row.updated]
           other == CHOOSE x \in others : TRUE
           added == IF others = {} THEN row ELSE [row EXCEPT !.supersedes = other.id]
           longer == Superseded(rows, row) \cup {added}
           short == First(longer, GlobalWindow, GlobalOrder)
<1>1. others \subseteq rows /\ \A x \in others : x.key = row.key
  BY DEF SameKey, Live
<1>2. \A x \in rows : x \in Row /\ Fits(owner, n, x)
  BY DEF TextFits
<1>3. CASE same # {}
  <2>1. one \in same
    BY <1>3
  <2>2. one \in Row /\ Fits(owner, n, one)
    BY <1>1, <1>2, <2>1
  <2> HIDE DEF one, same
  <2>3. Fits(owner, n, kept)
    BY <2>2 DEF Row, Fits
  <2>4. Upsert(rows, row) = [text |-> (rows \ same) \cup {kept}, row |-> kept]
    BY <1>3 DEF Upsert, one, same
  <2> HIDE DEF kept
  <2>5. IsFiniteSet((rows \ same) \cup {kept})
    <3>1. rows \ same \in SUBSET rows
      OBVIOUS
    <3>2. IsFiniteSet(rows \ same)
      BY <3>1, FS_Subset DEF TextFits
    <3> QED BY <3>2, FS_AddElement
  <2> QED BY <1>2, <2>3, <2>4, <2>5 DEF TextFits
<1>4. CASE same = {}
  <2>1. Fits(owner, n, added)
    <3>1. CASE others = {}
      BY <3>1
    <3>2. CASE others # {}
      <4>1. other \in others
        BY <3>2
      <4>2. other \in Row /\ other.key = row.key /\ Fits(owner, n, other)
        BY <1>1, <1>2, <4>1
      <4> HIDE DEF other
      <4> QED BY <3>2, <4>2 DEF Row, Fits
    <3> QED BY <3>1, <3>2
  <2>2. Upsert(rows, row) = [text |-> short, row |-> added]
    BY <1>4 DEF Upsert
  <2> HIDE DEF added
  <2> DEFINE S(x) == [x EXCEPT !.deleted = @ \/ x.key = row.key]
  <2>3. \A x \in rows : Fits(owner, n, S(x))
    BY <1>2 DEF Row, Fits
  <2>4. Superseded(rows, row) = {S(x) : x \in rows}
    BY DEF Superseded
  <2> HIDE DEF S
  <2>5. IsFiniteSet(Superseded(rows, row))
    <3>1. PICK f : f = [x \in rows |-> S(x)]
      OBVIOUS
    <3>2. DOMAIN f = rows /\ IsFiniteSet(rows) /\ Superseded(rows, row) = {f[x] : x \in rows}
      BY <2>4, <3>1 DEF TextFits
    <3> QED BY <3>2, ImageFinite
  <2>6. IsFiniteSet(longer)
    BY <2>5, FS_AddElement
  <2>7. short \in SUBSET longer
    BY DEF First
  <2>8. \A x \in longer : Fits(owner, n, x)
    BY <2>1, <2>3, <2>4
  <2> HIDE DEF longer, short
  <2>9. IsFiniteSet(short)
    BY <2>6, <2>7, FS_Subset
  <2>10. TextFits(owner, n, short)
    BY <2>7, <2>8, <2>9 DEF TextFits
  <2> QED BY <2>1, <2>2, <2>10
<1> QED BY <1>3, <1>4

\* A new proposal has an identity that nothing has, so it may have any key.
LEMMA FitsLater ==
    ASSUME NEW owner, NEW n \in Nat, NEW k, NEW next,
           next = [m \in Nat |-> IF m = n + 1 THEN k ELSE owner[m]],
           NEW x \in Row, Fits(owner, n, x)
    PROVE  Fits(next, n + 1, x)
BY DEF Fits, Row

-----------------------------------------------------------------------------
(***************************************************************************)
(* What each action makes of a request.                                    *)
(***************************************************************************)
Next1(r, place, row, text) ==
    [at |-> place, session |-> jobs[r].session, row |-> row, text |-> text, sole |-> jobs[r].sole]

EndedJob == [Idle EXCEPT !.at = "over"]

Becomes(r, job) == jobs' = [jobs EXCEPT ![r] = job]

LEMMA WritesIs ==
    ASSUME TypeOK, NEW r \in Requests, NEW place, NEW row, NEW text, Writes(r, place, row, text)
    PROVE  Becomes(r, Next1(r, place, row, text))
BY TypeOfJobs, ThreeFields DEF Becomes, Next1

LEMMA WriteTempIs ==
    ASSUME TypeOK, NEW r \in Requests, WriteTemp(r)
    PROVE  \E place \in Replacing :
             /\ Becomes(r, Next1(r, place, jobs[r].row, {}))
             /\ jobs[r].at = "saveGlobal" <=> place = "replaceGlobal"
             /\ jobs[r].at = "saveSession" <=> place = "replaceSession"
             /\ jobs[r].at = "saveFind" <=> place = "replaceFind"
             /\ jobs[r].at = "saveExpire" <=> place = "replaceExpire"
<1>1. PICK place : place = CASE jobs[r].at = "saveGlobal" -> "replaceGlobal"
                             [] jobs[r].at = "saveSession" -> "replaceSession"
                             [] jobs[r].at = "saveFind" -> "replaceFind"
                             [] jobs[r].at = "saveExpire" -> "replaceExpire"
  OBVIOUS
<1>2. jobs' = [jobs EXCEPT ![r].text = {}, ![r].at = place]
  BY <1>1, TypeOfJobs DEF WriteTemp, Jobs, Job
<1>3. Becomes(r, Next1(r, place, jobs[r].row, {}))
  BY <1>2, TypeOfJobs, FieldByField DEF Becomes, Next1
<1>4. /\ place \in Replacing
      /\ jobs[r].at = "saveGlobal" <=> place = "replaceGlobal"
      /\ jobs[r].at = "saveSession" <=> place = "replaceSession"
      /\ jobs[r].at = "saveFind" <=> place = "replaceFind"
      /\ jobs[r].at = "saveExpire" <=> place = "replaceExpire"
  BY <1>1 DEF WriteTemp, Saving, Replacing
<1> QED BY <1>3, <1>4

LEMMA GoesOnIs ==
    ASSUME TypeOK, NEW r \in Requests, NEW place, jobs' = [jobs EXCEPT ![r].at = place]
    PROVE  Becomes(r, Next1(r, place, jobs[r].row, jobs[r].text))
BY TypeOfJobs, FieldByField DEF Becomes, Next1

-----------------------------------------------------------------------------
\* Files only take what was about to replace them, ...
FilesFrom(H, F, T) == \A f \in Files : H[f] = F[f] \/ (T[f] # None /\ H[f] = T[f])

\* ... and that is what a request has made.
TempFrom(U, T, text) == \A f \in Files : U[f] # None => U[f] = T[f] \/ U[f] = text

JobFits(owner, n, job) ==
    /\ TextFits(owner, n, job.text)
    /\ job.at \notin {"new", "over"} => Fits(owner, n, job.row)

LEMMA FitOn ==
    ASSUME NEW owner, NEW n, NEW F, NEW T, NEW js, FitBy(owner, F, T, js, n),
           NEW r \in Requests, DOMAIN js = Requests,
           NEW job, JobFits(owner, n, job),
           NEW H, FilesFrom(H, F, T), NEW U, TempFrom(U, T, js[r].text)
    PROVE  FitBy(owner, H, U, [js EXCEPT ![r] = job], n)
<1> DEFINE next == [js EXCEPT ![r] = job]
<1>1. \A f \in Files : TextFits(owner, n, H[f]) /\ (U[f] # None => TextFits(owner, n, U[f]))
  BY DEF FitBy, FilesFrom, TempFrom
<1>2. ASSUME NEW q \in Requests
      PROVE  /\ TextFits(owner, n, next[q].text)
             /\ next[q].at \notin {"new", "over"} => Fits(owner, n, next[q].row)
  BY DEF FitBy, JobFits
<1> HIDE DEF next
<1>3. FitBy(owner, H, U, next, n)
  BY <1>1, <1>2 DEF FitBy
<1> QED BY <1>3 DEF next

\* A request that starts does not disturb the rest.
LEMMA StartsFit ==
    ASSUME TypeOK, NEW owner, NEW n, NEW r \in Requests, NEW job \in Job, Starts(r, job),
           FitBy(owner, files, temp, jobs, n),
           TextFits(owner, n, job.text),
           job.at \notin {"new", "over"} => Fits(owner, n, job.row)
    PROVE  FitBy(owner, files, temp, jobs', n)
<1>1. \A j \in Job, b \in BOOLEAN :
        /\ [j EXCEPT !.sole = b].at = j.at /\ [j EXCEPT !.sole = b].row = j.row
        /\ [j EXCEPT !.sole = b].text = j.text
  BY DEF Job
<1>2. PICK b \in BOOLEAN : jobs' = [q \in Requests |-> IF q = r THEN [job EXCEPT !.sole = b]
                                                     ELSE [jobs[q] EXCEPT !.sole = FALSE]]
  BY DEF Starts
<1>3. \A q \in Requests : jobs[q] \in Job
  BY TypeOfJobs DEF Jobs
<1>4. ASSUME NEW q \in Requests
      PROVE  /\ TextFits(owner, n, jobs'[q].text)
             /\ jobs'[q].at \notin {"new", "over"} => Fits(owner, n, jobs'[q].row)
  BY <1>1, <1>2, <1>3 DEF FitBy
<1> QED BY <1>4 DEF FitBy

LEMMA RememberFits ==
    ASSUME Inv, AllFit, NEW r \in Requests, Remember(r)
    PROVE  AllFit'
<1>1. PICK owner, n : FitBy(owner, files, temp, jobs, n) /\ n = clock
  BY DEF AllFit
<1>2. PICK s \in Sessions, k \in Keys, c \in Contents : \E score \in Scores[c] :
         Starts(r, [Idle EXCEPT !.at = "upsert", !.session = s,
                        !.row = [id |-> clock + 1, key |-> k, content |-> c, score |-> score,
                                 updated |-> clock + 1, deleted |-> FALSE, supersedes |-> 0]])
  BY DEF Remember
<1>3. PICK score \in Scores[c] :
         Starts(r, [Idle EXCEPT !.at = "upsert", !.session = s,
                        !.row = [id |-> clock + 1, key |-> k, content |-> c, score |-> score,
                                 updated |-> clock + 1, deleted |-> FALSE, supersedes |-> 0]])
  BY <1>2
<1>4. PICK row : row = [id |-> n + 1, key |-> k, content |-> c, score |-> score,
                        updated |-> n + 1, deleted |-> FALSE, supersedes |-> 0]
  OBVIOUS
<1>5. PICK job : job = [Idle EXCEPT !.at = "upsert", !.session = s, !.row = row]
  OBVIOUS
<1>6. Starts(r, job) /\ clock' = n + 1 /\ UNCHANGED <<files, temp>> /\ n \in Nat /\ score \in Nat
  BY <1>1, <1>3, <1>4, <1>5, MemoryAssumption DEF Remember, Inv, TypeOK
<1>7. row \in Row
  BY <1>4, <1>6 DEF Row
<1>8. job \in Job /\ job.at = "upsert" /\ job.row = row /\ job.text = {}
  BY <1>5, <1>7 DEF Idle, Job, Places
<1>9. PICK next : next = [m \in Nat |-> IF m = n + 1 THEN k ELSE owner[m]]
  OBVIOUS
<1>10. \A x \in Row : Fits(owner, n, x) => Fits(next, n + 1, x)
  BY <1>6, <1>9, FitsLater
<1>11. \A rows \in SUBSET Row : TextFits(owner, n, rows) => TextFits(next, n + 1, rows)
  BY <1>10 DEF TextFits
<1>12. /\ \A f \in Files : files[f] \in SUBSET Row /\ (temp[f] # None => temp[f] \in SUBSET Row)
       /\ \A q \in Requests : jobs[q].text \in SUBSET Row /\ (Busy(q) => jobs[q].row \in Row)
  BY TypeOfJobs DEF Inv, TypeOK, Sound, Working, Busy
<1>13. FitBy(next, files, temp, jobs, n + 1)
  BY <1>1, <1>10, <1>11, <1>12 DEF FitBy, Busy
<1>14. Fits(next, n + 1, row) /\ TextFits(next, n + 1, {})
  <2>1. Fits(next, n + 1, row)
    BY <1>4, <1>6, <1>9 DEF Fits
  <2> QED BY <2>1, FS_EmptySet DEF TextFits
<1>15. FitBy(next, files, temp, jobs', n + 1)
  BY <1>6, <1>8, <1>13, <1>14, StartsFit DEF Inv
<1> QED BY <1>6, <1>15 DEF AllFit

LEMMA ForgetFits ==
    ASSUME Inv, AllFit, NEW r \in Requests, Forget(r)
    PROVE  AllFit'
<1>1. PICK owner, n : FitBy(owner, files, temp, jobs, n) /\ n = clock
  BY DEF AllFit
<1>2. PICK s \in Sessions : \E row \in files[s] :
         Starts(r, [Idle EXCEPT !.at = "find", !.session = s, !.row = row])
  BY DEF Forget
<1>3. PICK row \in files[s] : Starts(r, [Idle EXCEPT !.at = "find", !.session = s, !.row = row])
  BY <1>2
<1>4. PICK job : job = [Idle EXCEPT !.at = "find", !.session = s, !.row = row]
  OBVIOUS
<1>5. row \in Row /\ Fits(owner, n, row)
  BY <1>1, <1>3 DEF Inv, TypeOK, Files, FitBy, TextFits
<1>6. job \in Job /\ job.row = row /\ job.text = {}
  BY <1>4, <1>5 DEF Idle, Job, Places
<1>7. TextFits(owner, n, {})
  BY FS_EmptySet DEF TextFits
<1>8. FitBy(owner, files, temp, jobs', n)
  BY <1>1, <1>3, <1>4, <1>5, <1>6, <1>7, StartsFit DEF Inv
<1> QED BY <1>1, <1>8 DEF AllFit, Forget

\* A request at work reads, writes and replaces only what fits.
LEMMA WorkFits ==
    ASSUME Inv, AllFit, NEW r \in Requests,
           \/ ReadGlobal(r) \/ ReadSession(r) \/ Find(r) \/ Expire(r)
           \/ WriteTemp(r) \/ MissReplace(r) \/ Replace(r) \/ Fail(r)
    PROVE  AllFit'
<1>1. PICK owner, n : FitBy(owner, files, temp, jobs, n) /\ n = clock
  BY DEF AllFit
<1>2. PICK j : j = jobs[r]
  OBVIOUS
<1>3. Busy(r)
  BY DEF ReadGlobal, ReadSession, Find, Expire, WriteTemp, MissReplace, Replace, Fail, Busy, Saving, Replacing
<1>4. j \in Job /\ j.session \in Files /\ Global \in Files /\ j.row \in Row /\ n \in Nat
      /\ files[j.session] \in SUBSET Row /\ files[Global] \in SUBSET Row
      /\ DOMAIN jobs = Requests
  BY <1>1, <1>2, <1>3, AtWork, TypeOfJobs DEF Inv, TypeOK
<1>5. /\ TextFits(owner, n, files[j.session]) /\ TextFits(owner, n, files[Global])
      /\ TextFits(owner, n, j.text) /\ Fits(owner, n, j.row)
  BY <1>1, <1>2, <1>3, <1>4 DEF FitBy, Busy
<1>6. TextFits(owner, n, {})
  BY FS_EmptySet DEF TextFits
<1>7. clock' = clock
  BY DEF ReadGlobal, ReadSession, Find, Expire, WriteTemp, MissReplace, Replace, Fail
\* The files and what will replace them.
<1>8. /\ \A f \in Files : files'[f] = files[f] \/ (temp[f] # None /\ files'[f] = temp[f])
      /\ \A f \in Files : temp'[f] # None => temp'[f] = temp[f] \/ temp'[f] = j.text
  <2>1. CASE ReadGlobal(r) \/ ReadSession(r) \/ Find(r) \/ Expire(r) \/ MissReplace(r) \/ Fail(r)
    BY <2>1 DEF ReadGlobal, ReadSession, Find, Expire, MissReplace, Fail
  <2>2. CASE WriteTemp(r)
    BY <1>2, <2>2 DEF WriteTemp, Inv, TypeOK
  <2>3. CASE Replace(r)
    BY <2>3 DEF Replace, Inv, TypeOK
  <2> QED BY <2>1, <2>2, <2>3
<1>9. PICK job : /\ Becomes(r, job) /\ TextFits(owner, n, job.text)
                 /\ job.at \notin {"new", "over"} => Fits(owner, n, job.row)
  <2>1. ASSUME Ends(r) PROVE Becomes(r, EndedJob) /\ EndedJob.text = {} /\ EndedJob.at = "over"
    BY <2>1 DEF Ends, Becomes, EndedJob, Idle
  <2>2. ASSUME NEW place, NEW row, NEW text, Writes(r, place, row, text),
               TextFits(owner, n, text), Fits(owner, n, row)
        PROVE  \E job : /\ Becomes(r, job) /\ TextFits(owner, n, job.text)
                        /\ job.at \notin {"new", "over"} => Fits(owner, n, job.row)
    <3>1. Becomes(r, Next1(r, place, row, text))
      BY <2>2, WritesIs DEF Inv
    <3>2. Next1(r, place, row, text).text = text /\ Next1(r, place, row, text).row = row
      BY DEF Next1
    <3> QED BY <2>2, <3>1, <3>2
  <2>3. CASE ReadGlobal(r)
    <3>1. PICK up : up = Upsert(files[Global], j.row)
      OBVIOUS
    <3>2. TextFits(owner, n, up.text) /\ Fits(owner, n, up.row)
      BY <1>4, <1>5, <3>1, UpsertFits
    <3>3. Writes(r, "saveGlobal", up.row, up.text)
      BY <1>2, <2>3, <3>1 DEF ReadGlobal
    <3> QED BY <2>2, <3>2, <3>3
  <2>4. CASE ReadSession(r)
    <3>1. PICK all, text : all = files[j.session] \cup {j.row} /\ text = First(all, SessionWindow, SessionOrder)
      OBVIOUS
    <3>2. IsFiniteSet(all) /\ \A x \in all : Fits(owner, n, x)
      BY <1>5, <3>1, FS_AddElement DEF TextFits
    <3>3. text \in SUBSET all
      BY <3>1 DEF First
    <3>4. TextFits(owner, n, text)
      BY <3>2, <3>3, FS_Subset DEF TextFits
    <3>5. Writes(r, "saveSession", j.row, text)
      BY <1>2, <2>4, <3>1 DEF ReadSession
    <3> QED BY <1>5, <2>2, <3>4, <3>5
  <2>5. CASE Find(r)
    <3>1. PICK own, copy : own = files[j.session] /\ copy = Copy(own, j.row.id)
      OBVIOUS
    <3>2. TextFits(owner, n, Deleted(own, copy))
      BY <1>4, <1>5, <3>1, DeletedFits
    <3>3. Ends(r) \/ Writes(r, "saveFind", j.row, Deleted(own, copy))
      BY <1>2, <2>5, <3>1 DEF Find, Ends
    <3> QED BY <1>5, <1>6, <2>1, <2>2, <3>2, <3>3
  <2>6. CASE Expire(r)
    <3>1. PICK rows, marked : rows = files[Global] /\ marked = Marked(rows, j.row.id)
      OBVIOUS
    <3>2. TextFits(owner, n, Deleted(rows, marked))
      BY <1>4, <1>5, <3>1, DeletedFits
    <3>3. Ends(r) \/ Writes(r, "saveExpire", j.row, Deleted(rows, marked))
      BY <1>2, <2>6, <3>1 DEF Expire
    <3> QED BY <1>5, <1>6, <2>1, <2>2, <3>2, <3>3
  <2>7. CASE WriteTemp(r)
    <3>1. PICK place : Becomes(r, Next1(r, place, j.row, {}))
      BY <1>2, <2>7, WriteTempIs DEF Inv
    <3>2. Next1(r, place, j.row, {}).text = {} /\ Next1(r, place, j.row, {}).row = j.row
      BY DEF Next1
    <3> QED BY <1>5, <1>6, <3>1, <3>2
  <2>8. CASE MissReplace(r) \/ Fail(r)
    BY <1>6, <2>1, <2>8 DEF MissReplace, Fail
  <2>9. CASE Replace(r)
    <3>1. Ends(r) \/ \E place : jobs' = [jobs EXCEPT ![r].at = place]
      BY <2>9 DEF Replace, Replacing
    <3>2. CASE Ends(r)
      BY <1>6, <2>1, <3>2
    <3>3. CASE \E place : jobs' = [jobs EXCEPT ![r].at = place]
      <4>1. PICK place : jobs' = [jobs EXCEPT ![r].at = place]
        BY <3>3
      <4>2. Becomes(r, Next1(r, place, j.row, j.text))
        BY <1>2, <4>1, GoesOnIs DEF Inv
      <4>3. Next1(r, place, j.row, j.text).text = j.text /\ Next1(r, place, j.row, j.text).row = j.row
        BY DEF Next1
      <4> QED BY <1>5, <4>2, <4>3
    <3> QED BY <3>1, <3>2, <3>3
  <2> QED BY <2>3, <2>4, <2>5, <2>6, <2>7, <2>8, <2>9
<1>10. PICK F2, T2 : F2 = files' /\ T2 = temp'
  OBVIOUS
<1>11. FitBy(owner, F2, T2, [jobs EXCEPT ![r] = job], n)
  <2>1. PICK F, T, js : F = files /\ T = temp /\ js = jobs
    OBVIOUS
  <2>2. FitBy(owner, F, T, js, n) /\ DOMAIN js = Requests
    BY <1>1, <1>4, <2>1
  <2>3. FilesFrom(F2, F, T) /\ TempFrom(T2, T, js[r].text)
    BY <1>2, <1>8, <1>10, <2>1 DEF FilesFrom, TempFrom
  <2>4. JobFits(owner, n, job)
    BY <1>9 DEF JobFits
  <2>5. FitBy(owner, F2, T2, [js EXCEPT ![r] = job], n)
    BY <2>2, <2>3, <2>4, FitOn
  <2> QED BY <2>1, <2>5
<1>12. FitBy(owner, files', temp', jobs', clock')
  BY <1>1, <1>7, <1>9, <1>10, <1>11 DEF Becomes
<1> QED BY <1>12 DEF AllFit

-----------------------------------------------------------------------------
(***************************************************************************)
(* A request that no other has overlapped.                                 *)
(***************************************************************************)
\* Its memory, if it remembers one, on the way to the session's file.
Remembering == {"saveGlobal", "replaceGlobal", "append", "saveSession", "replaceSession"}

TargetOf(job) ==
    IF job.at \in {"saveGlobal", "replaceGlobal", "saveExpire", "replaceExpire"}
    THEN Global ELSE job.session

\* The text that it is writing, before and after it is in the .json.tmp.
InHand(job, T) == IF job.at \in Saving THEN job.text ELSE T[TargetOf(job)]

\* The keys that may still be mixed up once that text is in place.
OpenAfter(job, open) ==
    IF job.at \in {"saveGlobal", "replaceGlobal"} /\ New(job.row) THEN open \ {job.row.key} ELSE open

Phase(job, F, T, n, open, gone) ==
    \* A proposal is newer than whatever there is.
    /\ job.at = "upsert" =>
         /\ job.row.id = n /\ job.row.updated = n /\ ~job.row.deleted /\ job.row.supersedes = 0
         /\ \A f \in Files : \A x \in F[f] : Old(n, x)
         /\ \A x \in gone : x[2] < n
    \* What it writes keeps the promise once it is in place.
    /\ job.at \in Saving \cup Replacing =>
         Safe([F EXCEPT ![TargetOf(job)] = InHand(job, T)], OpenAfter(job, open), gone)
    /\ job.at \in {"saveGlobal", "replaceGlobal"} =>
         Heads(InHand(job, T), OpenAfter(job, open), job.row)
    /\ job.at \in {"append", "saveSession", "replaceSession"} => Heads(F[Global], open, job.row)
    /\ job.at \in Remembering => \A x \in gone : x[2] # job.row.id
    \* A deletion has done its part, file by file.
    /\ job.at \in {"saveFind", "replaceFind"} => FirstDeleted(InHand(job, T), job.row.id)
    /\ job.at \in {"expire", "saveExpire", "replaceExpire"} => FirstDeleted(F[job.session], job.row.id)
    /\ job.at \in {"saveExpire", "replaceExpire"} => Clean(InHand(job, T), job.row.id)

Alone ==
    \A r \in Requests : Busy(r) /\ jobs[r].sole => \A q \in Requests \ {r} : ~Busy(q)

\* A promise outlives only what does not overlap.
Undisturbed ==
    (forgotten # {} \/ unsettled # Keys) => \A r \in Requests : Busy(r) => jobs[r].sole

Phases ==
    \A r \in Requests : Busy(r) /\ jobs[r].sole => Phase(jobs[r], files, temp, clock, unsettled, forgotten)

Promise == Safe(files, unsettled, forgotten)

HistoryOld == \A x \in forgotten : x[2] <= clock

MInv == Inv /\ AllFit /\ HistoryOld /\ Alone /\ Undisturbed /\ Promise /\ Phases

-----------------------------------------------------------------------------
\* What a step of such a request has to keep.
Keeps(r) ==
    /\ Promise'
    /\ Busy(r)' /\ jobs[r].sole' => Phase(jobs[r], files, temp, clock, unsettled, forgotten)'

\* What is known of it.
LEMMA SoleIs ==
    ASSUME MInv, NEW r \in Requests, Busy(r), jobs[r].sole
    PROVE  /\ Phase(jobs[r], files, temp, clock, unsettled, forgotten)
           /\ Safe(files, unsettled, forgotten)
           /\ files \in [Files -> SUBSET Row] /\ temp \in [Files -> (SUBSET Row) \cup {None}]
           /\ jobs \in Jobs /\ jobs[r] \in Job
           /\ jobs[r].row \in Row /\ jobs[r].session \in Sessions
           /\ forgotten \subseteq Sessions \X Nat /\ clock \in Nat
           /\ Whole(files[Global]) /\ TypeOK
BY AtWork, TypeOfJobs DEF MInv, Phases, Promise, Inv, TypeOK

LEMMA EndsPromise ==
    ASSUME MInv, NEW r \in Requests, Ends(r), Promise'
    PROVE  Keeps(r)
<1>1. jobs \in Jobs
  BY TypeOfJobs DEF MInv, Inv
<1>2. jobs'[r].at = "over"
  BY <1>1 DEF Ends, Idle, Jobs
<1> QED BY <1>2 DEF Keeps, Busy

LEMMA BecomesPromise ==
    ASSUME MInv, NEW r \in Requests, NEW job, Becomes(r, job), Promise',
           NEW F, F = files', NEW T, T = temp', NEW n, n = clock', NEW open, open = unsettled',
           NEW gone, gone = forgotten', Phase(job, F, T, n, open, gone)
    PROVE  Keeps(r)
<1>1. jobs'[r] = job
  BY TypeOfJobs DEF MInv, Inv, Jobs, Becomes
<1>2. Phase(jobs'[r], files', temp', clock', unsettled', forgotten')
  BY <1>1
<1>3. Phase(jobs[r], files, temp, clock, unsettled, forgotten)'
  BY <1>2
<1> QED BY <1>3 DEF Keeps

LEMMA ReadGlobalPromise ==
    ASSUME MInv, NEW r \in Requests, ReadGlobal(r), jobs[r].sole
    PROVE  Keeps(r)
<1>1. PICK F, T, n, open, gone, j :
         F = files /\ T = temp /\ n = clock /\ open = unsettled /\ gone = forgotten /\ j = jobs[r]
  OBVIOUS
<1>2. PICK up : up = Upsert(F[Global], j.row)
  OBVIOUS
<1>3. /\ j.at = "upsert" /\ Busy(r) /\ Writes(r, "saveGlobal", up.row, up.text)
      /\ UNCHANGED <<files, temp, clock, forgotten, unsettled>>
  BY <1>1, <1>2 DEF ReadGlobal, Busy
<1>4. /\ Phase(j, F, T, n, open, gone) /\ Safe(F, open, gone)
      /\ F \in [Files -> SUBSET Row] /\ j.row \in Row /\ n \in Nat /\ Whole(F[Global])
      /\ gone \subseteq Sessions \X Nat /\ TypeOK
  BY <1>1, <1>3, SoleIs
<1>5. PICK job : job = Next1(r, "saveGlobal", up.row, up.text)
  OBVIOUS
<1>6. Becomes(r, job) /\ job.at = "saveGlobal" /\ job.row = up.row /\ job.text = up.text
  BY <1>3, <1>4, <1>5, WritesIs DEF Next1
<1>7. PICK owner : KeyedBy(owner, n, F[Global])
  BY <1>1 DEF MInv, AllFit, FitBy, TextFits, Files, KeyedBy
<1>8. /\ j.row.id = n /\ j.row.updated = n /\ ~j.row.deleted /\ j.row.supersedes = 0
      /\ \A f \in Files : \A x \in F[f] : Old(n, x)
      /\ \A x \in gone : x[2] < n
  BY <1>3, <1>4 DEF Phase
<1>9. PICK next : next = IF New(up.row) THEN open \ {up.row.key} ELSE open
  OBVIOUS
<1>10. /\ Safe([F EXCEPT ![Global] = up.text], next, gone)
       /\ Heads(up.text, next, up.row)
       /\ NotForgotten(gone, up.row.id)
  BY <1>2, <1>4, <1>7, <1>8, <1>9, UpsertSafe, Zenon
<1>11. InHand(job, T) = up.text /\ TargetOf(job) = Global /\ OpenAfter(job, open) = next
  BY <1>6, <1>9 DEF InHand, TargetOf, OpenAfter, Saving
<1>12. Phase(job, F, T, n, open, gone)
  BY <1>6, <1>10, <1>11 DEF Phase, NotForgotten
<1>13. Promise'
  BY <1>1, <1>3, <1>4 DEF Promise
<1> QED BY <1>1, <1>3, <1>6, <1>12, <1>13, BecomesPromise

LEMMA ReadSessionPromise ==
    ASSUME MInv, NEW r \in Requests, ReadSession(r), jobs[r].sole
    PROVE  Keeps(r)
<1>1. PICK F, T, n, open, gone, j :
         F = files /\ T = temp /\ n = clock /\ open = unsettled /\ gone = forgotten /\ j = jobs[r]
  OBVIOUS
<1>2. PICK text : text = First(F[j.session] \cup {j.row}, SessionWindow, SessionOrder)
  OBVIOUS
<1>3. /\ j.at = "append" /\ Busy(r) /\ Writes(r, "saveSession", j.row, text)
      /\ UNCHANGED <<files, temp, clock, forgotten, unsettled>>
  BY <1>1, <1>2 DEF ReadSession, Busy
<1>4. /\ Phase(j, F, T, n, open, gone) /\ Safe(F, open, gone)
      /\ F \in [Files -> SUBSET Row] /\ j.row \in Row /\ j.session \in Sessions
      /\ gone \subseteq Sessions \X Nat /\ TypeOK
  BY <1>1, <1>3, SoleIs
<1>5. PICK job : job = Next1(r, "saveSession", j.row, text)
  OBVIOUS
<1>6. /\ Becomes(r, job) /\ job.at = "saveSession" /\ job.row = j.row /\ job.text = text
      /\ job.session = j.session
  BY <1>1, <1>3, <1>4, <1>5, WritesIs DEF Next1
<1>7. PICK owner : /\ \A x \in F[Global] : Fits(owner, n, x)
                   /\ Fits(owner, n, j.row) /\ IsFiniteSet(F[j.session])
  BY <1>1, <1>3, <1>4 DEF MInv, AllFit, FitBy, TextFits, Files, Busy
<1>8. Heads(F[Global], open, j.row) /\ \A x \in gone : x[2] # j.row.id
  BY <1>3, <1>4 DEF Phase, Remembering
<1>9. Safe([F EXCEPT ![j.session] = text], open, gone)
  BY <1>2, <1>4, <1>7, <1>8, AppendSafe
<1>10. InHand(job, T) = text /\ TargetOf(job) = j.session /\ OpenAfter(job, open) = open
  BY <1>6 DEF InHand, TargetOf, OpenAfter, Saving
<1>11. Phase(job, F, T, n, open, gone)
  BY <1>6, <1>8, <1>9, <1>10 DEF Phase
<1>12. Promise'
  BY <1>1, <1>3, <1>4 DEF Promise
<1> QED BY <1>1, <1>3, <1>6, <1>11, <1>12, BecomesPromise

LEMMA FindPromise ==
    ASSUME MInv, NEW r \in Requests, Find(r), jobs[r].sole
    PROVE  Keeps(r)
<1>1. PICK F, T, n, open, gone, j :
         F = files /\ T = temp /\ n = clock /\ open = unsettled /\ gone = forgotten /\ j = jobs[r]
  OBVIOUS
<1>2. PICK s, id : s = j.session /\ id = j.row.id
  OBVIOUS
<1>3. /\ j.at = "find" /\ Busy(r)
      /\ UNCHANGED <<files, temp, clock, forgotten, unsettled>>
  BY <1>1 DEF Find, Busy
<1>4. /\ Safe(F, open, gone) /\ F \in [Files -> SUBSET Row] /\ s \in Sessions
      /\ gone \subseteq Sessions \X Nat /\ TypeOK
  BY <1>1, <1>2, <1>3, SoleIs
<1>5. Promise'
  BY <1>1, <1>3, <1>4 DEF Promise
<1>6. CASE Live(Copy(F[s], id)) = {}
  <2>1. Ends(r)
    BY <1>1, <1>2, <1>6 DEF Find, Ends
  <2> QED BY <1>5, <2>1, EndsPromise
<1>7. CASE Live(Copy(F[s], id)) # {}
  <2>1. PICK text : text = Deleted(F[s], Copy(F[s], id))
    OBVIOUS
  <2>2. Writes(r, "saveFind", j.row, text)
    BY <1>1, <1>2, <1>7, <2>1 DEF Find
  <2>3. PICK job : job = Next1(r, "saveFind", j.row, text)
    OBVIOUS
  <2>4. /\ Becomes(r, job) /\ job.at = "saveFind" /\ job.row = j.row /\ job.text = text /\ job.session = s
    BY <1>1, <1>2, <1>4, <2>2, <2>3, WritesIs DEF Next1
  <2>5. Safe([F EXCEPT ![s] = text], open, gone) /\ FirstDeleted(text, id)
    BY <1>4, <1>7, <2>1, FindSafe
  <2>6. InHand(job, T) = text /\ TargetOf(job) = s /\ OpenAfter(job, open) = open
    BY <2>4 DEF InHand, TargetOf, OpenAfter, Saving
  <2>7. Phase(job, F, T, n, open, gone)
    BY <1>2, <2>4, <2>5, <2>6 DEF Phase, Remembering
  <2> QED BY <1>1, <1>3, <1>5, <2>4, <2>7, BecomesPromise
<1> QED BY <1>6, <1>7

\* What an acknowledged deletion adds to the promise.
LEMMA AcknowledgeSafe ==
    ASSUME NEW F, NEW open, NEW gone, Safe(F, open, gone), NEW s, NEW id,
           Clean(F[Global], id), FirstDeleted(F[s], id)
    PROVE  Safe(F, open, gone \cup {<<s, id>>})
BY DEF Safe

LEMMA ExpirePromise ==
    ASSUME MInv, NEW r \in Requests, Expire(r), jobs[r].sole
    PROVE  Keeps(r)
<1>1. PICK F, T, n, open, gone, j :
         F = files /\ T = temp /\ n = clock /\ open = unsettled /\ gone = forgotten /\ j = jobs[r]
  OBVIOUS
<1>2. PICK s, id : s = j.session /\ id = j.row.id
  OBVIOUS
<1>3. j.at = "expire" /\ Busy(r) /\ UNCHANGED <<files, temp, clock, unsettled>>
  BY <1>1 DEF Expire, Busy
<1>4. /\ Phase(j, F, T, n, open, gone) /\ Safe(F, open, gone)
      /\ F \in [Files -> SUBSET Row] /\ gone \subseteq Sessions \X Nat /\ TypeOK
  BY <1>1, <1>3, SoleIs
<1>5. FirstDeleted(F[s], id)
  BY <1>2, <1>3, <1>4 DEF Phase
<1>6. CASE Marked(F[Global], id) = {}
  <2>1. Ends(r) /\ forgotten' = gone \cup {<<s, id>>}
    BY <1>1, <1>2, <1>6 DEF Expire, Acknowledge
  <2>2. Clean(F[Global], id)
    BY <1>6 DEF Clean, Marked
  <2>3. Safe(F, open, gone \cup {<<s, id>>})
    BY <1>4, <1>5, <2>2, AcknowledgeSafe
  <2>4. Promise'
    BY <1>1, <1>3, <2>1, <2>3 DEF Promise
  <2> QED BY <2>1, <2>4, EndsPromise
<1>7. CASE Marked(F[Global], id) # {}
  <2>1. PICK text : text = Deleted(F[Global], Marked(F[Global], id))
    OBVIOUS
  <2>2. Writes(r, "saveExpire", j.row, text) /\ UNCHANGED forgotten
    BY <1>1, <1>2, <1>7, <2>1 DEF Expire
  <2>3. PICK job : job = Next1(r, "saveExpire", j.row, text)
    OBVIOUS
  <2>4. Becomes(r, job) /\ job.at = "saveExpire" /\ job.row = j.row /\ job.text = text /\ job.session = s
    BY <1>1, <1>2, <1>4, <2>2, <2>3, WritesIs DEF Next1
  <2>5. Safe([F EXCEPT ![Global] = text], open, gone) /\ Clean(text, id)
    BY <1>4, <2>1, ExpireSafe
  <2>6. InHand(job, T) = text /\ TargetOf(job) = Global /\ OpenAfter(job, open) = open
    BY <2>4 DEF InHand, TargetOf, OpenAfter, Saving
  <2>7. Phase(job, F, T, n, open, gone)
    BY <1>2, <1>5, <2>4, <2>5, <2>6 DEF Phase, Remembering
  <2>8. Promise'
    BY <1>1, <1>3, <1>4, <2>2 DEF Promise
  <2> QED BY <1>1, <1>3, <2>2, <2>4, <2>7, <2>8, BecomesPromise
<1> QED BY <1>6, <1>7

LEMMA WriteTempPromise ==
    ASSUME MInv, NEW r \in Requests, WriteTemp(r), jobs[r].sole
    PROVE  Keeps(r)
<1>1. PICK F, T, n, open, gone, j :
         F = files /\ T = temp /\ n = clock /\ open = unsettled /\ gone = forgotten /\ j = jobs[r]
  OBVIOUS
<1>2. /\ j.at \in Saving /\ Busy(r) /\ UNCHANGED <<files, clock, forgotten, unsettled>>
      /\ temp' = [T EXCEPT ![TargetOf(j)] = j.text]
  BY <1>1 DEF WriteTemp, Busy, Saving, Target, TargetOf, Replacing
<1>3. /\ Phase(j, F, T, n, open, gone) /\ Safe(F, open, gone) /\ TypeOK
      /\ j.session \in Sessions /\ DOMAIN T = Files
  BY <1>1, <1>2, SoleIs
<1>4. PICK place \in Replacing :
         /\ Becomes(r, Next1(r, place, j.row, {}))
         /\ j.at = "saveGlobal" <=> place = "replaceGlobal"
         /\ j.at = "saveSession" <=> place = "replaceSession"
         /\ j.at = "saveFind" <=> place = "replaceFind"
         /\ j.at = "saveExpire" <=> place = "replaceExpire"
  BY <1>1, <1>3, WriteTempIs
<1>5. PICK job : job = Next1(r, place, j.row, {})
  OBVIOUS
<1>6. job.at = place /\ job.row = j.row /\ job.session = j.session
  BY <1>1, <1>5 DEF Next1
<1>7. PICK U : U = temp'
  OBVIOUS
<1>8. TargetOf(job) = TargetOf(j) /\ OpenAfter(job, open) = OpenAfter(j, open) /\ TargetOf(j) \in Files
  BY <1>2, <1>3, <1>4, <1>6 DEF TargetOf, OpenAfter, Saving, Replacing, Files
<1>9. InHand(j, T) = j.text /\ InHand(job, U) = j.text
  BY <1>2, <1>3, <1>4, <1>6, <1>7, <1>8 DEF InHand, Saving, Replacing
<1>10. Phase(job, F, U, n, open, gone)
  BY <1>2, <1>3, <1>4, <1>6, <1>8, <1>9 DEF Phase, Saving, Replacing, Remembering
<1>11. Promise'
  BY <1>1, <1>2, <1>3 DEF Promise
<1> QED BY <1>1, <1>2, <1>4, <1>5, <1>7, <1>10, <1>11, BecomesPromise

LEMMA ReplacePromise ==
    ASSUME MInv, NEW r \in Requests, Replace(r), jobs[r].sole
    PROVE  Keeps(r)
<1>1. PICK F, T, n, open, gone, j :
         F = files /\ T = temp /\ n = clock /\ open = unsettled /\ gone = forgotten /\ j = jobs[r]
  OBVIOUS
<1>2. PICK H : H = files'
  OBVIOUS
<1>3. /\ j.at \in Replacing /\ Busy(r) /\ UNCHANGED clock
      /\ H = [F EXCEPT ![TargetOf(j)] = T[TargetOf(j)]]
  BY <1>1, <1>2 DEF Replace, Busy, Replacing, Target, TargetOf, Saving
<1>4. /\ Phase(j, F, T, n, open, gone) /\ TypeOK
      /\ j.session \in Sessions /\ DOMAIN F = Files
  BY <1>1, <1>3, SoleIs
<1>5. InHand(j, T) = T[TargetOf(j)]
  BY <1>3 DEF InHand, Saving, Replacing
<1>6. Safe(H, OpenAfter(j, open), gone)
  BY <1>3, <1>4, <1>5 DEF Phase
<1>7. Global \in Files /\ j.session \in Files /\ j.session # Global
  BY <1>4, MemoryAssumption DEF Files
<1>8. CASE j.at = "replaceGlobal"
  <2>1. /\ jobs' = [jobs EXCEPT ![r].at = "append"] /\ UNCHANGED forgotten
        /\ unsettled' = OpenAfter(j, open)
    BY <1>1, <1>8 DEF Replace, OpenAfter
  <2>2. PICK job : job = Next1(r, "append", j.row, j.text)
    OBVIOUS
  <2>3. Becomes(r, job) /\ job.at = "append" /\ job.row = j.row
    BY <1>1, <1>4, <2>1, <2>2, GoesOnIs DEF Next1
  <2>4. H[Global] = InHand(j, T)
    BY <1>3, <1>4, <1>5, <1>7, <1>8 DEF TargetOf
  <2>5. PICK U, next : U = temp' /\ next = unsettled'
    OBVIOUS
  <2>6. Phase(job, H, U, n, next, gone)
    <3>1. Heads(H[Global], next, j.row) /\ \A x \in gone : x[2] # j.row.id
      BY <1>4, <1>8, <2>1, <2>4, <2>5 DEF Phase, Remembering
    <3> QED BY <2>3, <3>1 DEF Phase, Saving, Replacing
  <2>7. Promise'
    BY <1>1, <1>2, <1>6, <2>1 DEF Promise
  <2> QED BY <1>1, <1>2, <1>3, <2>1, <2>3, <2>5, <2>6, <2>7, BecomesPromise
<1>9. CASE j.at = "replaceFind"
  <2>1. jobs' = [jobs EXCEPT ![r].at = "expire"] /\ UNCHANGED <<forgotten, unsettled>>
    BY <1>1, <1>9 DEF Replace
  <2>2. PICK job : job = Next1(r, "expire", j.row, j.text)
    OBVIOUS
  <2>3. Becomes(r, job) /\ job.at = "expire" /\ job.row = j.row /\ job.session = j.session
    BY <1>1, <1>4, <2>1, <2>2, GoesOnIs DEF Next1
  <2>4. H[j.session] = InHand(j, T)
    BY <1>3, <1>4, <1>5, <1>7, <1>9 DEF TargetOf
  <2>5. PICK U : U = temp'
    OBVIOUS
  <2>6. Phase(job, H, U, n, open, gone)
    <3>1. FirstDeleted(H[j.session], j.row.id)
      BY <1>4, <1>9, <2>4 DEF Phase
    <3> QED BY <2>3, <3>1 DEF Phase, Saving, Replacing, Remembering
  <2>7. OpenAfter(j, open) = open
    BY <1>9 DEF OpenAfter
  <2>8. Promise'
    BY <1>1, <1>2, <1>6, <2>1, <2>7 DEF Promise
  <2> QED BY <1>1, <1>2, <1>3, <2>1, <2>3, <2>5, <2>6, <2>8, BecomesPromise
<1>10. CASE j.at = "replaceSession"
  <2>1. Ends(r) /\ UNCHANGED <<forgotten, unsettled>>
    BY <1>1, <1>10 DEF Replace
  <2>2. OpenAfter(j, open) = open
    BY <1>10 DEF OpenAfter
  <2>3. Promise'
    BY <1>1, <1>2, <1>6, <2>1, <2>2 DEF Promise
  <2> QED BY <2>1, <2>3, EndsPromise
<1>11. CASE j.at = "replaceExpire"
  <2>1. Ends(r) /\ UNCHANGED unsettled /\ forgotten' = gone \cup {<<j.session, j.row.id>>}
    BY <1>1, <1>11 DEF Replace, Acknowledge
  <2>2. OpenAfter(j, open) = open
    BY <1>11 DEF OpenAfter
  <2>3. H[Global] = InHand(j, T) /\ H[j.session] = F[j.session]
    BY <1>3, <1>4, <1>5, <1>7, <1>11 DEF TargetOf
  <2>4. Clean(H[Global], j.row.id) /\ FirstDeleted(H[j.session], j.row.id)
    BY <1>4, <1>11, <2>3 DEF Phase
  <2>5. Safe(H, open, gone \cup {<<j.session, j.row.id>>})
    BY <1>6, <2>2, <2>4, AcknowledgeSafe
  <2>6. Promise'
    BY <1>1, <1>2, <2>1, <2>5 DEF Promise
  <2> QED BY <2>1, <2>6, EndsPromise
<1> QED BY <1>3, <1>8, <1>9, <1>10, <1>11 DEF Replacing

LEMMA StopPromise ==
    ASSUME MInv, NEW r \in Requests, MissReplace(r) \/ Fail(r)
    PROVE  Keeps(r)
<1>1. Ends(r) /\ UNCHANGED <<files, forgotten, unsettled>>
  BY DEF MissReplace, Fail
<1>2. Promise'
  BY <1>1 DEF MInv, Promise
<1> QED BY <1>1, <1>2, EndsPromise

-----------------------------------------------------------------------------
(***************************************************************************)
(* The other requests, and what is promised when requests overlap.         *)
(***************************************************************************)
Work(r) ==
    \/ ReadGlobal(r) \/ ReadSession(r) \/ Find(r) \/ Expire(r)
    \/ WriteTemp(r) \/ MissReplace(r) \/ Replace(r) \/ Fail(r)

\* When requests have overlapped nothing is promised.
LEMMA NothingPromised ==
    ASSUME NEW F \in [Files -> SUBSET Row]
    PROVE  Safe(F, Keys, {})
<1>1. \A g \in F[Global] : g.key \in Keys
  BY DEF Files, Row
<1> QED BY <1>1 DEF Safe, AllBehind, Live

\* A request at work leaves the others alone, and only one that is by itself
\* adds to what is promised.
LEMMA WorkIs ==
    ASSUME MInv, NEW r \in Requests, Work(r)
    PROVE  /\ Busy(r) /\ clock' = clock
           /\ \E job : Becomes(r, job) /\ (job.at \in {"new", "over"} \/ job.sole = jobs[r].sole)
           /\ ~jobs[r].sole => UNCHANGED <<forgotten, unsettled>>
           /\ \A x \in forgotten' : x \in forgotten \/ x = <<jobs[r].session, jobs[r].row.id>>
<1> DEFINE Like(job) == job.at \in {"new", "over"} \/ job.sole = jobs[r].sole
<1>1. Busy(r) /\ clock' = clock
  BY DEF Work, ReadGlobal, ReadSession, Find, Expire, WriteTemp, MissReplace, Replace, Fail,
         Busy, Saving, Replacing
<1>2. ~jobs[r].sole => UNCHANGED <<forgotten, unsettled>>
  BY DEF Work, ReadGlobal, ReadSession, Find, Expire, WriteTemp, MissReplace, Replace, Fail,
         Acknowledge, Replacing
<1>3. \A x \in forgotten' : x \in forgotten \/ x = <<jobs[r].session, jobs[r].row.id>>
  BY DEF Work, ReadGlobal, ReadSession, Find, Expire, WriteTemp, MissReplace, Replace, Fail,
         Acknowledge, Replacing
<1>4. TypeOK
  BY DEF MInv, Inv
<1>5. \A place, row, text : Like(Next1(r, place, row, text))
  BY DEF Next1
<1>6. Ends(r) => \E job : Becomes(r, job) /\ Like(job)
  <2>1. EndedJob.at = "over"
    BY DEF EndedJob, Idle
  <2> QED BY <2>1 DEF Ends, Becomes, EndedJob
<1> HIDE DEF Like
<1>7. \A place, row, text : Writes(r, place, row, text) => \E job : Becomes(r, job) /\ Like(job)
  BY <1>4, <1>5, WritesIs
<1>8. \A place : jobs' = [jobs EXCEPT ![r].at = place] => \E job : Becomes(r, job) /\ Like(job)
  BY <1>4, <1>5, GoesOnIs
<1>9. WriteTemp(r) => \E job : Becomes(r, job) /\ Like(job)
  BY <1>4, <1>5, WriteTempIs
<1>10. \E job : Becomes(r, job) /\ Like(job)
  <2>1. CASE ReadGlobal(r)
    BY <1>7, <2>1 DEF ReadGlobal
  <2>2. CASE ReadSession(r)
    BY <1>7, <2>2 DEF ReadSession
  <2>3. CASE Find(r)
    BY <1>6, <1>7, <2>3 DEF Find, Ends
  <2>4. CASE Expire(r)
    BY <1>6, <1>7, <2>4 DEF Expire
  <2>5. CASE MissReplace(r) \/ Fail(r)
    BY <1>6, <2>5 DEF MissReplace, Fail
  <2>6. CASE Replace(r)
    BY <1>6, <1>8, <2>6 DEF Replace, Replacing
  <2> QED BY <1>9, <2>1, <2>2, <2>3, <2>4, <2>5, <2>6 DEF Work
<1> QED BY <1>1, <1>2, <1>3, <1>10 DEF Like

LEMMA WorkRest ==
    ASSUME MInv, NEW r \in Requests, Work(r)
    PROVE  Alone' /\ Undisturbed' /\ HistoryOld' /\ \A q \in Requests \ {r} : jobs'[q] = jobs[q]
<1>1. PICK job : Becomes(r, job) /\ (job.at \in {"new", "over"} \/ job.sole = jobs[r].sole)
  BY WorkIs
<1>2. /\ \A q \in Requests \ {r} : jobs'[q] = jobs[q]
      /\ jobs'[r] = job
  BY <1>1, TypeOfJobs DEF MInv, Inv, Becomes, Jobs
<1>3. Busy(r) /\ clock' = clock
  BY WorkIs
<1>4. \A q \in Requests : Busy(q)' => Busy(q) /\ jobs'[q].sole = jobs[q].sole
  BY <1>1, <1>2, <1>3 DEF Busy
<1>5. Alone'
  BY <1>4 DEF MInv, Alone
<1>6. Undisturbed'
  <2>1. CASE jobs[r].sole
    <3>1. \A q \in Requests \ {r} : ~Busy(q)
      BY <1>3, <2>1 DEF MInv, Alone
    <3> QED BY <1>4, <2>1, <3>1 DEF Undisturbed
  <2>2. CASE ~jobs[r].sole
    <3>1. UNCHANGED <<forgotten, unsettled>>
      BY <2>2, WorkIs
    <3> QED BY <1>4, <3>1 DEF Undisturbed, MInv
  <2> QED BY <2>1, <2>2
<1>7. HistoryOld'
  <2>1. jobs[r].row.id <= clock
    <3>1. jobs[r].row \in Row /\ clock \in Nat
      BY <1>3, AtWork DEF MInv, Inv, TypeOK
    <3>2. PICK owner : Fits(owner, clock, jobs[r].row)
      BY <1>3 DEF MInv, AllFit, FitBy, Busy
    <3> QED BY <3>1, <3>2 DEF Fits
  <2>2. \A x \in forgotten' : x \in forgotten \/ x[2] = jobs[r].row.id
    BY WorkIs
  <2> QED BY <1>3, <2>1, <2>2 DEF HistoryOld, MInv
<1> QED BY <1>2, <1>5, <1>6, <1>7

LEMMA WorkKeeps ==
    ASSUME MInv, Inv', NEW r \in Requests, Work(r)
    PROVE  MInv'
<1>1. AllFit'
  BY WorkFits DEF Work, MInv
<1>2. Alone' /\ Undisturbed' /\ HistoryOld'
  BY WorkRest
<1>3. Promise' /\ Phases'
  <2>1. CASE jobs[r].sole
    <3>1. Keeps(r)
      BY <2>1, ReadGlobalPromise, ReadSessionPromise, FindPromise, ExpirePromise,
         WriteTempPromise, ReplacePromise, StopPromise DEF Work
    <3>2. \A q \in Requests \ {r} : ~Busy(q)'
      BY <2>1, WorkIs, WorkRest DEF MInv, Alone, Busy
    <3> QED BY <3>1, <3>2 DEF Keeps, Phases
  <2>2. CASE ~jobs[r].sole
    <3>1. forgotten' = {} /\ unsettled' = Keys
      BY <2>2, WorkIs DEF MInv, Undisturbed
    <3>2. PICK F : F = files'
      OBVIOUS
    <3>3. F \in [Files -> SUBSET Row]
      BY <3>2 DEF Inv, TypeOK
    <3>4. Promise'
      BY <3>1, <3>2, <3>3, NothingPromised DEF Promise
    <3>5. PICK job : Becomes(r, job) /\ (job.at \in {"new", "over"} \/ job.sole = jobs[r].sole)
      BY WorkIs
    <3>6. jobs'[r] = job
      BY <3>5, TypeOfJobs DEF MInv, Inv, Becomes, Jobs
    <3>7. ~(Busy(r)' /\ jobs'[r].sole)
      BY <2>2, <3>5, <3>6 DEF Busy
    <3>8. \A q \in Requests \ {r} : ~(Busy(q)' /\ jobs'[q].sole)
      BY WorkIs, WorkRest DEF MInv, Alone, Busy
    <3> QED BY <3>4, <3>7, <3>8 DEF Phases
  <2> QED BY <2>1, <2>2
<1> QED BY <1>1, <1>2, <1>3 DEF MInv

\* A request that starts takes back the promise if another is at work, and is
\* by itself if none is.
LEMMA StartsRest ==
    ASSUME MInv, NEW r \in Requests, NEW job \in Job, Starts(r, job),
           UNCHANGED files, clock' \in Nat, clock <= clock'
    PROVE  /\ Alone' /\ Undisturbed' /\ HistoryOld' /\ Promise'
           /\ \A q \in Requests \ {r} : ~jobs'[q].sole
           /\ jobs'[r].sole => /\ UNCHANGED <<forgotten, unsettled>>
                               /\ jobs'[r] = [job EXCEPT !.sole = TRUE]
<1>1. PICK sole : sole = \A q \in Requests \ {r} : ~Busy(q)
  OBVIOUS
<1>2. /\ sole \in BOOLEAN
      /\ jobs' = [q \in Requests |-> IF q = r THEN [job EXCEPT !.sole = sole]
                                     ELSE [jobs[q] EXCEPT !.sole = FALSE]]
      /\ forgotten' = IF sole THEN forgotten ELSE {}
      /\ unsettled' = IF sole THEN unsettled ELSE Keys
  BY <1>1 DEF Starts
<1>3. \A q \in Requests : jobs[q] \in Job
  BY TypeOfJobs DEF MInv, Inv, Jobs
<1>4. \A j \in Job, b \in BOOLEAN : [j EXCEPT !.sole = b].sole = b /\ [j EXCEPT !.sole = b].at = j.at
  BY DEF Job
<1>5. /\ jobs'[r] = [job EXCEPT !.sole = sole] /\ jobs'[r].sole = sole
      /\ \A q \in Requests \ {r} : ~jobs'[q].sole /\ jobs'[q].at = jobs[q].at
  BY <1>2, <1>3, <1>4
<1>6. Alone'
  BY <1>1, <1>5 DEF Alone, Busy
<1>7. Undisturbed'
  <2>1. CASE sole
    <3>1. \A q \in Requests : Busy(q)' => q = r
      BY <1>1, <1>5, <2>1 DEF Busy
    <3> QED BY <1>5, <2>1, <3>1 DEF Undisturbed
  <2>2. CASE ~sole
    BY <1>2, <2>2 DEF Undisturbed
  <2> QED BY <1>2, <2>1, <2>2
<1>8. HistoryOld'
  <2>1. \A x \in forgotten : x[2] \in Nat /\ x[2] <= clock
    BY DEF MInv, HistoryOld, Inv, TypeOK
  <2>2. forgotten' \subseteq forgotten /\ clock \in Nat
    BY <1>2 DEF MInv, Inv, TypeOK
  <2> QED BY <2>1, <2>2 DEF HistoryOld
<1>9. Promise'
  <2>1. CASE sole
    BY <1>2, <2>1 DEF Promise, MInv
  <2>2. CASE ~sole
    <3>1. files \in [Files -> SUBSET Row]
      BY DEF MInv, Inv, TypeOK
    <3>2. Safe(files, Keys, {})
      BY <3>1, NothingPromised
    <3> QED BY <1>2, <2>2, <3>2 DEF Promise
  <2> QED BY <1>2, <2>1, <2>2
<1>10. jobs'[r].sole => UNCHANGED <<forgotten, unsettled>> /\ jobs'[r] = [job EXCEPT !.sole = TRUE]
  BY <1>2, <1>5
<1> QED BY <1>5, <1>6, <1>7, <1>8, <1>9, <1>10

\* Its own phase is all that is left.
LEMMA StartsPhases ==
    ASSUME NEW r \in Requests, \A q \in Requests \ {r} : ~jobs'[q].sole,
           jobs'[r].sole => Phase(jobs'[r], files', temp', clock', unsettled', forgotten')
    PROVE  Phases'
BY DEF Phases

LEMMA RememberPromise ==
    ASSUME MInv, Inv', NEW r \in Requests, Remember(r)
    PROVE  MInv'
<1>1. PICK s \in Sessions, k \in Keys, c \in Contents : \E score \in Scores[c] :
         Starts(r, [Idle EXCEPT !.at = "upsert", !.session = s,
                        !.row = [id |-> clock + 1, key |-> k, content |-> c, score |-> score,
                                 updated |-> clock + 1, deleted |-> FALSE, supersedes |-> 0]])
  BY DEF Remember
<1>2. PICK score \in Scores[c] :
         Starts(r, [Idle EXCEPT !.at = "upsert", !.session = s,
                        !.row = [id |-> clock + 1, key |-> k, content |-> c, score |-> score,
                                 updated |-> clock + 1, deleted |-> FALSE, supersedes |-> 0]])
  BY <1>1
<1>3. PICK row : row = [id |-> clock + 1, key |-> k, content |-> c, score |-> score,
                        updated |-> clock + 1, deleted |-> FALSE, supersedes |-> 0]
  OBVIOUS
<1>4. PICK job : job = [Idle EXCEPT !.at = "upsert", !.session = s, !.row = row]
  OBVIOUS
<1>5. /\ Starts(r, job) /\ clock' = clock + 1 /\ UNCHANGED <<files, temp>>
      /\ clock \in Nat /\ clock' \in Nat /\ score \in Nat
  BY <1>2, <1>3, <1>4, MemoryAssumption DEF Remember, MInv, Inv, TypeOK
<1>6. row \in Row
  BY <1>3, <1>5 DEF Row
<1>7. job \in Job
  BY <1>4, <1>6 DEF Idle, Job, Places
<1>8. /\ Alone' /\ Undisturbed' /\ HistoryOld' /\ Promise'
      /\ \A q \in Requests \ {r} : ~jobs'[q].sole
      /\ jobs'[r].sole => /\ UNCHANGED <<forgotten, unsettled>>
                          /\ jobs'[r] = [job EXCEPT !.sole = TRUE]
  BY <1>5, <1>7, StartsRest
<1>9. ASSUME jobs'[r].sole
      PROVE  Phase(jobs'[r], files', temp', clock', unsettled', forgotten')
  <2>1. PICK next, n : next = [job EXCEPT !.sole = TRUE] /\ n = clock'
    OBVIOUS
  <2>2. next.at = "upsert" /\ next.row = row
    BY <1>4, <2>1 DEF Idle
  <2>3. row.id = n /\ row.updated = n /\ ~row.deleted /\ row.supersedes = 0
    BY <1>3, <1>5, <2>1
  <2>4. \A f \in Files : \A x \in files[f] : Old(n, x)
    <3>1. PICK owner : \A f \in Files : \A x \in files[f] : Fits(owner, clock, x)
      BY DEF MInv, AllFit, FitBy, TextFits
    <3>2. \A f \in Files : \A x \in files[f] : x \in Row
      BY DEF MInv, Inv, TypeOK
    <3> QED BY <1>5, <2>1, <3>1, <3>2 DEF Fits, Old, Row
  <2>5. \A x \in forgotten : x[2] < n
    <3>1. \A x \in forgotten : x[2] \in Nat /\ x[2] <= clock
      BY DEF MInv, HistoryOld, Inv, TypeOK
    <3> QED BY <1>5, <2>1, <3>1
  <2>6. Phase(next, files, temp', n, unsettled', forgotten)
    BY <2>2, <2>3, <2>4, <2>5 DEF Phase, Saving, Replacing, Remembering
  <2> QED BY <1>5, <1>8, <1>9, <2>1, <2>6
<1>10. Phases'
  BY <1>8, <1>9, StartsPhases
<1>11. AllFit'
  BY RememberFits DEF MInv
<1> QED BY <1>8, <1>10, <1>11 DEF MInv

LEMMA ForgetPromise ==
    ASSUME MInv, Inv', NEW r \in Requests, Forget(r)
    PROVE  MInv'
<1>1. PICK s \in Sessions : \E row \in files[s] :
         Starts(r, [Idle EXCEPT !.at = "find", !.session = s, !.row = row])
  BY DEF Forget
<1>2. PICK row \in files[s] : Starts(r, [Idle EXCEPT !.at = "find", !.session = s, !.row = row])
  BY <1>1
<1>3. PICK job : job = [Idle EXCEPT !.at = "find", !.session = s, !.row = row]
  OBVIOUS
<1>4. row \in Row
  BY <1>2 DEF MInv, Inv, TypeOK, Files
<1>5. job \in Job
  BY <1>3, <1>4 DEF Idle, Job, Places
<1>6. Starts(r, job) /\ UNCHANGED files /\ clock' \in Nat /\ clock <= clock'
  BY <1>2, <1>3 DEF Forget, MInv, Inv, TypeOK
<1>7. /\ Alone' /\ Undisturbed' /\ HistoryOld' /\ Promise'
      /\ \A q \in Requests \ {r} : ~jobs'[q].sole
      /\ jobs'[r].sole => jobs'[r] = [job EXCEPT !.sole = TRUE]
  BY <1>5, <1>6, StartsRest
<1>8. ASSUME jobs'[r].sole
      PROVE  Phase(jobs'[r], files', temp', clock', unsettled', forgotten')
  <2>1. jobs'[r].at = "find"
    BY <1>3, <1>7, <1>8 DEF Idle
  <2> QED BY <2>1 DEF Phase, Saving, Replacing, Remembering
<1>9. Phases'
  BY <1>7, <1>8, StartsPhases
<1>10. AllFit'
  BY ForgetFits DEF MInv
<1> QED BY <1>7, <1>9, <1>10 DEF MInv

-----------------------------------------------------------------------------
LEMMA InitMInv == Init => MInv
<1> SUFFICES ASSUME Init PROVE MInv
  OBVIOUS
<1>1. Inv
  BY InitInv
<1>2. \A r \in Requests : ~Busy(r)
  BY DEF Init, Busy, Idle
<1>3. Alone /\ Undisturbed /\ Phases
  BY <1>2 DEF Alone, Undisturbed, Phases
<1>4. HistoryOld
  BY DEF Init, HistoryOld
<1>5. Promise
  <2>1. \A f \in Files : files[f] = {}
    BY DEF Init
  <2>2. forgotten = {} /\ Global \in Files
    BY DEF Init, Files
  <2> QED BY <2>1, <2>2 DEF Promise, Safe, AllBehind, Live
<1>6. AllFit
  <2>1. PICK owner : owner = clock
    OBVIOUS
  <2>2. TextFits(owner, clock, {})
    BY FS_EmptySet DEF TextFits
  <2>3. \A r \in Requests : jobs[r].text = {} /\ jobs[r].at = "new"
    BY DEF Init, Idle
  <2>4. \A f \in Files : files[f] = {} /\ temp[f] = None
    BY DEF Init
  <2>5. FitBy(owner, files, temp, jobs, clock)
    BY <2>2, <2>3, <2>4 DEF FitBy
  <2> QED BY <2>5 DEF AllFit
<1> QED BY <1>1, <1>3, <1>4, <1>5, <1>6 DEF MInv

LEMMA Unchanged == MInv /\ UNCHANGED vars => MInv'
BY DEF vars, MInv, Inv, TypeOK, AllFit, HistoryOld, Alone, Undisturbed, Promise, Phases, Busy

LEMMA NextMInv == MInv /\ [Next]_vars => MInv'
<1> SUFFICES ASSUME MInv, [Next]_vars PROVE MInv'
  OBVIOUS
<1>1. Inv'
  BY NextInv DEF MInv
<1>2. CASE UNCHANGED vars
  BY <1>2, Unchanged
<1>3. CASE Ended
  BY <1>3, Unchanged DEF Ended
<1>4. ASSUME NEW r \in Requests,
             \/ Remember(r) \/ ReadGlobal(r) \/ ReadSession(r)
             \/ Forget(r) \/ Find(r) \/ Expire(r)
             \/ WriteTemp(r) \/ MissReplace(r) \/ Replace(r) \/ Fail(r)
      PROVE  MInv'
  BY <1>1, <1>4, RememberPromise, ForgetPromise, WorkKeeps DEF Work
<1> QED BY <1>2, <1>3, <1>4 DEF Next

LEMMA AlwaysMInv == Spec => []MInv
BY InitMInv, NextMInv, PTL DEF Spec

-----------------------------------------------------------------------------
\* What is listed is live, in the session's file or in the global one, and the
\* newest of its key among what has not expired and is not superseded.
LEMMA ListedIs ==
    ASSUME NEW s, NEW expired, NEW row \in Listed(s, expired)
    PROVE  \E own \in SUBSET Live(files[s]) : row \in Resolved(own \cup Live(files[Global]), expired)
<1> DEFINE best == LongTermIds(files[s])
           own == {x \in Live(files[s]) : /\ x.id \in best
                                         /\ \A y \in Live(files[s]) : y.id = x.id => y.updated <= x.updated}
           all == Resolved(own \cup Live(files[Global]), expired)
<1>1. Listed(s, expired) = First(all, TopN, GlobalOrder)
  BY DEF Listed
<1>2. own \in SUBSET Live(files[s])
  OBVIOUS
<1> HIDE DEF own
<1>3. row \in all
  BY <1>1 DEF First
<1> QED BY <1>2, <1>3

LEMMA NewestOf ==
    ASSUME MInv, NEW s \in Sessions, NEW expired, NEW row \in Listed(s, expired),
           NEW g \in Live(files[Global]), g.id \notin expired, g.key = row.key, g.key \notin unsettled
    PROVE  g.id = row.id
<1>1. PICK own \in SUBSET Live(files[s]) : row \in Resolved(own \cup Live(files[Global]), expired)
  BY ListedIs
<1>2. \A y \in own \cup Live(files[Global]) : Behind(g, y) /\ y \in Row
  <2>1. s \in Files /\ Global \in Files
    BY DEF Files
  <2> QED BY <2>1 DEF MInv, Promise, Safe, AllBehind, Inv, TypeOK, Live
<1>3. row \in own \cup Live(files[Global])
  BY <1>1 DEF Resolved
<1>4. g.updated <= row.updated
  BY <1>1, <1>2 DEF Resolved, Behind
<1>5. row.id = g.id \/ row.updated < g.updated
  BY <1>2, <1>3 DEF Behind
<1>6. g.updated \in Nat /\ row.updated \in Nat
  BY <1>2, <1>3 DEF Row
<1> QED BY <1>4, <1>5, <1>6

\* The newest memory of a key, once a turn that ran by itself has put it into
\* the global file, is what every session is shown under that key, although
\* add_candidate leaves the older copies in the sessions' files: however many
\* turns and deletions follow or fail, as long as none of them overlap.
THEOREM NewestIsShown == Spec => []NewestWins
<1>1. MInv => NewestWins
  BY NewestOf DEF NewestWins
<1> QED BY <1>1, AlwaysMInv, PTL

LEMMA OnlyOne ==
    ASSUME NEW S, IsFiniteSet(S), Cardinality(S) = 1, NEW x \in S, NEW y \in S
    PROVE  x = y
BY FS_Singleton

LEMMA StaysOut ==
    ASSUME MInv, NEW gone \in forgotten
    PROVE  /\ \A g \in Live(files[Global]) : g.id # gone[2]
           /\ Cardinality({x \in files[gone[1]] : x.id = gone[2]}) = 1 =>
                \A x \in Listed(gone[1], {}) : x.id # gone[2]
<1>1. PICK s \in Sessions, id \in Nat : gone[1] = s /\ gone[2] = id
  BY DEF MInv, Inv, TypeOK
<1>2. Clean(files[Global], id) /\ FirstDeleted(files[s], id)
  BY <1>1 DEF MInv, Promise, Safe
<1>3. ASSUME Cardinality({x \in files[s] : x.id = id}) = 1, NEW x \in Listed(s, {}), x.id = id
      PROVE  FALSE
  <2>1. PICK own \in SUBSET Live(files[s]) : x \in Resolved(own \cup Live(files[Global]), {})
    BY ListedIs
  <2>2. x \in Live(files[s])
    BY <1>2, <1>3, <2>1 DEF Resolved, Clean
  <2>3. PICK c \in Copy(files[s], id) : c.deleted
    BY <1>2, <1>3, <2>2 DEF FirstDeleted, Live
  <2>4. PICK S : S = {y \in files[s] : y.id = id}
    OBVIOUS
  <2>5. c \in S /\ x \in S
    BY <1>3, <2>2, <2>3, <2>4 DEF Copy, Live
  <2>6. IsFiniteSet(S)
    <3>1. s \in Files
      BY DEF Files
    <3>2. IsFiniteSet(files[s])
      BY <3>1 DEF MInv, AllFit, FitBy, TextFits
    <3>3. S \in SUBSET files[s]
      BY <2>4
    <3> QED BY <3>2, <3>3, FS_Subset
  <2>7. x = c
    BY <1>3, <2>4, <2>5, <2>6, OnlyOne
  <2> QED BY <2>2, <2>3, <2>7 DEF Live
<1> QED BY <1>1, <1>2, <1>3 DEF Clean

\* What a deletion that ran by itself acknowledged never comes back: not into
\* the global file, which every search reads, and not into what its session
\* lists unless the session's file holds a second copy of the memory.
THEOREM DeletedStaysDeleted == Spec => []ForgottenStaysOut
<1>1. MInv => ForgottenStaysOut
  BY StaysOut DEF ForgottenStaysOut
<1> QED BY <1>1, AlwaysMInv, PTL

=============================================================================
