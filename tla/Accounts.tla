------------------------------ MODULE Accounts ------------------------------
(***************************************************************************)
(* One account of app/services/auth: its password and login sessions, its  *)
(* status and role, and the credit that every chat request reserves.       *)
(*                                                                         *)
(* Each action is one transaction on the SQLite database (every statement  *)
(* names one user_id, so accounts are independent) or one step in memory.  *)
(* A login, a password change and a chat request take several of them, and *)
(* run on threads of their own, so anything may come between.              *)
(***************************************************************************)
EXTENDS Naturals, FiniteSets

CONSTANTS
    Chats,           \* chat requests of the account
    Tasks,           \* logins, password changes and administrators' resets
    Initially,       \* the password the account was created with
    DefaultCredits,  \* DEFAULT_CHAT_CREDITS
    TopUps,          \* amounts an administrator may add
    MaxCredits,      \* bound: no top-up above it
    MaxRestarts      \* bound: restarts of the process

ASSUME AccountsAssumption ==
    /\ Initially \notin Tasks
    /\ IsFiniteSet(Chats)
    /\ DefaultCredits \in Nat /\ MaxCredits \in Nat /\ MaxRestarts \in Nat
    /\ TopUps \subseteq Nat \ {0}

VARIABLES
    account,   \* the users row
    sessions,  \* the account's rows of auth_sessions
    chats,     \* each chat request and its ChatCreditReservation
    tasks,
    used,      \* AdminTokenTracker holds the approval token's hash
    spent,     \* resets it was accepted for, in this process (history)
    restarts,
    granted,   \* credits ever given to the account (history)
    lost,      \* requests that died between reservation and refund (history)
    late       \* tasks that verified a password which was then replaced (history)

vars == <<account, sessions, chats, tasks, used, spent, restarts, granted, lost, late>>

\* A password is known by the task that set it.
Passwords == Tasks \cup {Initially}

\* A session is known by the login that opened it and the password it showed.
Opened(by, nth, password) == [by |-> by, nth |-> nth, password |-> password]
FirstSession == Opened(Initially, 1, Initially)

Init ==
    /\ account \in [role : {"user", "admin"}, status : {"active"},
                    password : {Initially}, credits : {DefaultCredits}]
    /\ sessions = {FirstSession}
    /\ chats = [c \in Chats |-> [at |-> "new", charged |-> FALSE]]
    /\ tasks = [t \in Tasks |-> [at |-> "new", shown |-> Initially]]
    /\ used = FALSE
    /\ spent = {}
    /\ restarts = 0
    /\ granted = DefaultCredits
    /\ lost = {}
    /\ late = {}

-----------------------------------------------------------------------------
(***************************************************************************)
(* Chat requests.                                                          *)
(***************************************************************************)
ChatAt(c, place) == [chats EXCEPT ![c].at = place]

\* _require_user: any session that has not been deleted or expired will do.
Authenticate(c) ==
    /\ chats[c].at = "new" /\ sessions # {}
    /\ chats' = ChatAt(c, IF account.status = "active" THEN "admitted" ELSE "over")
    /\ UNCHANGED <<account, sessions, tasks, used, spent, restarts, granted, lost, late>>

Chargeable == account.role # "admin" /\ account.status = "active" /\ account.credits > 0

\* reserve_chat_credit: one conditional UPDATE, and why it changed nothing.
Reserve(c) ==
    /\ chats[c].at = "admitted"
    /\ \/ /\ Chargeable
          /\ account' = [account EXCEPT !.credits = @ - 1]
          /\ chats' = [chats EXCEPT ![c] = [at |-> "running", charged |-> TRUE]]
       \/ /\ account.role = "admin"
          /\ chats' = ChatAt(c, "running")
          /\ UNCHANGED account
       \/ /\ ~Chargeable /\ account.role # "admin"
          /\ chats' = ChatAt(c, "over")
          /\ UNCHANGED account
    /\ UNCHANGED <<sessions, tasks, used, spent, restarts, granted, lost, late>>

\* The load guard, which is passed first, has no place for the request.
TurnAway(c) ==
    /\ chats[c].at = "admitted"
    /\ chats' = ChatAt(c, "over")
    /\ UNCHANGED <<account, sessions, tasks, used, spent, restarts, granted, lost, late>>

\* credit.commit(), the last thing the handler does.
Commit(c) ==
    /\ chats[c].at = "running"
    /\ chats' = ChatAt(c, "answered")
    /\ UNCHANGED <<account, sessions, tasks, used, spent, restarts, granted, lost, late>>

\* The handler raises, answers 404, or is cancelled.
Raise(c) ==
    /\ chats[c].at = "running"
    /\ chats' = ChatAt(c, "failed")
    /\ UNCHANGED <<account, sessions, tasks, used, spent, restarts, granted, lost, late>>

\* Mutant: whether a request was charged is decided by the role it has at the end.
SettledByRole(c) == chats[c].at = "answered" \/ account.role = "admin"

\* _settled: committed, or never charged.
Settled(c) == chats[c].at = "answered" \/ ~chats[c].charged

\* close(), on a thread once the handler has ended; an administrator's balance
\* is never touched.
Close(c) ==
    /\ chats[c].at \in {"answered", "failed"}
    /\ account' = IF Settled(c) \/ account.role = "admin" THEN account
                  ELSE [account EXCEPT !.credits = @ + 1]
    /\ chats' = ChatAt(c, IF chats[c].at = "answered" THEN "paid" ELSE "over")
    /\ UNCHANGED <<sessions, tasks, used, spent, restarts, granted, lost, late>>

\* The refund itself fails: the database is locked.
CloseFails(c) ==
    /\ chats[c].at = "failed" /\ ~Settled(c)
    /\ chats' = ChatAt(c, "over")
    /\ lost' = lost \cup {c}
    /\ UNCHANGED <<account, sessions, tasks, used, spent, restarts, granted, late>>

-----------------------------------------------------------------------------
(***************************************************************************)
(* Logins and passwords.                                                   *)
(***************************************************************************)
TaskAt(t, place) == [tasks EXCEPT ![t].at = place]

\* authenticate: a read of its own, before the session is created.
Verify(t, next) ==
    /\ \/ /\ account.status = "active"
          /\ tasks' = [tasks EXCEPT ![t] = [at |-> next, shown |-> account.password]]
       \/ tasks' = TaskAt(t, "over")
    /\ UNCHANGED <<account, sessions, chats, used, spent, restarts, granted, lost, late>>

Login(t) == tasks[t].at = "new" /\ Verify(t, "login")

\* change_password starts with a login, under a session that may be disabled.
ChangePassword(t) == tasks[t].at = "new" /\ sessions # {} /\ Verify(t, "change")

\* create_session: login is done; a password change goes on.
OpenSession(t) ==
    /\ tasks[t].at \in {"login", "change"}
    /\ sessions' = sessions \cup {Opened(t, 1, tasks[t].shown)}
    /\ tasks' = TaskAt(t, IF tasks[t].at = "login" THEN "over" ELSE "confirmed")
    /\ UNCHANGED <<account, chats, used, spent, restarts, granted, lost, late>>

\* The new password is refused; the session of the check stays behind.
RefusePassword(t) ==
    /\ tasks[t].at = "confirmed"
    /\ tasks' = TaskAt(t, "over")
    /\ UNCHANGED <<account, sessions, chats, used, spent, restarts, granted, lost, late>>

\* Mutant: a new password leaves the sessions alone.
SessionsKept == sessions

\* update_user_password deletes all of the account's sessions with the password.
SessionsAfterChange == {}

SetPassword(t) ==
    /\ account' = [account EXCEPT !.password = t]
    /\ sessions' = SessionsAfterChange
    /\ late' = late \cup {x \in Tasks \ {t} : tasks[x].at \in {"login", "change", "changed"}}
    /\ UNCHANGED <<chats, restarts, granted, lost>>

\* The last statement did not look at the old password again.
ReplacePassword(t) ==
    /\ tasks[t].at = "confirmed"
    /\ tasks' = TaskAt(t, "changed")
    /\ SetPassword(t)
    /\ UNCHANGED <<used, spent>>

\* rotate_session_token, which may fail: the password stays changed.
RotateSession(t) ==
    /\ tasks[t].at = "changed"
    /\ sessions' \in {sessions, sessions \cup {Opened(t, 2, t)}}
    /\ tasks' = TaskAt(t, "over")
    /\ UNCHANGED <<account, chats, used, spent, restarts, granted, lost, late>>

\* Mutant: the token counts as used once the reset has been carried out.
MarkApprovalLater(t) ==
    /\ tasks[t].at = "approved"
    /\ spent' = spent \cup {t}
    /\ tasks' = TaskAt(t, "marked")
    /\ UNCHANGED <<account, sessions, chats, used, restarts, granted, lost, late>>

\* An administrator's reset, with the approval token: is_token_used ...
CheckApproval(t) ==
    /\ tasks[t].at = "new"
    /\ tasks' = TaskAt(t, IF used THEN "over" ELSE "approved")
    /\ UNCHANGED <<account, sessions, chats, used, spent, restarts, granted, lost, late>>

\* ... and mark_token_used, without a lock around the two.
MarkApproval(t) ==
    /\ tasks[t].at = "approved"
    /\ used' = TRUE
    /\ spent' = spent \cup {t}
    /\ tasks' = TaskAt(t, "marked")
    /\ UNCHANGED <<account, sessions, chats, restarts, granted, lost, late>>

\* The ticket, the reason or the new password may be refused after that.
ResetPassword(t) ==
    /\ tasks[t].at = "marked"
    /\ tasks' = TaskAt(t, "over")
    /\ \/ SetPassword(t) /\ UNCHANGED <<used, spent>>
       \/ UNCHANGED <<account, sessions, chats, used, spent, restarts, granted, lost, late>>

\* Logout, or get_user_by_token of a session that has expired.
EndSession(s) ==
    /\ s \in sessions
    /\ sessions' = sessions \ {s}
    /\ UNCHANGED <<account, chats, tasks, used, spent, restarts, granted, lost, late>>

-----------------------------------------------------------------------------
(***************************************************************************)
(* Administration: single statements.                                      *)
(***************************************************************************)
AddCredits(n) ==
    /\ account.role # "admin" /\ account.credits + n <= MaxCredits
    /\ account' = [account EXCEPT !.credits = @ + n]
    /\ granted' = granted + n
    /\ UNCHANGED <<sessions, chats, tasks, used, spent, restarts, lost, late>>

\* Disabling leaves the sessions in place: each request checks the status.
SetStatus(status) ==
    /\ account.status # status
    /\ account' = [account EXCEPT !.status = status]
    /\ UNCHANGED <<sessions, chats, tasks, used, spent, restarts, granted, lost, late>>

\* The route refuses to make anyone an administrator; it may unmake one.
Demote ==
    /\ account.role = "admin"
    /\ account' = [account EXCEPT !.role = "user"]
    /\ UNCHANGED <<sessions, chats, tasks, used, spent, restarts, granted, lost, late>>

\* Requests and tasks die, and so does the record of used tokens; rows stay.
Restart ==
    /\ restarts < MaxRestarts
    /\ restarts' = restarts + 1
    /\ lost' = lost \cup {c \in Chats : chats[c].at \in {"running", "failed"} /\ chats[c].charged}
    /\ chats' = [c \in Chats |-> IF chats[c].at = "answered" THEN [chats[c] EXCEPT !.at = "paid"]
                                 ELSE IF chats[c].at \in {"new", "paid"} THEN chats[c]
                                 ELSE [chats[c] EXCEPT !.at = "over"]]
    /\ tasks' = [t \in Tasks |-> IF tasks[t].at = "new" THEN tasks[t] ELSE [tasks[t] EXCEPT !.at = "over"]]
    /\ used' = FALSE /\ spent' = {}
    /\ UNCHANGED <<account, sessions, granted, late>>

Ended ==
    /\ \A c \in Chats : chats[c].at \in {"new", "over", "paid"}
    /\ \A t \in Tasks : tasks[t].at = "over"
    /\ UNCHANGED vars

Next ==
    \/ \E c \in Chats : Authenticate(c) \/ Reserve(c) \/ TurnAway(c) \/ Commit(c) \/ Raise(c)
                        \/ Close(c) \/ CloseFails(c)
    \/ \E t \in Tasks : Login(t) \/ ChangePassword(t) \/ OpenSession(t) \/ RefusePassword(t)
                        \/ ReplacePassword(t) \/ RotateSession(t)
                        \/ CheckApproval(t) \/ MarkApproval(t) \/ ResetPassword(t)
    \/ \E s \in sessions : EndSession(s)
    \/ \E n \in TopUps : AddCredits(n)
    \/ \E status \in {"active", "disabled"} : SetStatus(status)
    \/ Demote \/ Restart \/ Ended

Spec == Init /\ [][Next]_vars

-----------------------------------------------------------------------------
(***************************************************************************)
(* Properties.                                                             *)
(***************************************************************************)
Sessions == [by : Passwords, nth : {1, 2}, password : Passwords]

\* Types; the balance is never negative, as the table's CHECK demands.
TypeOK ==
    /\ account \in [role : {"user", "admin"}, status : {"active", "disabled"},
                    password : Passwords, credits : Nat]
    /\ sessions \subseteq Sessions
    /\ chats \in [Chats -> [at : {"new", "admitted", "running", "answered", "failed", "paid", "over"},
                            charged : BOOLEAN]]
    /\ tasks \in [Tasks -> [at : {"new", "login", "change", "confirmed", "changed", "approved", "marked", "over"},
                            shown : Passwords]]
    /\ used \in BOOLEAN /\ spent \subseteq Tasks
    /\ restarts \in 0..MaxRestarts /\ granted \in Nat
    /\ lost \subseteq Chats /\ late \subseteq Tasks

Holding == {c \in Chats : chats[c].charged /\ chats[c].at \in {"running", "failed"}}
Paying == {c \in Chats : chats[c].charged /\ chats[c].at \in {"answered", "paid"}}

\* What the account was ever given is its balance, one credit for each answered
\* request that was charged, one for each that is still open, and one for each
\* whose refund failed or whose process died: a request that fails costs
\* nothing, whatever its account's role and status become meanwhile.
CreditsBalance ==
    granted = account.credits + Cardinality(Paying) + Cardinality(Holding) + Cardinality(lost)

\* Every session showed the password that the account has now, except those of
\* a login or a change that overlapped a later change: replacing a password
\* closes what the old one had opened.
SessionsFollowPassword ==
    \A s \in sessions : s.password = account.password \/ s.by \in late

\* The approval token is single-use: a reset that presents it after it was
\* accepted for another is refused, also when the other then failed.  (Two that
\* present it at the same time are both accepted; a restart forgets.)
ApprovalNotReused ==
    [][\A t \in Tasks : tasks[t].at = "new" /\ tasks'[t].at = "approved" => spent = {}]_vars

=============================================================================
