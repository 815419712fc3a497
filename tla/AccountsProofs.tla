--------------------------- MODULE AccountsProofs ---------------------------
(***************************************************************************)
(* Invariants of Accounts, for any number of chat requests, logins,        *)
(* password changes, resets and restarts.                                  *)
(***************************************************************************)
EXTENDS Accounts, FiniteSetTheorems, TLAPS

ChatState == [at : {"new", "admitted", "running", "answered", "failed", "paid", "over"},
              charged : BOOLEAN]
TaskState == [at : {"new", "login", "change", "confirmed", "changed", "approved", "marked", "over"},
              shown : Passwords]
AccountState == [role : {"user", "admin"}, status : {"active", "disabled"},
                 password : Passwords, credits : Nat]

-----------------------------------------------------------------------------
(***************************************************************************)
(* Types.                                                                  *)
(***************************************************************************)
LEMMA InitType == Init => TypeOK
<1> SUFFICES ASSUME Init PROVE TypeOK
  OBVIOUS
<1>1. account \in AccountState
  BY AccountsAssumption DEF Init, AccountState, Passwords
<1>2. sessions \subseteq Sessions
  BY DEF Init, FirstSession, Opened, Sessions, Passwords
<1>3. chats \in [Chats -> ChatState] /\ tasks \in [Tasks -> TaskState]
  BY DEF Init, ChatState, TaskState, Passwords
<1>4. restarts \in 0..MaxRestarts /\ granted \in Nat
  BY AccountsAssumption DEF Init
<1> QED BY <1>1, <1>2, <1>3, <1>4 DEF Init, TypeOK, ChatState, TaskState, AccountState

LEMMA TypeParts ==
    TypeOK <=> /\ account \in AccountState
               /\ sessions \subseteq Sessions
               /\ chats \in [Chats -> ChatState]
               /\ tasks \in [Tasks -> TaskState]
               /\ used \in BOOLEAN /\ spent \subseteq Tasks
               /\ restarts \in 0..MaxRestarts /\ granted \in Nat
               /\ lost \subseteq Chats /\ late \subseteq Tasks
BY DEF TypeOK, ChatState, TaskState, AccountState

\* Moving a request or a task on keeps its type.
LEMMA Moved ==
    ASSUME TypeOK
    PROVE  /\ \A c \in Chats, place \in {"admitted", "running", "answered", "failed", "paid", "over"} :
                ChatAt(c, place) \in [Chats -> ChatState]
           /\ \A t \in Tasks, place \in {"login", "change", "confirmed", "changed", "approved", "marked", "over"} :
                TaskAt(t, place) \in [Tasks -> TaskState]
<1>1. \A s \in ChatState, place \in {"admitted", "running", "answered", "failed", "paid", "over"} :
        [s EXCEPT !.at = place] \in ChatState
  BY DEF ChatState
<1>2. \A s \in TaskState, place \in {"login", "change", "confirmed", "changed", "approved", "marked", "over"} :
        [s EXCEPT !.at = place] \in TaskState
  BY DEF TaskState
<1> QED BY <1>1, <1>2, TypeParts DEF ChatAt, TaskAt

\* Passwords and sessions that a task writes.
LEMMA NewSession ==
    ASSUME TypeOK, NEW t \in Tasks
    PROVE  /\ Opened(t, 1, tasks[t].shown) \in Sessions
           /\ Opened(t, 2, t) \in Sessions
BY DEF TypeOK, Opened, Sessions, Passwords

LEMMA NewAccount ==
    ASSUME account \in AccountState
    PROVE  /\ \A n \in Nat : [account EXCEPT !.credits = @ + n] \in AccountState
           /\ account.credits > 0 => [account EXCEPT !.credits = @ - 1] \in AccountState
           /\ \A t \in Tasks : [account EXCEPT !.password = t] \in AccountState
           /\ \A s \in {"active", "disabled"} : [account EXCEPT !.status = s] \in AccountState
           /\ [account EXCEPT !.role = "user"] \in AccountState
BY DEF AccountState, Passwords

LEMMA ChatType ==
    ASSUME TypeOK, NEW c \in Chats,
           Authenticate(c) \/ Reserve(c) \/ TurnAway(c) \/ Commit(c) \/ Raise(c) \/ Close(c) \/ CloseFails(c)
    PROVE  TypeOK'
<1>1. account \in AccountState /\ chats \in [Chats -> ChatState]
  BY TypeParts
<1>2. CASE Authenticate(c)
  BY <1>2, Moved DEF Authenticate, TypeOK, ChatState
<1>3. CASE Reserve(c)
  <2>1. [at |-> "running", charged |-> TRUE] \in ChatState
    BY DEF ChatState
  <2>2. chats' \in [Chats -> ChatState]
    BY <1>1, <1>3, <2>1, Moved DEF Reserve
  <2>3. account' \in AccountState
    BY <1>1, <1>3, NewAccount DEF Reserve, Chargeable
  <2>4. UNCHANGED <<sessions, tasks, used, spent, restarts, granted, lost, late>>
    BY <1>3 DEF Reserve
  <2> QED BY <2>2, <2>3, <2>4 DEF TypeOK, ChatState, AccountState
<1>4. CASE TurnAway(c) \/ Commit(c) \/ Raise(c)
  BY <1>4, Moved DEF TurnAway, Commit, Raise, TypeOK, ChatState
<1>5. CASE Close(c)
  <2>1. account' \in AccountState
    BY <1>1, <1>5, NewAccount DEF Close
  <2>2. chats' \in [Chats -> ChatState]
    BY <1>5, Moved DEF Close
  <2> QED BY <1>5, <2>1, <2>2 DEF Close, TypeOK, ChatState, AccountState
<1>6. CASE CloseFails(c)
  BY <1>6, Moved DEF CloseFails, TypeOK, ChatState
<1> QED BY <1>2, <1>3, <1>4, <1>5, <1>6

LEMMA SetPasswordType ==
    ASSUME TypeOK, NEW t \in Tasks, SetPassword(t), UNCHANGED <<used, spent>>,
           tasks' \in [Tasks -> TaskState]
    PROVE  TypeOK'
<1>1. account' \in AccountState
  BY TypeParts, NewAccount DEF SetPassword
<1>2. sessions' \subseteq Sessions /\ late' \subseteq Tasks
  BY DEF SetPassword, SessionsAfterChange, TypeOK
<1> QED BY <1>1, <1>2 DEF SetPassword, TypeOK, TaskState, AccountState

LEMMA TaskType ==
    ASSUME TypeOK, NEW t \in Tasks,
           \/ Login(t) \/ ChangePassword(t) \/ OpenSession(t) \/ RefusePassword(t)
           \/ ReplacePassword(t) \/ RotateSession(t)
           \/ CheckApproval(t) \/ MarkApproval(t) \/ ResetPassword(t)
    PROVE  TypeOK'
<1>1. CASE Login(t) \/ ChangePassword(t)
  <2>1. PICK next \in {"login", "change"} : Verify(t, next)
    BY <1>1 DEF Login, ChangePassword
  <2>2. [at |-> next, shown |-> account.password] \in TaskState
    BY DEF TypeOK, TaskState
  <2>3. tasks' \in [Tasks -> TaskState]
    BY <2>1, <2>2, Moved, TypeParts DEF Verify
  <2> QED BY <2>1, <2>3 DEF Verify, TypeOK, TaskState
<1>2. CASE OpenSession(t)
  BY <1>2, Moved, NewSession DEF OpenSession, TypeOK, TaskState
<1>3. CASE RefusePassword(t) \/ CheckApproval(t) \/ MarkApproval(t)
  <2>1. tasks' \in [Tasks -> TaskState]
    BY <1>3, Moved DEF RefusePassword, CheckApproval, MarkApproval
  <2>2. used' \in BOOLEAN /\ spent' \subseteq Tasks
    BY <1>3 DEF RefusePassword, CheckApproval, MarkApproval, TypeOK
  <2> QED BY <1>3, <2>1, <2>2 DEF RefusePassword, CheckApproval, MarkApproval, TypeOK, TaskState
<1>4. CASE ReplacePassword(t)
  BY <1>4, Moved, SetPasswordType DEF ReplacePassword
<1>5. CASE RotateSession(t)
  BY <1>5, Moved, NewSession DEF RotateSession, TypeOK, TaskState
<1>6. CASE ResetPassword(t)
  <2>1. tasks' \in [Tasks -> TaskState]
    BY <1>6, Moved DEF ResetPassword
  <2>2. CASE SetPassword(t) /\ UNCHANGED <<used, spent>>
    BY <2>1, <2>2, SetPasswordType
  <2>3. CASE UNCHANGED <<account, sessions, chats, used, spent, restarts, granted, lost, late>>
    BY <2>1, <2>3 DEF TypeOK, TaskState
  <2> QED BY <1>6, <2>2, <2>3 DEF ResetPassword
<1> QED BY <1>1, <1>2, <1>3, <1>4, <1>5, <1>6

LEMMA AdministrationType ==
    ASSUME TypeOK,
           \/ \E s \in sessions : EndSession(s)
           \/ \E n \in TopUps : AddCredits(n)
           \/ \E status \in {"active", "disabled"} : SetStatus(status)
           \/ Demote \/ Restart \/ Ended
    PROVE  TypeOK'
<1>1. ASSUME NEW s \in sessions, EndSession(s) PROVE TypeOK'
  BY <1>1 DEF EndSession, TypeOK
<1>2. ASSUME NEW n \in TopUps, AddCredits(n) PROVE TypeOK'
  <2>1. n \in Nat
    BY AccountsAssumption
  <2>2. account' \in AccountState /\ granted' \in Nat
    BY <1>2, <2>1, NewAccount, TypeParts DEF AddCredits
  <2> QED BY <1>2, <2>2 DEF AddCredits, TypeOK, AccountState
<1>3. ASSUME NEW status \in {"active", "disabled"}, SetStatus(status) PROVE TypeOK'
  <2>1. account' \in AccountState
    BY <1>3, NewAccount, TypeParts DEF SetStatus
  <2> QED BY <1>3, <2>1 DEF SetStatus, TypeOK, AccountState
<1>4. CASE Demote
  <2>1. account' \in AccountState
    BY <1>4, NewAccount, TypeParts DEF Demote
  <2> QED BY <1>4, <2>1 DEF Demote, TypeOK, AccountState
<1>5. CASE Restart
  <2>1. \A c \in Chats : chats[c] \in ChatState /\ [chats[c] EXCEPT !.at = "paid"] \in ChatState
                         /\ [chats[c] EXCEPT !.at = "over"] \in ChatState
    BY DEF TypeOK, ChatState
  <2>2. chats' \in [Chats -> ChatState]
    BY <1>5, <2>1 DEF Restart
  <2>3. \A t \in Tasks : tasks[t] \in TaskState /\ [tasks[t] EXCEPT !.at = "over"] \in TaskState
    BY DEF TypeOK, TaskState
  <2>4. tasks' \in [Tasks -> TaskState]
    BY <1>5, <2>3 DEF Restart
  <2>5. restarts' \in 0..MaxRestarts
    BY <1>5, AccountsAssumption DEF Restart, TypeOK
  <2> QED BY <1>5, <2>2, <2>4, <2>5 DEF Restart, TypeOK, ChatState, TaskState
<1>6. CASE Ended
  BY <1>6 DEF Ended, vars, TypeOK
<1> QED BY <1>1, <1>2, <1>3, <1>4, <1>5, <1>6

LEMMA NextType == TypeOK /\ [Next]_vars => TypeOK'
<1> SUFFICES ASSUME TypeOK, [Next]_vars PROVE TypeOK'
  OBVIOUS
<1>1. CASE UNCHANGED vars
  BY <1>1 DEF vars, TypeOK
<1> QED BY <1>1, ChatType, TaskType, AdministrationType DEF Next

\* Accounts, sessions, requests and tasks are what they should be; the balance
\* is never negative.
THEOREM TypeCorrect == Spec => []TypeOK
BY InitType, NextType, PTL DEF Spec

-----------------------------------------------------------------------------
(***************************************************************************)
(* Sessions and passwords.                                                 *)
(***************************************************************************)
\* What a task is about to open a session with is the password of now, unless
\* that was replaced behind its back.
Shows(t) ==
    /\ tasks[t].at \in {"login", "change"} => tasks[t].shown = account.password \/ t \in late
    /\ tasks[t].at = "changed" => account.password = t \/ t \in late

PasswordInv ==
    /\ \A t \in Tasks : Shows(t)
    /\ SessionsFollowPassword

LEMMA InitPassword == Init => PasswordInv
BY DEF Init, PasswordInv, Shows, SessionsFollowPassword, FirstSession, Opened

\* A new password: what is still under way counts as late.
LEMMA SetPasswordKeeps ==
    ASSUME TypeOK, PasswordInv, NEW t \in Tasks, SetPassword(t),
           NEW place \in {"changed", "over"}, tasks' = TaskAt(t, place)
    PROVE  PasswordInv'
<1>1. sessions' = {} /\ account'.password = t
  BY DEF SetPassword, SessionsAfterChange, TypeOK
<1>2. \A x \in Tasks : tasks'[x].at = (IF x = t THEN place ELSE tasks[x].at)
  BY DEF TaskAt, TypeOK
<1>3. \A x \in Tasks \ {t} : tasks[x].at \in {"login", "change", "changed"} => x \in late'
  BY DEF SetPassword
<1>4. \A x \in Tasks : Shows(x)'
  BY <1>1, <1>2, <1>3 DEF Shows
<1> QED BY <1>1, <1>4 DEF PasswordInv, SessionsFollowPassword

LEMMA TaskPassword ==
    ASSUME TypeOK, PasswordInv, NEW t \in Tasks,
           \/ Login(t) \/ ChangePassword(t) \/ OpenSession(t) \/ RefusePassword(t)
           \/ ReplacePassword(t) \/ RotateSession(t)
           \/ CheckApproval(t) \/ MarkApproval(t) \/ ResetPassword(t)
    PROVE  PasswordInv'
<1>1. CASE Login(t) \/ ChangePassword(t)
  <2>1. PICK next \in {"login", "change"} : Verify(t, next)
    BY <1>1 DEF Login, ChangePassword
  <2>2. \A x \in Tasks : Shows(x)'
    BY <2>1 DEF Verify, TaskAt, Shows, TypeOK, PasswordInv
  <2> QED BY <2>1, <2>2 DEF Verify, PasswordInv, SessionsFollowPassword
<1>2. CASE OpenSession(t)
  <2>1. \A x \in Tasks : Shows(x)'
    BY <1>2 DEF OpenSession, TaskAt, Shows, TypeOK, PasswordInv
  <2>2. \A s \in sessions' : s.password = account.password \/ s.by \in late
    BY <1>2 DEF OpenSession, Opened, Shows, PasswordInv, SessionsFollowPassword
  <2> QED BY <1>2, <2>1, <2>2 DEF OpenSession, PasswordInv, SessionsFollowPassword
<1>3. CASE RefusePassword(t) \/ CheckApproval(t) \/ MarkApproval(t)
  <2>1. PICK place \in {"over", "approved", "marked"} : tasks' = TaskAt(t, place)
    BY <1>3 DEF RefusePassword, CheckApproval, MarkApproval
  <2>2. UNCHANGED <<account, sessions, late>>
    BY <1>3 DEF RefusePassword, CheckApproval, MarkApproval
  <2>3. \A x \in Tasks : Shows(x)'
    BY <2>1, <2>2 DEF TaskAt, Shows, TypeOK, PasswordInv
  <2> QED BY <2>2, <2>3 DEF PasswordInv, SessionsFollowPassword
<1>4. CASE ReplacePassword(t)
  BY <1>4, SetPasswordKeeps DEF ReplacePassword
<1>5. CASE RotateSession(t)
  <2>1. \A x \in Tasks : Shows(x)'
    BY <1>5 DEF RotateSession, TaskAt, Shows, TypeOK, PasswordInv
  <2>2. \A s \in sessions' : s.password = account.password \/ s.by \in late
    BY <1>5 DEF RotateSession, Opened, Shows, PasswordInv, SessionsFollowPassword
  <2> QED BY <1>5, <2>1, <2>2 DEF RotateSession, PasswordInv, SessionsFollowPassword
<1>6. CASE ResetPassword(t)
  <2>1. CASE SetPassword(t)
    BY <1>6, <2>1, SetPasswordKeeps DEF ResetPassword
  <2>2. CASE UNCHANGED <<account, sessions, late>>
    <3>1. \A x \in Tasks : Shows(x)'
      BY <1>6, <2>2 DEF ResetPassword, TaskAt, Shows, TypeOK, PasswordInv
    <3> QED BY <2>2, <3>1 DEF PasswordInv, SessionsFollowPassword
  <2> QED BY <1>6, <2>1, <2>2 DEF ResetPassword
<1> QED BY <1>1, <1>2, <1>3, <1>4, <1>5, <1>6

LEMMA NextPassword == TypeOK /\ PasswordInv /\ [Next]_vars => PasswordInv'
<1> SUFFICES ASSUME TypeOK, PasswordInv, [Next]_vars PROVE PasswordInv'
  OBVIOUS
<1>1. CASE UNCHANGED <<account, sessions, tasks, late>>
  BY <1>1 DEF PasswordInv, Shows, SessionsFollowPassword
<1>3. ASSUME account'.password = account.password, UNCHANGED <<sessions, tasks, late>>
      PROVE  PasswordInv'
  BY <1>3 DEF PasswordInv, Shows, SessionsFollowPassword
<1>4. ASSUME NEW c \in Chats,
             Authenticate(c) \/ Reserve(c) \/ TurnAway(c) \/ Commit(c) \/ Raise(c) \/ Close(c) \/ CloseFails(c)
      PROVE  PasswordInv'
  <2>1. account'.password = account.password
    BY <1>4 DEF Authenticate, Reserve, TurnAway, Commit, Raise, Close, CloseFails, TypeOK
  <2>2. UNCHANGED <<sessions, tasks, late>>
    BY <1>4 DEF Authenticate, Reserve, TurnAway, Commit, Raise, Close, CloseFails
  <2> QED BY <1>3, <2>1, <2>2
<1>5. ASSUME NEW s \in sessions, EndSession(s) PROVE PasswordInv'
  BY <1>5 DEF EndSession, PasswordInv, Shows, SessionsFollowPassword
<1>6. ASSUME \/ \E n \in TopUps : AddCredits(n)
             \/ \E status \in {"active", "disabled"} : SetStatus(status)
             \/ Demote
      PROVE  PasswordInv'
  BY <1>3, <1>6 DEF AddCredits, SetStatus, Demote, TypeOK
<1>7. CASE Restart
  <2>1. \A t \in Tasks : tasks'[t].at \in {"new", "over"}
    BY <1>7 DEF Restart, TypeOK
  <2> QED BY <1>7, <2>1 DEF Restart, PasswordInv, Shows, SessionsFollowPassword
<1>8. CASE Ended
  BY <1>1, <1>8 DEF Ended, vars
<1>9. CASE UNCHANGED vars
  BY <1>1, <1>9 DEF vars
<1> QED BY <1>4, <1>5, <1>6, <1>7, <1>8, <1>9, TaskPassword DEF Next

\* Replacing a password closes what the old one had opened: every session there
\* is showed the password of now, but for logins and changes under way meanwhile.
THEOREM SessionsFollow == Spec => []SessionsFollowPassword
<1>1. PasswordInv => SessionsFollowPassword
  BY DEF PasswordInv
<1> QED BY <1>1, InitType, NextType, InitPassword, NextPassword, PTL DEF Spec

-----------------------------------------------------------------------------
(***************************************************************************)
(* The approval token.                                                     *)
(***************************************************************************)
ApprovalInv == spent # {} => used

LEMMA InitApproval == Init => ApprovalInv
BY DEF Init, ApprovalInv

LEMMA NextApproval == ApprovalInv /\ [Next]_vars => ApprovalInv'
<1> SUFFICES ASSUME ApprovalInv, [Next]_vars PROVE ApprovalInv'
  OBVIOUS
<1>1. CASE UNCHANGED <<used, spent>>
  BY <1>1 DEF ApprovalInv
<1>2. CASE used' = TRUE \/ spent' = {}
  BY <1>2 DEF ApprovalInv
<1>3. ASSUME NEW c \in Chats,
             Authenticate(c) \/ Reserve(c) \/ TurnAway(c) \/ Commit(c) \/ Raise(c) \/ Close(c) \/ CloseFails(c)
      PROVE  ApprovalInv'
  BY <1>1, <1>3 DEF Authenticate, Reserve, TurnAway, Commit, Raise, Close, CloseFails
<1>4. ASSUME NEW t \in Tasks,
             \/ Login(t) \/ ChangePassword(t) \/ OpenSession(t) \/ RefusePassword(t)
             \/ ReplacePassword(t) \/ RotateSession(t) \/ CheckApproval(t) \/ ResetPassword(t)
      PROVE  ApprovalInv'
  BY <1>1, <1>4 DEF Login, ChangePassword, Verify, OpenSession, RefusePassword, ReplacePassword,
     RotateSession, CheckApproval, ResetPassword
<1>5. ASSUME NEW t \in Tasks, MarkApproval(t) PROVE ApprovalInv'
  BY <1>2, <1>5 DEF MarkApproval
<1>6. ASSUME \/ \E s \in sessions : EndSession(s)
             \/ \E n \in TopUps : AddCredits(n)
             \/ \E status \in {"active", "disabled"} : SetStatus(status)
             \/ Demote \/ Ended \/ UNCHANGED vars
      PROVE  ApprovalInv'
  BY <1>1, <1>6 DEF EndSession, AddCredits, SetStatus, Demote, Ended, vars
<1>7. CASE Restart
  BY <1>2, <1>7 DEF Restart
<1> QED BY <1>3, <1>4, <1>5, <1>6, <1>7 DEF Next

\* A reset is refused when the process has accepted its approval token before.
THEOREM ApprovalIsSingleUse == Spec => ApprovalNotReused
<1> DEFINE Single == \A t \in Tasks : tasks[t].at = "new" /\ tasks'[t].at = "approved" => spent = {}
<1>1. TypeOK /\ ApprovalInv /\ [Next]_vars => [Single]_vars
  <2> SUFFICES ASSUME TypeOK, ApprovalInv, Next, NEW t \in Tasks,
                      tasks[t].at = "new", tasks'[t].at = "approved"
               PROVE  spent = {}
    OBVIOUS
  <2>1. ASSUME NEW x \in Tasks, CheckApproval(x) PROVE spent = {}
    BY <2>1 DEF CheckApproval, TaskAt, TypeOK, ApprovalInv
  <2>2. ASSUME NEW x \in Tasks,
               \/ Login(x) \/ ChangePassword(x) \/ OpenSession(x) \/ RefusePassword(x)
               \/ ReplacePassword(x) \/ RotateSession(x) \/ MarkApproval(x) \/ ResetPassword(x)
        PROVE  tasks'[t].at # "approved"
    BY <2>2 DEF Login, ChangePassword, Verify, OpenSession, RefusePassword, ReplacePassword,
       RotateSession, MarkApproval, ResetPassword, TaskAt, TypeOK
  <2>3. ASSUME NEW c \in Chats,
               Authenticate(c) \/ Reserve(c) \/ TurnAway(c) \/ Commit(c) \/ Raise(c) \/ Close(c) \/ CloseFails(c)
        PROVE  UNCHANGED tasks
    BY <2>3 DEF Authenticate, Reserve, TurnAway, Commit, Raise, Close, CloseFails
  <2>4. ASSUME \/ \E s \in sessions : EndSession(s)
               \/ \E n \in TopUps : AddCredits(n)
               \/ \E status \in {"active", "disabled"} : SetStatus(status)
               \/ Demote \/ Ended
        PROVE  UNCHANGED tasks
    BY <2>4 DEF EndSession, AddCredits, SetStatus, Demote, Ended, vars
  <2>5. CASE Restart
    BY <2>5 DEF Restart
  <2> QED BY <2>1, <2>2, <2>3, <2>4, <2>5 DEF Next
<1> QED BY <1>1, InitType, NextType, InitApproval, NextApproval, PTL DEF Spec, ApprovalNotReused

-----------------------------------------------------------------------------
(***************************************************************************)
(* Credits.                                                                *)
(***************************************************************************)
\* Only a user is charged, and only once the request runs; a request whose
\* credit is lost is over.
Charges ==
    /\ \A c \in Chats : chats[c].charged => account.role # "admin" /\ chats[c].at \notin {"new", "admitted"}
    /\ \A c \in lost : chats[c].at = "over"

CreditInv == Charges /\ CreditsBalance

\* The sets that CreditsBalance counts.
LEMMA Counted ==
    ASSUME TypeOK
    PROVE  /\ IsFiniteSet(Paying) /\ Cardinality(Paying) \in Nat
           /\ IsFiniteSet(Holding) /\ Cardinality(Holding) \in Nat
           /\ IsFiniteSet(lost) /\ Cardinality(lost) \in Nat
           /\ granted \in Nat /\ account.credits \in Nat
<1>1. Paying \in SUBSET Chats /\ Holding \in SUBSET Chats /\ lost \in SUBSET Chats
  BY DEF TypeOK, Paying, Holding
<1>2. IsFiniteSet(Paying) /\ IsFiniteSet(Holding) /\ IsFiniteSet(lost)
  BY <1>1, AccountsAssumption, FS_Subset
<1> QED BY <1>2, FS_CardinalityType DEF TypeOK

LEMMA InitCredits == Init => CreditInv
<1> SUFFICES ASSUME Init PROVE CreditInv
  OBVIOUS
<1>1. Paying = {} /\ Holding = {} /\ lost = {}
  BY DEF Init, Paying, Holding
<1>2. account.credits = DefaultCredits /\ granted = DefaultCredits
  BY DEF Init
<1>3. CreditsBalance
  BY <1>1, <1>2, FS_EmptySet, AccountsAssumption DEF CreditsBalance
<1> QED BY <1>3 DEF Init, CreditInv, Charges

\* Nothing changes hands.
LEMMA SameCredits ==
    ASSUME TypeOK, CreditInv, Charges', UNCHANGED <<granted, lost>>,
           account'.credits = account.credits, Paying' = Paying, Holding' = Holding
    PROVE  CreditInv'
BY DEF CreditInv, CreditsBalance

\* Moving one request on.
LEMMA MovedChat ==
    ASSUME TypeOK, NEW c \in Chats, NEW place, NEW charged,
           chats' = [chats EXCEPT ![c] = [at |-> place, charged |-> charged]]
    PROVE  /\ charged = TRUE /\ place \in {"answered", "paid"} => Paying' = Paying \cup {c}
           /\ charged = TRUE /\ place \in {"running", "failed"} => Holding' = Holding \cup {c}
           /\ charged = FALSE \/ place \notin {"answered", "paid"} => Paying' = Paying \ {c}
           /\ charged = FALSE \/ place \notin {"running", "failed"} => Holding' = Holding \ {c}
           /\ \A x \in Chats : chats'[x] = IF x = c THEN [at |-> place, charged |-> charged] ELSE chats[x]
<1>1. \A x \in Chats : chats'[x] = IF x = c THEN [at |-> place, charged |-> charged] ELSE chats[x]
  BY DEF TypeOK
<1> QED BY <1>1 DEF Paying, Holding

LEMMA ChatAtMoves ==
    ASSUME TypeOK, NEW c \in Chats, NEW place
    PROVE  ChatAt(c, place) = [chats EXCEPT ![c] = [at |-> place, charged |-> chats[c].charged]]
<1>1. chats[c] \in [at : {"new", "admitted", "running", "answered", "failed", "paid", "over"}, charged : BOOLEAN]
  BY DEF TypeOK
<1>2. [chats[c] EXCEPT !.at = place] = [at |-> place, charged |-> chats[c].charged]
  BY <1>1
<1> QED BY <1>2 DEF ChatAt

LEMMA ChatCredits ==
    ASSUME TypeOK, CreditInv, NEW c \in Chats,
           Authenticate(c) \/ Reserve(c) \/ TurnAway(c) \/ Commit(c) \/ Raise(c) \/ Close(c) \/ CloseFails(c)
    PROVE  CreditInv'
<1> USE Counted
<1>1. ASSUME NEW place \in {"admitted", "running", "over"}, ~chats[c].charged,
             chats' = ChatAt(c, place), UNCHANGED <<account, granted, lost>>,
             place = "over" \/ chats[c].at \in {"new", "admitted"}
      PROVE  CreditInv'
  <2>1. chats' = [chats EXCEPT ![c] = [at |-> place, charged |-> FALSE]]
    BY <1>1, ChatAtMoves DEF TypeOK
  <2>2. c \notin Paying /\ c \notin Holding
    BY <1>1 DEF Paying, Holding
  <2>5. Paying' = Paying \ {c} /\ Holding' = Holding \ {c}
    BY <2>1, MovedChat
  <2>3. Paying' = Paying /\ Holding' = Holding
    BY <2>2, <2>5
  <2>4. Charges'
    BY <1>1, <2>1, MovedChat DEF CreditInv, Charges, TypeOK
  <2> QED BY <1>1, <2>3, <2>4, SameCredits
<1>2. CASE Authenticate(c) \/ TurnAway(c)
  BY <1>1, <1>2 DEF Authenticate, TurnAway, CreditInv, Charges
<1>3. CASE Reserve(c)
  <2>1. chats[c].at = "admitted" /\ ~chats[c].charged /\ UNCHANGED <<granted, lost>>
    BY <1>3 DEF Reserve, CreditInv, Charges
  <2>2. CASE /\ Chargeable /\ account' = [account EXCEPT !.credits = @ - 1]
             /\ chats' = [chats EXCEPT ![c] = [at |-> "running", charged |-> TRUE]]
    <3>1. c \notin Paying /\ c \notin Holding /\ c \notin lost
      BY <2>1 DEF Paying, Holding, CreditInv, Charges
    <3>7. Paying' = Paying \ {c} /\ Holding' = Holding \cup {c}
      BY <2>2, MovedChat
    <3>2. Paying' = Paying /\ Holding' = Holding \cup {c}
      BY <3>1, <3>7
    <3>3. Cardinality(Holding') = Cardinality(Holding) + 1
      BY <3>1, <3>2, FS_AddElement
    <3>4. account'.credits = account.credits - 1 /\ account'.role = account.role
      BY <2>2 DEF TypeOK
    <3>5. CreditsBalance'
      BY <2>1, <3>2, <3>3, <3>4 DEF CreditInv, CreditsBalance
    <3>6. Charges'
      BY <2>1, <2>2, <3>1, <3>4, MovedChat DEF CreditInv, Charges, Chargeable, TypeOK
    <3> QED BY <3>5, <3>6 DEF CreditInv
  <2>3. CASE chats' = ChatAt(c, "running") /\ UNCHANGED account
    BY <1>1, <2>1, <2>3
  <2>4. CASE chats' = ChatAt(c, "over") /\ UNCHANGED account
    BY <1>1, <2>1, <2>4
  <2> QED BY <1>3, <2>2, <2>3, <2>4 DEF Reserve
<1>4. CASE Commit(c)
  <2>1. /\ chats[c].at = "running" /\ UNCHANGED <<account, granted, lost>>
        /\ chats' = [chats EXCEPT ![c] = [at |-> "answered", charged |-> chats[c].charged]]
    BY <1>4, ChatAtMoves DEF Commit
  <2>2. Charges'
    BY <2>1, MovedChat DEF CreditInv, Charges, TypeOK
  <2>3. CASE ~chats[c].charged
    <3>1. Paying' = Paying /\ Holding' = Holding
      BY <2>1, <2>3, MovedChat DEF Paying, Holding
    <3> QED BY <2>1, <2>2, <3>1, SameCredits
  <2>4. CASE chats[c].charged
    <3>1. c \notin Paying /\ c \in Holding
      BY <2>1, <2>4 DEF Paying, Holding
    <3>2. Paying' = Paying \cup {c} /\ Holding' = Holding \ {c}
      BY <2>1, <2>4, MovedChat
    <3>3. /\ Cardinality(Paying') = Cardinality(Paying) + 1
          /\ Cardinality(Holding') = Cardinality(Holding) - 1
      BY <3>1, <3>2, FS_AddElement, FS_RemoveElement
    <3>4. CreditsBalance'
      BY <2>1, <3>3 DEF CreditInv, CreditsBalance
    <3> QED BY <2>2, <3>4 DEF CreditInv
  <2> QED BY <2>3, <2>4 DEF TypeOK
<1>5. CASE Raise(c)
  <2>1. /\ chats[c].at = "running" /\ UNCHANGED <<account, granted, lost>>
        /\ chats' = [chats EXCEPT ![c] = [at |-> "failed", charged |-> chats[c].charged]]
    BY <1>5, ChatAtMoves DEF Raise
  <2>2. Paying' = Paying /\ Holding' = Holding
    BY <2>1, MovedChat DEF Paying, Holding
  <2>3. Charges'
    BY <2>1, MovedChat DEF CreditInv, Charges, TypeOK
  <2> QED BY <2>1, <2>2, <2>3, SameCredits
<1>6. CASE Close(c)
  <2> DEFINE place == IF chats[c].at = "answered" THEN "paid" ELSE "over"
  <2>1. /\ chats[c].at \in {"answered", "failed"} /\ UNCHANGED <<granted, lost>>
        /\ chats' = [chats EXCEPT ![c] = [at |-> place, charged |-> chats[c].charged]]
    BY <1>6, ChatAtMoves DEF Close
  <2>2. CASE Settled(c)
    <3>1. UNCHANGED account
      BY <1>6, <2>2 DEF Close
    <3>2. Paying' = Paying /\ Holding' = Holding
      BY <2>1, <2>2, MovedChat DEF Paying, Holding, Settled
    <3>3. Charges'
      BY <2>1, <3>1, MovedChat DEF CreditInv, Charges, TypeOK
    <3> QED BY <2>1, <3>1, <3>2, <3>3, SameCredits
  <2>3. CASE ~Settled(c)
    <3>1. chats[c].at = "failed" /\ chats[c].charged /\ account.role # "admin" /\ place = "over"
      BY <2>1, <2>3 DEF Settled, CreditInv, Charges
    <3>2. account' = [account EXCEPT !.credits = @ + 1]
      BY <1>6, <2>3, <3>1 DEF Close
    <3>3. account'.credits = account.credits + 1 /\ account'.role = account.role
      BY <3>2 DEF TypeOK
    <3>4. c \notin Paying /\ c \in Holding
      BY <3>1 DEF Paying, Holding
    <3>9. Paying' = Paying \ {c} /\ Holding' = Holding \ {c}
      BY <2>1, <3>1, MovedChat
    <3>5. Paying' = Paying /\ Holding' = Holding \ {c}
      BY <3>4, <3>9
    <3>6. Cardinality(Holding') = Cardinality(Holding) - 1
      BY <3>4, <3>5, FS_RemoveElement
    <3>7. CreditsBalance'
      BY <2>1, <3>3, <3>5, <3>6 DEF CreditInv, CreditsBalance
    <3>8. Charges'
      BY <2>1, <3>1, <3>3, MovedChat DEF CreditInv, Charges, TypeOK
    <3> QED BY <3>7, <3>8 DEF CreditInv
  <2> QED BY <2>2, <2>3
<1>7. CASE CloseFails(c)
  <2>1. /\ chats[c].at = "failed" /\ chats[c].charged
        /\ UNCHANGED <<account, granted>> /\ lost' = lost \cup {c}
        /\ chats' = [chats EXCEPT ![c] = [at |-> "over", charged |-> chats[c].charged]]
    BY <1>7, ChatAtMoves DEF CloseFails, Settled
  <2>2. c \notin Paying /\ c \in Holding /\ c \notin lost
    BY <2>1 DEF Paying, Holding, CreditInv, Charges
  <2>7. Paying' = Paying \ {c} /\ Holding' = Holding \ {c}
    BY <2>1, MovedChat
  <2>3. Paying' = Paying /\ Holding' = Holding \ {c}
    BY <2>2, <2>7
  <2>4. /\ Cardinality(lost') = Cardinality(lost) + 1
        /\ Cardinality(Holding') = Cardinality(Holding) - 1
    BY <2>1, <2>2, <2>3, FS_AddElement, FS_RemoveElement
  <2>5. CreditsBalance'
    BY <2>1, <2>3, <2>4 DEF CreditInv, CreditsBalance
  <2>6. Charges'
    BY <2>1, MovedChat DEF CreditInv, Charges, TypeOK
  <2> QED BY <2>5, <2>6 DEF CreditInv
<1> QED BY <1>2, <1>3, <1>4, <1>5, <1>6, <1>7

LEMMA NextCredits == TypeOK /\ CreditInv /\ [Next]_vars => CreditInv'
<1> SUFFICES ASSUME TypeOK, CreditInv, [Next]_vars PROVE CreditInv'
  OBVIOUS
<1>1. CASE UNCHANGED <<account, chats, granted, lost>>
  BY <1>1 DEF CreditInv, Charges, CreditsBalance, Paying, Holding
<1>2. ASSUME account'.credits = account.credits,
             account'.role = account.role \/ account'.role # "admin", UNCHANGED <<chats, granted, lost>>
      PROVE  CreditInv'
  BY <1>2 DEF CreditInv, Charges, CreditsBalance, Paying, Holding
<1>3. ASSUME NEW t \in Tasks,
             \/ Login(t) \/ ChangePassword(t) \/ OpenSession(t) \/ RefusePassword(t)
             \/ ReplacePassword(t) \/ RotateSession(t)
             \/ CheckApproval(t) \/ MarkApproval(t) \/ ResetPassword(t)
      PROVE  CreditInv'
  <2>1. account' = account \/ account' = [account EXCEPT !.password = t]
    BY <1>3 DEF Login, ChangePassword, Verify, OpenSession, RefusePassword, ReplacePassword,
       RotateSession, CheckApproval, MarkApproval, ResetPassword, SetPassword
  <2>2. account'.credits = account.credits /\ account'.role = account.role
    BY <2>1 DEF TypeOK
  <2>3. UNCHANGED <<chats, granted, lost>>
    BY <1>3 DEF Login, ChangePassword, Verify, OpenSession, RefusePassword, ReplacePassword,
       RotateSession, CheckApproval, MarkApproval, ResetPassword, SetPassword
  <2> QED BY <1>2, <2>2, <2>3
<1>4. ASSUME NEW n \in TopUps, AddCredits(n) PROVE CreditInv'
  <2>1. n \in Nat
    BY AccountsAssumption
  <2>2. account'.credits = account.credits + n /\ account'.role = account.role
    BY <1>4 DEF AddCredits, TypeOK
  <2>3. UNCHANGED <<chats, lost>> /\ granted' = granted + n
    BY <1>4 DEF AddCredits
  <2>4. Paying' = Paying /\ Holding' = Holding
    BY <2>3 DEF Paying, Holding
  <2>5. CreditsBalance'
    BY <2>1, <2>2, <2>3, <2>4, Counted DEF CreditInv, CreditsBalance
  <2> QED BY <2>2, <2>3, <2>5 DEF CreditInv, Charges
<1>5. ASSUME NEW status \in {"active", "disabled"}, SetStatus(status) PROVE CreditInv'
  BY <1>2, <1>5 DEF SetStatus, TypeOK
<1>6. CASE Demote
  BY <1>2, <1>6 DEF Demote, TypeOK
<1>7. CASE Restart
  <2>1. UNCHANGED <<account, granted>> /\ lost' = lost \cup Holding
    BY <1>7 DEF Restart, Holding
  <2>2. \A c \in Chats :
          /\ chats[c].at = "answered" => chats'[c].at = "paid"
          /\ chats[c].at \in {"new", "paid"} => chats'[c].at = chats[c].at
          /\ chats[c].at \notin {"new", "paid", "answered"} => chats'[c].at = "over"
          /\ chats'[c].charged = chats[c].charged
    BY <1>7 DEF Restart, TypeOK
  <2>3. Paying' = Paying
    BY <2>2 DEF Paying
  <2>4. Holding' = {}
    BY <2>2 DEF Holding, TypeOK
  <2>5. lost \cap Holding = {}
    BY DEF CreditInv, Charges, Holding
  <2>6. Cardinality(lost \cup Holding) = Cardinality(lost) + Cardinality(Holding)
    <3>1. Cardinality(lost \cup Holding)
            = Cardinality(lost) + Cardinality(Holding) - Cardinality(lost \cap Holding)
      BY Counted, FS_Union
    <3>2. Cardinality(lost \cap Holding) = 0
      BY <2>5, FS_EmptySet
    <3> QED BY <3>1, <3>2, Counted
  <2>7. CreditsBalance'
    BY <2>1, <2>3, <2>4, <2>6, Counted, FS_EmptySet DEF CreditInv, CreditsBalance
  <2>8. Charges'
    BY <2>1, <2>2 DEF CreditInv, Charges, Holding, TypeOK
  <2> QED BY <2>7, <2>8 DEF CreditInv
<1>8. CASE (\E s \in sessions : EndSession(s)) \/ Ended \/ UNCHANGED vars
  BY <1>1, <1>8 DEF EndSession, Ended, vars
<1> QED BY <1>3, <1>4, <1>5, <1>6, <1>7, <1>8, ChatCredits DEF Next

\* Every credit an account was given is in its balance, or went to an answered
\* request, or is held by an open one, or was lost with a failed refund or a
\* process that died.
THEOREM CreditsAccounted == Spec => []CreditsBalance
<1>1. CreditInv => CreditsBalance
  BY DEF CreditInv
<1> QED BY <1>1, InitType, NextType, InitCredits, NextCredits, PTL DEF Spec

=============================================================================
