--------------------------- MODULE AccountsProofs ---------------------------
(***************************************************************************)
(* Theorems of Accounts, for every set of users, sessions, tokens and      *)
(* requests.                                                               *)
(***************************************************************************)
EXTENDS Accounts, FiniteSetTheorems, TLAPS

LEMMA NoRequestType == NoRequest \in Request
  BY DEF NoRequest, Request, RequestPcs, Absent, User, Roles, Statuses, Purposes

LEMMA AbsentType == Absent \in User /\ NoSession \in Session /\ NoToken \in Token
  BY DEF Absent, User, Roles, Statuses, NoSession, Session, NoToken, Token, Purposes

(* The ways in which a request's memory changes keep it one.               *)
LEMMA AnswerType ==
    ASSUME req \in [Requests -> Request], NEW c \in Requests, Answer(c)
    PROVE  req' \in [Requests -> Request]
  BY NoRequestType DEF Answer

LEMMA GotoType ==
    ASSUME req \in [Requests -> Request], NEW c \in Requests,
           NEW pc \in RequestPcs, Goto(c, pc)
    PROVE  req' \in [Requests -> Request]
  BY DEF Goto, Request

LEMMA BeginType ==
    ASSUME req \in [Requests -> Request], NEW c \in Requests,
           NEW pc \in RequestPcs, NEW u \in Users \cup {Nobody}, Begin(c, pc, u)
    PROVE  req' \in [Requests -> Request]
  BY NoRequestType DEF Begin, Request

(* Rows and requests under way name users that exist.                      *)
Named == {"issue", "create", "select", "activate", "setPassword", "count", "write",
          "revokeAll"}
OwnersKnown ==
    /\ \A s \in Sessions :
          session[s].st # "none" \/ session[s].expired => session[s].of \in Users
    /\ \A t \in Tokens : token[t].st # "none" => token[t].of \in Users
    /\ \A c \in Requests : req[c].pc \in Named => req[c].of \in Users

LEMMA AccountsInitType == Init => TypeOK
  <1> SUFFICES ASSUME Init PROVE TypeOK
    OBVIOUS
  <1>1. [Absent EXCEPT !.status = "active", !.role = "admin"] \in User
    BY AbsentType DEF User, Roles, Statuses
  <1>2. user \in [Users -> User]
    BY <1>1, AbsentType DEF Init
  <1>3. lock \in [Users -> Requests \cup {Nobody}] /\ excused \subseteq Sessions
    BY DEF Init
  <1>4. session \in [Sessions -> Session] /\ token \in [Tokens -> Token]
    BY AbsentType DEF Init
  <1>5. cache \in [Sessions -> Roles \cup {"none"}] /\ req \in [Requests -> Request]
    BY NoRequestType DEF Init
  <1> QED BY <1>2, <1>3, <1>4, <1>5 DEF TypeOK

(* A new request.                                                          *)
LEMMA ArriveType ==
    ASSUME TypeOK, NEW c \in Requests, Arrive(c)
    PROVE  TypeOK'
  <1> USE AbsentType, NoRequestType
  <1>1. CASE \E u \in Users : Register(c, u)
    <2> PICK u \in Users : Register(c, u)
      BY <1>1
    <2>1. req' \in [Requests -> Request]
      BY BeginType DEF TypeOK, Register, RequestPcs
    <2> QED BY <2>1 DEF TypeOK, Register, NoSessionChange, User, Statuses
  <1>2. CASE \E u \in Users : \E purpose \in Purposes : AskToken(c, u, purpose)
    <2> PICK u \in Users, purpose \in Purposes : AskToken(c, u, purpose)
      BY <1>2
    <2> QED BY DEF TypeOK, AskToken, NoSessionChange, Request, RequestPcs
  <1>3. CASE \E u \in Users : LoginRead(c, u)
    <2> PICK u \in Users : LoginRead(c, u)
      BY <1>3
    <2> QED BY DEF TypeOK, LoginRead, NoSessionChange, Request, RequestPcs
  <1>4. CASE \E t \in Tokens : ConsumeAuthToken(c, t)
    <2> PICK t \in Tokens : ConsumeAuthToken(c, t)
      BY <1>4
    <2>1. req' \in [Requests -> Request]
      BY BeginType DEF TypeOK, ConsumeAuthToken, RequestPcs, Token
    <2> QED BY <2>1 DEF TypeOK, ConsumeAuthToken, NoSessionChange, Token
  <1>5. CASE \E s \in Sessions : Present(c, s)
    <2> PICK s \in Sessions : Present(c, s)
      BY <1>5
    <2>1. CASE cache[s] = "none"
      <3>1. session[s].of \in Users \cup {Nobody}
        BY DEF TypeOK, Session
      <3>2. [NoRequest EXCEPT !.pc = "select", !.by = "student", !.s = {s},
                              !.of = session[s].of] \in Request
        BY <3>1 DEF Request, RequestPcs, Roles
      <3> QED BY <2>1, <3>2 DEF TypeOK, Present, NoSessionChange
    <2>2. CASE cache[s] # "none"
      <3>1. cache[s] \in Roles
        BY <2>2 DEF TypeOK
      <3> QED BY <2>2, <3>1
           DEF TypeOK, Present, NoSessionChange, Request, RequestPcs, Session
    <2> QED BY <2>1, <2>2
  <1> QED BY <1>1, <1>2, <1>3, <1>4, <1>5, AccountsAssumption DEF Arrive

(* What RevokeSession and RevokeAllSessions write.                         *)
LEMMA RevokeRowsType ==
    ASSUME TypeOK, NEW c \in Requests, NEW ss \in SUBSET Sessions, RevokeRows(c, ss)
    PROVE  TypeOK'
  <1>1. req' \in [Requests -> Request]
    <2>1. CASE ss = {}
      BY <2>1, AnswerType DEF TypeOK, RevokeRows
    <2>2. CASE ss # {}
      <3>1. [NoRequest EXCEPT !.pc = "del", !.keys = ss] \in Request
        BY NoRequestType DEF Request, RequestPcs
      <3> QED BY <2>2, <3>1 DEF TypeOK, RevokeRows
    <2> QED BY <2>1, <2>2
  <1>2. excused' \subseteq Sessions
    BY DEF TypeOK, RevokeRows, Racing
  <1>3. session' \in [Sessions -> Session]
    BY DEF TypeOK, RevokeRows, Session
  <1> QED BY <1>1, <1>2, <1>3 DEF TypeOK, RevokeRows

(* The next statement of a request.                                        *)
LEMMA ProceedType ==
    ASSUME TypeOK, OwnersKnown, NEW c \in Requests, Proceed(c)
    PROVE  TypeOK'
  <1> USE AbsentType, NoRequestType, AccountsAssumption
  <1>1. CASE \E t \in Tokens : IssueAuthToken(c, t)
    <2> PICK t \in Tokens : IssueAuthToken(c, t)
      BY <1>1
    <2> QED BY AnswerType DEF TypeOK, IssueAuthToken, NoSessionChange, Token, Request
  <1>2. CASE Activate(c)
    BY <1>2, AnswerType DEF TypeOK, Activate, NoSessionChange, User, Statuses
  <1>3. CASE SetPassword(c)
    <2>1. req' \in [Requests -> Request]
      BY <1>3, GotoType DEF TypeOK, SetPassword, RequestPcs
    <2>2. req[c].of \in Users
      BY <1>3 DEF OwnersKnown, Named, SetPassword, At
    <2>3. user' \in [Users -> User]
      BY <1>3, <2>2 DEF TypeOK, SetPassword, User
    <2> QED BY <1>3, <2>1, <2>3 DEF TypeOK, SetPassword, NoSessionChange
  <1>4. CASE \E s \in Sessions : LoginCreate(c, s)
    <2> PICK s \in Sessions : LoginCreate(c, s)
      BY <1>4
    <2>1. session' \in [Sessions -> Session]
      BY DEF TypeOK, LoginCreate, Session, Request, User
    <2> QED BY <2>1, AnswerType DEF TypeOK, LoginCreate
  <1>5. CASE \E s \in Sessions : SelectSession(c, s)
    <2> PICK s \in Sessions : SelectSession(c, s)
      BY <1>5
    <2>1. CASE Valid(s)
      <3>1. user[session[s].of].role \in Roles
        BY <2>1 DEF OwnersKnown, Valid, TypeOK, User
      <3>2. req[c] \in Request
        BY DEF TypeOK
      <3>3. [req[c] EXCEPT !.pc = "fill", !.by = user[session[s].of].role] \in Request
        BY <3>1, <3>2 DEF Request, RequestPcs
      <3>4. req' = [req EXCEPT ![c].pc = "fill", ![c].by = user[session[s].of].role]
            /\ UNCHANGED <<user, lock, token, session, cache, excused>>
        BY <2>1 DEF SelectSession, NoSessionChange
      <3>5. req' \in [Requests -> Request]
        BY <3>2, <3>3, <3>4 DEF TypeOK
      <3> QED BY <3>4, <3>5 DEF TypeOK
    <2>2. CASE ~Valid(s)
      BY <2>2, AnswerType DEF TypeOK, SelectSession, NoSessionChange
    <2> QED BY <2>1, <2>2
  <1>6. CASE \E s \in Sessions : FillCache(c, s)
    <2> PICK s \in Sessions : FillCache(c, s)
      BY <1>6
    <2>1. req' \in [Requests -> Request]
      BY GotoType DEF TypeOK, FillCache, RequestPcs
    <2> QED BY <2>1 DEF TypeOK, FillCache, Request, Roles
  <1>7. CASE \E s \in Sessions : ChooseRevoke(c, s)
    <2> PICK s \in Sessions : ChooseRevoke(c, s)
      BY <1>7
    <2> QED BY DEF TypeOK, ChooseRevoke, NoSessionChange, Request, RequestPcs
  <1>8. CASE OtherRoute(c)
    BY <1>8, AnswerType DEF TypeOK, OtherRoute, NoSessionChange
  <1>9. CASE Revoke(c)
    BY <1>9, RevokeRowsType DEF TypeOK, Revoke, Request
  <1>10. CASE RevokeAll(c)
    BY <1>10, RevokeRowsType DEF RevokeAll, LiveOf
  <1>11. CASE DeleteKeys(c)
    BY <1>11, AnswerType DEF TypeOK, DeleteKeys, Request
  <1>12. CASE \E u \in Targets : AdminRevokeAll(c, u)
    BY <1>12, RevokeRowsType DEF AdminRevokeAll, LiveOf
  <1>13. CASE \E u \in Targets : \E role \in Roles : CreateUser(c, u, role)
    <2> PICK u \in Targets, role \in Roles : CreateUser(c, u, role)
      BY <1>13
    <2> QED BY AnswerType DEF TypeOK, CreateUser, NoSessionChange, User, Statuses
  <1>14. CASE \E u \in Targets : \E role \in Roles : \E status \in NewStatuses :
                LockUser(c, u, role, status)
    <2> PICK u \in Targets, role \in Roles, status \in NewStatuses :
              LockUser(c, u, role, status)
      BY <1>14
    <2>1. lock' \in [Users -> Requests \cup {Nobody}]
      BY DEF TypeOK, LockUser
    <2>2. user[u] \in User /\ [user[u] EXCEPT !.role = role, !.status = status] \in User
      BY DEF TypeOK, User
    <2>3. req' \in [Requests -> Request]
      BY <2>2 DEF TypeOK, LockUser, Request, RequestPcs
    <2> QED BY <2>1, <2>3 DEF TypeOK, LockUser, NoSessionChange
  <1>15. CASE CountAdmins(c)
    <2>1. req' \in [Requests -> Request]
      BY <1>15, AnswerType, GotoType DEF TypeOK, CountAdmins, RequestPcs
    <2> QED BY <1>15, <2>1 DEF TypeOK, CountAdmins, Unlock, NoSessionChange
  <1>16. CASE WriteUser(c)
    <2>1. user' \in [Users -> User]
      BY <1>16 DEF TypeOK, WriteUser, User, Request
    <2>2. req' \in [Requests -> Request]
      <3>1. CASE req[c].to.status = "suspended"
        <4>1. req[c].of \in Users \cup {Nobody}
          BY DEF TypeOK, Request
        <4>2. [NoRequest EXCEPT !.pc = "revokeAll", !.of = req[c].of] \in Request
          BY <4>1 DEF Request, RequestPcs
        <4> QED BY <1>16, <3>1, <4>2 DEF TypeOK, WriteUser
      <3>2. CASE req[c].to.status # "suspended"
        BY <1>16, <3>2, AnswerType DEF TypeOK, WriteUser
      <3> QED BY <3>1, <3>2
    <2> QED BY <1>16, <2>1, <2>2 DEF TypeOK, WriteUser, Unlock, NoSessionChange
  <1> QED BY <1>1, <1>2, <1>3, <1>4, <1>5, <1>6, <1>7, <1>8, <1>9, <1>10, <1>11,
             <1>12, <1>13, <1>14, <1>15, <1>16 DEF Proceed

LEMMA AccountsNextType ==
    ASSUME TypeOK, OwnersKnown, [Next]_vars
    PROVE  TypeOK'
  <1>1. CASE \E c \in Requests : Arrive(c)
    BY <1>1, ArriveType
  <1>2. CASE \E c \in Requests : Proceed(c)
    BY <1>2, ProceedType
  <1>3. CASE \E c \in Requests : Drop(c)
    <2> PICK c \in Requests : Drop(c)
      BY <1>3
    <2>1. excused' \subseteq Sessions
      BY DEF TypeOK, Drop, LiveOf, Request
    <2> QED BY <2>1, AnswerType DEF TypeOK, Drop, Unlock
  <1>4. CASE \E s \in Sessions : CacheExpires(s) \/ SessionExpires(s) \/ ReapSession(s)
    <2> PICK s \in Sessions : CacheExpires(s) \/ SessionExpires(s) \/ ReapSession(s)
      BY <1>4
    <2>1. CASE CacheExpires(s)
      BY <2>1 DEF TypeOK, CacheExpires
    <2>2. CASE SessionExpires(s)
      BY <2>2 DEF TypeOK, SessionExpires, Session
    <2>3. CASE ReapSession(s)
      BY <2>3 DEF TypeOK, ReapSession, Session
    <2> QED BY <2>1, <2>2, <2>3
  <1>5. CASE \E t \in Tokens : TokenExpires(t)
    BY <1>5 DEF TypeOK, TokenExpires, Token
  <1>6. CASE UNCHANGED vars
    BY <1>6 DEF TypeOK, vars
  <1> QED BY <1>1, <1>2, <1>3, <1>4, <1>5, <1>6 DEF Next

-----------------------------------------------------------------------------
LEMMA AccountsInitOwners == Init => OwnersKnown
  BY DEF Init, OwnersKnown, Named, NoSession, NoToken, NoRequest

LEMMA ArriveOwners ==
    ASSUME TypeOK, OwnersKnown, NEW c \in Requests, Arrive(c)
    PROVE  OwnersKnown'
  <1> USE DEF OwnersKnown, Named, TypeOK, NoSessionChange, NoRequest
  <1>1. ASSUME NEW u \in Users, Register(c, u) PROVE OwnersKnown'
    BY <1>1 DEF Register, Begin
  <1>2. ASSUME NEW u \in Users, NEW purpose \in Purposes, AskToken(c, u, purpose)
        PROVE  OwnersKnown'
    BY <1>2 DEF AskToken
  <1>3. ASSUME NEW u \in Users, LoginRead(c, u) PROVE OwnersKnown'
    BY <1>3 DEF LoginRead
  <1>4. ASSUME NEW t \in Tokens, ConsumeAuthToken(c, t) PROVE OwnersKnown'
    BY <1>4 DEF ConsumeAuthToken, Begin, Token
  <1>5. ASSUME NEW s \in Sessions, Present(c, s) PROVE OwnersKnown'
    BY <1>5 DEF Present
  <1> QED BY <1>1, <1>2, <1>3, <1>4, <1>5, AccountsAssumption DEF Arrive

LEMMA RevokeRowsOwners ==
    ASSUME TypeOK, OwnersKnown, NEW c \in Requests, NEW ss \in SUBSET Sessions,
           RevokeRows(c, ss), \A s \in ss : session[s].st = "live"
    PROVE  OwnersKnown'
  <1>1. \A s \in Sessions : session'[s].of = session[s].of
           /\ (session'[s].st # "none" => session[s].st # "none")
           /\ session'[s].expired = session[s].expired
    BY DEF TypeOK, RevokeRows, Session
  <1>2. \A d \in Requests : req'[d].pc \in Named => req'[d].of = req[d].of
                            /\ req[d].pc \in Named
    <2>1. req'[c].pc \notin Named
      <3>1. CASE ss = {}
        <4>1. req'[c] = NoRequest
          BY <3>1 DEF TypeOK, RevokeRows, Answer
        <4> QED BY <4>1 DEF NoRequest, Named
      <3>2. CASE ss # {}
        <4>1. req'[c] = [NoRequest EXCEPT !.pc = "del", !.keys = ss]
          BY <3>2 DEF TypeOK, RevokeRows
        <4> QED BY <4>1 DEF NoRequest, Named
      <3> QED BY <3>1, <3>2
    <2>2. \A d \in Requests \ {c} : req'[d] = req[d]
      BY DEF TypeOK, RevokeRows, Answer
    <2> QED BY <2>1, <2>2
  <1> QED BY <1>1, <1>2 DEF OwnersKnown, RevokeRows

LEMMA ProceedOwners ==
    ASSUME TypeOK, OwnersKnown, NEW c \in Requests, Proceed(c)
    PROVE  OwnersKnown'
  <1> USE DEF OwnersKnown, Named, TypeOK, NoSessionChange, NoRequest, Answer, Goto, At
  <1>1. ASSUME NEW t \in Tokens, IssueAuthToken(c, t) PROVE OwnersKnown'
    BY <1>1 DEF IssueAuthToken
  <1>2. CASE Activate(c)
    BY <1>2 DEF Activate
  <1>14. CASE SetPassword(c)
    BY <1>14 DEF SetPassword
  <1>3. ASSUME NEW s \in Sessions, LoginCreate(c, s) PROVE OwnersKnown'
    BY <1>3 DEF LoginCreate, NoSession
  <1>4. ASSUME NEW s \in Sessions, SelectSession(c, s) PROVE OwnersKnown'
    <2>1. req'[c].pc \notin Named
      <3>1. CASE Valid(s)
        <4>1. req' = [req EXCEPT ![c].pc = "fill", ![c].by = user[session[s].of].role]
          BY <1>4, <3>1 DEF SelectSession
        <4>2. req[c] \in Request
          OBVIOUS
        <4>3. req'[c].pc = "fill"
          BY <4>1, <4>2 DEF Request
        <4> QED BY <4>3
      <3>2. CASE ~Valid(s)
        BY <1>4, <3>2 DEF SelectSession
      <3> QED BY <3>1, <3>2
    <2>2. \A d \in Requests \ {c} : req'[d] = req[d]
      BY <1>4 DEF SelectSession
    <2> QED BY <1>4, <2>1, <2>2 DEF SelectSession
  <1>5. ASSUME NEW s \in Sessions, FillCache(c, s) PROVE OwnersKnown'
    BY <1>5 DEF FillCache
  <1>6. ASSUME NEW s \in Sessions, ChooseRevoke(c, s) PROVE OwnersKnown'
    BY <1>6 DEF ChooseRevoke
  <1>7. CASE OtherRoute(c)
    BY <1>7 DEF OtherRoute
  <1>15. CASE DeleteKeys(c)
    BY <1>15 DEF DeleteKeys
  <1>16. CASE CountAdmins(c)
    <2>1. req'[c].pc \in Named => req'[c].of \in Users
      <3>1. CASE Cardinality(ActiveAdmins) <= 1
        BY <1>16, <3>1 DEF CountAdmins
      <3>2. CASE ~(Cardinality(ActiveAdmins) <= 1)
        <4>1. req' = [req EXCEPT ![c].pc = "write"]
          BY <1>16, <3>2 DEF CountAdmins
        <4>2. req[c] \in Request /\ req[c].pc = "count"
          BY <1>16 DEF CountAdmins
        <4>3. req'[c].of = req[c].of
          BY <4>1, <4>2 DEF Request
        <4> QED BY <4>2, <4>3
      <3> QED BY <3>1, <3>2
    <2>2. \A d \in Requests \ {c} : req'[d] = req[d]
      BY <1>16 DEF CountAdmins
    <2> QED BY <1>16, <2>1, <2>2 DEF CountAdmins
  <1>8. CASE Revoke(c)
    BY <1>8, RevokeRowsOwners DEF Revoke, Request
  <1>9. CASE RevokeAll(c)
    BY <1>9, RevokeRowsOwners DEF RevokeAll, LiveOf
  <1>10. ASSUME NEW u \in Targets, AdminRevokeAll(c, u) PROVE OwnersKnown'
    BY <1>10, RevokeRowsOwners DEF AdminRevokeAll, LiveOf
  <1>11. ASSUME NEW u \in Targets, NEW role \in Roles, CreateUser(c, u, role)
         PROVE  OwnersKnown'
    BY <1>11 DEF CreateUser
  <1>12. ASSUME NEW u \in Targets, NEW role \in Roles, NEW status \in NewStatuses,
                LockUser(c, u, role, status)
         PROVE  OwnersKnown'
    BY <1>12, AccountsAssumption DEF LockUser
  <1>13. CASE WriteUser(c)
    <2>1. req'[c].pc \in Named => req'[c].of \in Users
      <3>1. req[c].of \in Users
        BY <1>13 DEF WriteUser
      <3>2. CASE req[c].to.status = "suspended"
        <4>1. req'[c] = [NoRequest EXCEPT !.pc = "revokeAll", !.of = req[c].of]
          BY <1>13, <3>2 DEF WriteUser
        <4> QED BY <3>1, <4>1
      <3>3. CASE req[c].to.status # "suspended"
        <4>1. req'[c] = NoRequest
          BY <1>13, <3>3 DEF WriteUser
        <4> QED BY <4>1
      <3> QED BY <3>2, <3>3
    <2>2. \A d \in Requests \ {c} : req'[d] = req[d]
      BY <1>13 DEF WriteUser
    <2> QED BY <1>13, <2>1, <2>2 DEF WriteUser
  <1> HIDE DEF OwnersKnown, TypeOK, Answer, Goto, At
  <1> QED BY <1>1, <1>2, <1>3, <1>4, <1>5, <1>6, <1>7, <1>8, <1>9, <1>10, <1>11,
             <1>12, <1>13, <1>14, <1>15, <1>16 DEF Proceed

LEMMA AccountsNextOwners ==
    ASSUME TypeOK, OwnersKnown, [Next]_vars
    PROVE  OwnersKnown'
  <1> USE DEF OwnersKnown, Named, TypeOK
  <1>1. ASSUME NEW c \in Requests, Arrive(c) \/ Proceed(c) PROVE OwnersKnown'
    BY <1>1, ArriveOwners, ProceedOwners
  <1>2. ASSUME NEW c \in Requests, Drop(c) PROVE OwnersKnown'
    BY <1>2 DEF Drop, Answer, NoRequest
  <1>3. ASSUME NEW s \in Sessions, CacheExpires(s) \/ SessionExpires(s) \/ ReapSession(s)
        PROVE  OwnersKnown'
    <2>1. \A x \in Sessions : session'[x].of = session[x].of
            /\ (session'[x].st # "none" \/ session'[x].expired
                    => session[x].st # "none" \/ session[x].expired)
      <3>1. CASE CacheExpires(s)
        BY <3>1 DEF CacheExpires
      <3>2. CASE SessionExpires(s)
        BY <3>2 DEF SessionExpires, Session
      <3>3. CASE ReapSession(s)
        BY <3>3 DEF ReapSession, Session
      <3> QED BY <1>3, <3>1, <3>2, <3>3
    <2>2. UNCHANGED <<token, req>>
      BY <1>3 DEF CacheExpires, SessionExpires, ReapSession
    <2> QED BY <2>1, <2>2
  <1>4. ASSUME NEW t \in Tokens, TokenExpires(t) PROVE OwnersKnown'
    BY <1>4 DEF TokenExpires, Token
  <1>5. CASE UNCHANGED vars
    BY <1>5 DEF vars
  <1> QED BY <1>1, <1>2, <1>3, <1>4, <1>5 DEF Next

THEOREM AccountsAreOwned == Spec => [](TypeOK /\ OwnersKnown)
  BY AccountsInitType, AccountsInitOwners, AccountsNextType, AccountsNextOwners, PTL
  DEF Spec

(* The rows, the cache and what the requests remember are always typed.    *)
THEOREM AccountsTypeCorrect == Spec => []TypeOK
  BY AccountsAreOwned, PTL

-----------------------------------------------------------------------------
(* The transaction of an administrator: it holds the row it has read, and  *)
(* a row that exists is not created again.                                 *)
InTransaction == {"count", "write"}
Locking ==
    \A c \in Requests : req[c].pc \in InTransaction =>
        /\ lock[req[c].of] = c
        /\ user[req[c].of] = req[c].was
        /\ req[c].was.status # "absent"

(* A step of a request outside every transaction, which changes only rows  *)
(* that nobody holds.                                                      *)
LEMMA OutsideTransactions ==
    ASSUME TypeOK, OwnersKnown, Locking, NEW c \in Requests,
           \A d \in Requests \ {c} : req'[d] = req[d],
           req'[c].pc \notin InTransaction,
           UNCHANGED lock,
           \A u \in Users : lock[u] = Nobody \/ user[u].status = "absent"
                            \/ user'[u] = user[u]
    PROVE  Locking'
  <1> SUFFICES ASSUME NEW d \in Requests, req'[d].pc \in InTransaction
               PROVE  /\ lock[req'[d].of] = d
                      /\ user'[req'[d].of] = req'[d].was
                      /\ req'[d].was.status # "absent"
    BY DEF Locking
  <1>1. d # c /\ req'[d] = req[d]
    OBVIOUS
  <1>2. req[d].of \in Users
    BY <1>1 DEF OwnersKnown, Named, InTransaction
  <1>3. lock[req[d].of] = d /\ user[req[d].of] = req[d].was /\ req[d].was.status # "absent"
    BY <1>1 DEF Locking
  <1> QED BY <1>1, <1>2, <1>3, AccountsAssumption

(* What a new request does to the state.                                   *)
Others(c) == \A d \in Requests \ {c} : req'[d] = req[d]
Beginnings == {"issue", "activate", "setPassword", "create", "select", "authorized"}
Beginning(c) ==
    /\ Others(c) /\ req[c] = NoRequest
    /\ req'[c].pc \in Beginnings /\ req'[c].keys = {}
    /\ UNCHANGED <<lock, session, cache, excused>>
    /\ \A u \in Users : \/ user'[u] = user[u]
                        \/ /\ user[u].status = "absent"
                           /\ user'[u].password = user[u].password

LEMMA ArriveBegins ==
    ASSUME TypeOK, NEW c \in Requests, Arrive(c)
    PROVE  Beginning(c)
  <1> USE DEF TypeOK, Beginning, Beginnings, Others, Begin, NoRequest, NoSessionChange
  <1>1. ASSUME NEW u \in Users, Register(c, u) PROVE Beginning(c)
    <2>1. user[u] \in User
      OBVIOUS
    <2>2. user'[u].password = user[u].password
      BY <1>1, <2>1 DEF Register, User
    <2> QED BY <1>1, <2>2 DEF Register
  <1>2. ASSUME NEW u \in Users, NEW purpose \in Purposes, AskToken(c, u, purpose)
        PROVE  Beginning(c)
    BY <1>2 DEF AskToken
  <1>3. ASSUME NEW u \in Users, LoginRead(c, u) PROVE Beginning(c)
    BY <1>3 DEF LoginRead
  <1>4. ASSUME NEW t \in Tokens, ConsumeAuthToken(c, t) PROVE Beginning(c)
    BY <1>4 DEF ConsumeAuthToken
  <1>5. ASSUME NEW s \in Sessions, Present(c, s) PROVE Beginning(c)
    BY <1>5 DEF Present
  <1> HIDE DEF Beginning
  <1> QED BY <1>1, <1>2, <1>3, <1>4, <1>5, AccountsAssumption DEF Arrive

(* What an administrator's transaction does to it, from its lock to its    *)
(* commit.                                                                 *)
LEMMA LockUserLocking ==
    ASSUME TypeOK, OwnersKnown, Locking, NEW c \in Requests, NEW u \in Targets,
           NEW role \in Roles, NEW status \in NewStatuses, LockUser(c, u, role, status)
    PROVE  Locking'
  <1> SUFFICES ASSUME NEW d \in Requests, req'[d].pc \in InTransaction
               PROVE  /\ lock'[req'[d].of] = d
                      /\ user'[req'[d].of] = req'[d].was
                      /\ req'[d].was.status # "absent"
    BY DEF Locking
  <1>1. u \in Users /\ lock[u] = Nobody /\ user' = user /\ lock' = [lock EXCEPT ![u] = c]
    BY AccountsAssumption DEF LockUser
  <1>2. CASE d = c
    <2>1. req'[c].of = u /\ req'[c].was = user[u] /\ user[u].status # "absent"
      BY DEF LockUser, TypeOK, NoRequest
    <2> QED BY <1>1, <1>2, <2>1 DEF TypeOK
  <1>3. CASE d # c
    <2>1. req'[d] = req[d]
      BY <1>3 DEF LockUser, TypeOK
    <2>2. lock[req[d].of] = d /\ user[req[d].of] = req[d].was /\ req[d].was.status # "absent"
      BY <2>1 DEF Locking
    <2>3. req[d].of # u
      BY <1>1, <2>2, AccountsAssumption
    <2> QED BY <1>1, <2>1, <2>2, <2>3 DEF TypeOK
  <1> QED BY <1>2, <1>3

LEMMA UnlockLocking ==
    ASSUME TypeOK, OwnersKnown, Locking, NEW c \in Requests, Others(c), Unlock(c),
           req'[c].pc \notin InTransaction,
           \A u \in Users : lock[u] = c \/ user'[u] = user[u]
    PROVE  Locking'
  <1> SUFFICES ASSUME NEW d \in Requests, req'[d].pc \in InTransaction
               PROVE  /\ lock'[req'[d].of] = d
                      /\ user'[req'[d].of] = req'[d].was
                      /\ req'[d].was.status # "absent"
    BY DEF Locking
  <1>1. d # c /\ req'[d] = req[d]
    BY DEF Others
  <1>2. req[d].of \in Users
    BY <1>1 DEF OwnersKnown, Named, InTransaction
  <1>3. lock[req[d].of] = d /\ user[req[d].of] = req[d].was /\ req[d].was.status # "absent"
    BY <1>1 DEF Locking
  <1> QED BY <1>1, <1>2, <1>3 DEF Unlock

LEMMA CountAdminsLocking ==
    ASSUME TypeOK, OwnersKnown, Locking, NEW c \in Requests, CountAdmins(c)
    PROVE  Locking'
  <1>1. Others(c)
    BY DEF CountAdmins, Others, Answer, Goto, TypeOK
  <1>2. CASE Cardinality(ActiveAdmins) <= 1
    <2>1. req'[c].pc \notin InTransaction
      BY <1>2 DEF CountAdmins, Answer, NoRequest, InTransaction, TypeOK
    <2> QED BY <1>1, <1>2, <2>1, UnlockLocking DEF CountAdmins
  <1>3. CASE ~(Cardinality(ActiveAdmins) <= 1)
    <2>1. req[c] \in Request /\ req[c].pc = "count" /\ req' = [req EXCEPT ![c].pc = "write"]
      BY <1>3 DEF TypeOK, CountAdmins, At, Goto
    <2>2. req'[c].of = req[c].of /\ req'[c].was = req[c].was
      BY <2>1 DEF TypeOK, Request
    <2>3. \A d \in Requests : req'[d].pc \in InTransaction =>
              /\ req[d].pc \in InTransaction
              /\ req'[d].of = req[d].of /\ req'[d].was = req[d].was
      BY <1>1, <2>1, <2>2 DEF Others, InTransaction
    <2> QED BY <1>3, <2>3 DEF Locking, CountAdmins
  <1> QED BY <1>2, <1>3

LEMMA WriteUserLocking ==
    ASSUME TypeOK, OwnersKnown, Locking, NEW c \in Requests, WriteUser(c)
    PROVE  Locking'
  <1>1. Others(c) /\ req'[c].pc \notin InTransaction
    <2>1. CASE req[c].to.status = "suspended"
      BY <2>1 DEF WriteUser, Others, InTransaction, NoRequest, TypeOK
    <2>2. CASE req[c].to.status # "suspended"
      BY <2>2 DEF WriteUser, Answer, Others, InTransaction, NoRequest, TypeOK
    <2> QED BY <2>1, <2>2
  <1>2. lock[req[c].of] = c
    BY DEF WriteUser, At, Locking, InTransaction
  <1>3. \A u \in Users : lock[u] = c \/ user'[u] = user[u]
    BY <1>2 DEF WriteUser, TypeOK
  <1> QED BY <1>1, <1>3, UnlockLocking DEF WriteUser

(* Every other statement of a request leaves what a transaction holds.     *)
Outside(c) ==
    /\ Others(c)
    /\ req'[c].pc \notin InTransaction
    /\ UNCHANGED lock
    /\ \A u \in Users : lock[u] = Nobody \/ user[u].status = "absent"
                        \/ user'[u] = user[u]

LEMMA RevokeRowsOutside ==
    ASSUME TypeOK, NEW c \in Requests, NEW ss \in SUBSET Sessions, RevokeRows(c, ss)
    PROVE  Outside(c)
  <1>1. CASE ss = {}
    BY <1>1 DEF RevokeRows, Outside, Others, Answer, NoRequest, InTransaction, TypeOK
  <1>2. CASE ss # {}
    <2>1. req' = [req EXCEPT ![c] = [NoRequest EXCEPT !.pc = "del", !.keys = ss]]
      BY <1>2 DEF RevokeRows
    <2> QED BY <2>1 DEF RevokeRows, Outside, Others, NoRequest, InTransaction, TypeOK
  <1> QED BY <1>1, <1>2

LEMMA ProceedLocking ==
    ASSUME TypeOK, OwnersKnown, Locking, NEW c \in Requests, Proceed(c)
    PROVE  Locking'
  <1>a. Outside(c) => Locking'
    BY OutsideTransactions DEF Outside, Others
  <1> USE DEF Outside, Others, InTransaction, TypeOK, NoSessionChange, NoRequest, Answer,
              Goto, At
  <1>1. ASSUME NEW t \in Tokens, IssueAuthToken(c, t) PROVE Outside(c)
    BY <1>1 DEF IssueAuthToken
  <1>2. ASSUME Activate(c) PROVE Outside(c)
    <2>1. \A u \in Users : lock[u] = Nobody \/ user'[u] = user[u]
      BY <1>2 DEF Activate
    <2> QED BY <1>2, <2>1 DEF Activate
  <1>3. ASSUME SetPassword(c) PROVE Outside(c)
    <2>1. req[c] \in Request
      OBVIOUS
    <2>2. req'[c].pc = "revokeAll"
      BY <1>3, <2>1 DEF SetPassword, Request
    <2>3. \A u \in Users : lock[u] = Nobody \/ user'[u] = user[u]
      BY <1>3 DEF SetPassword
    <2> QED BY <1>3, <2>2, <2>3 DEF SetPassword
  <1>4. ASSUME NEW s \in Sessions, LoginCreate(c, s) PROVE Outside(c)
    BY <1>4 DEF LoginCreate
  <1>5. ASSUME NEW s \in Sessions, SelectSession(c, s) PROVE Outside(c)
    <2>1. CASE Valid(s)
      <3>1. req[c] \in Request
        OBVIOUS
      <3>2. req'[c].pc = "fill"
        BY <1>5, <2>1, <3>1 DEF SelectSession, Request
      <3> QED BY <1>5, <2>1, <3>2 DEF SelectSession
    <2>2. CASE ~Valid(s)
      BY <1>5, <2>2 DEF SelectSession
    <2> QED BY <2>1, <2>2
  <1>6. ASSUME NEW s \in Sessions, FillCache(c, s) PROVE Outside(c)
    <2>1. req[c] \in Request
      OBVIOUS
    <2>2. req'[c].pc = "authorized"
      BY <1>6, <2>1 DEF FillCache, Request
    <2> QED BY <1>6, <2>2 DEF FillCache
  <1>7. ASSUME NEW s \in Sessions, ChooseRevoke(c, s) PROVE Outside(c)
    BY <1>7 DEF ChooseRevoke
  <1>8. ASSUME OtherRoute(c) PROVE Outside(c)
    BY <1>8 DEF OtherRoute
  <1>11. ASSUME DeleteKeys(c) PROVE Outside(c)
    BY <1>11 DEF DeleteKeys
  <1>9. ASSUME NEW u \in Targets, NEW role \in Roles, CreateUser(c, u, role)
        PROVE  Outside(c)
    BY <1>9 DEF CreateUser
  <1> HIDE DEF Outside, Others, InTransaction, TypeOK, NoSessionChange, NoRequest, Answer,
               Goto, At
  <1>10. ASSUME Revoke(c) PROVE Outside(c)
    <2>1. req[c].s \in SUBSET Sessions
      BY DEF TypeOK, Request
    <2> QED BY <1>10, <2>1, RevokeRowsOutside DEF Revoke
  <1>12. ASSUME RevokeAll(c) PROVE Outside(c)
    BY <1>12, RevokeRowsOutside DEF RevokeAll, LiveOf
  <1>13. ASSUME NEW u \in Targets, AdminRevokeAll(c, u) PROVE Outside(c)
    BY <1>13, RevokeRowsOutside DEF AdminRevokeAll, LiveOf
  <1> QED BY <1>a, <1>1, <1>2, <1>3, <1>4, <1>5, <1>6, <1>7, <1>8, <1>9, <1>10, <1>11, <1>12, <1>13,
             LockUserLocking, CountAdminsLocking, WriteUserLocking DEF Proceed

LEMMA AccountsNextLocking ==
    ASSUME TypeOK, OwnersKnown, Locking, [Next]_vars
    PROVE  Locking'
  <1>1. ASSUME NEW c \in Requests, Arrive(c) PROVE Locking'
    <2>1. Beginning(c)
      BY <1>1, ArriveBegins
    <2> QED BY <2>1, OutsideTransactions DEF Beginning, Others, Beginnings, InTransaction
  <1>2. ASSUME NEW c \in Requests, Proceed(c) PROVE Locking'
    BY <1>2, ProceedLocking
  <1>3. ASSUME NEW c \in Requests, Drop(c) PROVE Locking'
    <2>1. Others(c) /\ req'[c].pc \notin InTransaction
      BY <1>3 DEF Drop, Answer, Others, InTransaction, NoRequest, TypeOK
    <2> QED BY <1>3, <2>1, UnlockLocking DEF Drop
  <1>4. CASE UNCHANGED <<user, lock, req>>
    BY <1>4 DEF Locking
  <1> QED BY <1>1, <1>2, <1>3, <1>4
       DEF Next, CacheExpires, SessionExpires, ReapSession, TokenExpires, vars

(* What an administrator's transaction read of its target stays true until *)
(* it writes: the row lock keeps out every other writer of it, and no      *)
(* statement writes a row without it.                                      *)
THEOREM LockedRowStays == Spec => []LockedRowHolds
  <1>1. Init => Locking
    BY DEF Init, Locking, InTransaction, NoRequest
  <1>2. TypeOK /\ OwnersKnown /\ Locking /\ [Next]_vars => Locking'
    BY AccountsNextLocking
  <1>3. Locking => LockedRowHolds
    BY DEF Locking, LockedRowHolds, InTransaction
  <1> QED BY <1>1, <1>2, <1>3, AccountsAreOwned, PTL DEF Spec

-----------------------------------------------------------------------------
(* Revoked sessions and the cache: a request deletes keys only after it    *)
(* has revoked their sessions, and a validation still to fill the cache    *)
(* with a revoked session is one that raced its revocation.                *)
Revoking ==
    /\ RevocationIsImmediate
    /\ \A c \in Requests : \A s \in Sessions :
          req[c].pc = "fill" /\ req[c].s = {s} /\ session[s].st = "revoked" => s \in excused
    /\ \A c \in Requests : req[c].keys # {} => req[c].pc = "del"

(* A step of a request that neither revokes, fills nor deletes anything.   *)
Plain(c) ==
    /\ Others(c)
    /\ req[c].pc \notin {"del", "revokeAll"}
    /\ req'[c].keys = {} /\ req'[c].pc # "fill"
    /\ UNCHANGED <<cache, session, excused>>
    /\ \A u \in Users : user'[u].password <= user[u].password

LEMMA PlainSteps ==
    ASSUME TypeOK, OwnersKnown, Revoking, NEW c \in Requests,
           \/ Arrive(c)
           \/ \E t \in Tokens : IssueAuthToken(c, t)
           \/ Activate(c) \/ OtherRoute(c) \/ CountAdmins(c) \/ WriteUser(c)
           \/ \E s \in Sessions : ChooseRevoke(c, s)
           \/ \E u \in Targets : \E role \in Roles :
                 \/ CreateUser(c, u, role)
                 \/ \E status \in NewStatuses : LockUser(c, u, role, status)
    PROVE  Plain(c)
  <1>n. /\ NoRequest.pc = "idle" /\ NoRequest.keys = {}
        /\ \A u \in Users : user[u] \in User /\ user[u].password \in Nat
    BY DEF NoRequest, TypeOK, User
  <1>u. ASSUME NEW u \in Users, user'[u] = user[u]
        PROVE  user'[u].password <= user[u].password
    BY <1>n, <1>u
  <1>1. CASE Arrive(c)
    <2>1. Beginning(c)
      BY <1>1, ArriveBegins
    <2> QED BY <1>n, <2>1 DEF Beginning, Beginnings, Plain
  <1> USE <1>n DEF Plain, Others, TypeOK, NoSessionChange, Answer, Goto, At
  <1>2. ASSUME NEW t \in Tokens, IssueAuthToken(c, t) PROVE Plain(c)
    BY <1>2 DEF IssueAuthToken
  <1>3. CASE Activate(c)
    <2>1. ASSUME NEW u \in Users PROVE user'[u].password = user[u].password
      BY <1>3 DEF Activate, User
    <2> QED BY <1>3, <2>1 DEF Activate
  <1>4. CASE OtherRoute(c)
    BY <1>4 DEF OtherRoute
  <1>5. CASE CountAdmins(c)
    <2>1. CASE Cardinality(ActiveAdmins) <= 1
      BY <1>5, <2>1 DEF CountAdmins
    <2>2. CASE ~(Cardinality(ActiveAdmins) <= 1)
      <3>1. req[c] \in Request /\ req[c].keys = {}
        BY <1>5 DEF CountAdmins, Revoking
      <3>2. req'[c].pc = "write" /\ req'[c].keys = {}
        BY <1>5, <2>2, <3>1 DEF CountAdmins, Request
      <3> QED BY <1>5, <2>2, <3>2 DEF CountAdmins
    <2> QED BY <2>1, <2>2
  <1>6. CASE WriteUser(c)
    <2>1. ASSUME NEW u \in Users PROVE user'[u].password = user[u].password
      BY <1>6 DEF WriteUser, User
    <2>2. req'[c].keys = {} /\ req'[c].pc # "fill"
      <3>1. CASE req[c].to.status = "suspended"
        <4>1. req'[c] = [NoRequest EXCEPT !.pc = "revokeAll", !.of = req[c].of]
          BY <1>6, <3>1 DEF WriteUser
        <4> QED BY <4>1 DEF NoRequest
      <3>2. CASE req[c].to.status # "suspended"
        BY <1>6, <3>2 DEF WriteUser
      <3> QED BY <3>1, <3>2
    <2> QED BY <1>6, <2>1, <2>2 DEF WriteUser
  <1>7. ASSUME NEW s \in Sessions, ChooseRevoke(c, s) PROVE Plain(c)
    <2>1. req'[c] = [NoRequest EXCEPT !.pc = "revoke", !.s = {s}]
      BY <1>7 DEF ChooseRevoke
    <2>2. req'[c].keys = {} /\ req'[c].pc = "revoke"
      BY <2>1 DEF NoRequest
    <2>3. \A u \in Users : user'[u].password <= user[u].password
      BY <1>7, <1>u DEF ChooseRevoke
    <2>4. Others(c) /\ req[c].pc = "authorized"
      BY <1>7 DEF ChooseRevoke
    <2> QED BY <1>7, <2>2, <2>3, <2>4 DEF ChooseRevoke
  <1>8. ASSUME NEW u \in Targets, NEW role \in Roles, CreateUser(c, u, role)
        PROVE  Plain(c)
    <2>1. ASSUME NEW x \in Users PROVE user'[x].password <= user[x].password
      <3>1. CASE x = u
        <4>1. user'[x] = [Absent EXCEPT !.status = "active", !.role = role]
          BY <1>8, <3>1 DEF CreateUser
        <4>2. user'[x].password = 0
          BY <4>1 DEF Absent
        <4> QED BY <4>2
      <3>2. CASE x # u
        BY <1>8, <1>u, <3>2 DEF CreateUser
      <3> QED BY <3>1, <3>2
    <2> QED BY <1>8, <2>1 DEF CreateUser
  <1>9. ASSUME NEW u \in Targets, NEW role \in Roles, NEW status \in NewStatuses,
               LockUser(c, u, role, status)
        PROVE  Plain(c)
    <2>1. req'[c].keys = {} /\ req'[c].pc # "fill"
      BY <1>9 DEF LockUser, NoRequest
    <2>2. \A x \in Users : user'[x].password <= user[x].password
      BY <1>9, <1>u DEF LockUser
    <2>3. Others(c) /\ req[c].pc = "authorized"
      BY <1>9 DEF LockUser
    <2> QED BY <1>9, <2>1, <2>2, <2>3 DEF LockUser
  <1> HIDE DEF Plain
  <1> QED BY <1>1, <1>2, <1>3, <1>4, <1>5, <1>6, <1>7, <1>8, <1>9

LEMMA PlainRevoking ==
    ASSUME TypeOK, Revoking, NEW c \in Requests, Plain(c)
    PROVE  Revoking'
  <1>1. \A d \in Requests : /\ req[d].keys \subseteq req'[d].keys
                            /\ req'[d].keys # {} => req'[d] = req[d]
                            /\ req'[d].pc = "fill" => req'[d] = req[d]
    BY DEF Plain, Others, Revoking
  <1>2. UNCHANGED <<cache, session, excused>>
    BY DEF Plain
  <1>3. RevocationIsImmediate'
    BY <1>1, <1>2 DEF Revoking, RevocationIsImmediate
  <1> QED BY <1>1, <1>2, <1>3 DEF Revoking

(* Validation: what is filled was read from a live session.                *)
LEMMA SelectRevoking ==
    ASSUME TypeOK, Revoking, NEW c \in Requests, NEW s \in Sessions, SelectSession(c, s)
    PROVE  Revoking'
  <1>1. Others(c) /\ UNCHANGED <<cache, session, excused>>
    BY DEF SelectSession, NoSessionChange, Others, Answer, TypeOK
  <1>2. req[c] \in Request /\ req[c].s = {s} /\ req[c].keys = {}
    BY DEF SelectSession, At, TypeOK, Revoking
  <1>3. req'[c].keys = {} /\ (req'[c].pc = "fill" => req'[c].s = {s} /\ Valid(s))
    <2>1. CASE Valid(s)
      <3>1. req'[c].keys = {} /\ req'[c].s = {s}
        BY <1>2, <2>1 DEF SelectSession, Request, TypeOK
      <3> QED BY <2>1, <3>1
    <2>2. CASE ~Valid(s)
      BY <2>2 DEF SelectSession, Answer, NoRequest, TypeOK
    <2> QED BY <2>1, <2>2
  <1>4. ASSUME NEW d \in Requests, NEW x \in Sessions,
               req'[d].pc = "fill", req'[d].s = {x}, session[x].st = "revoked"
        PROVE  x \in excused
    <2>1. CASE d = c
      <3>1. x = s /\ session[s].st = "live"
        BY <1>3, <1>4, <2>1 DEF Valid
      <3> QED BY <1>4, <3>1
    <2>2. CASE d # c
      BY <1>1, <1>4, <2>2 DEF Others, Revoking
    <2> QED BY <2>1, <2>2
  <1>5. RevocationIsImmediate'
    BY <1>1, <1>2 DEF Revoking, RevocationIsImmediate, Others
  <1> QED BY <1>1, <1>3, <1>4, <1>5 DEF Revoking, Others

LEMMA FillRevoking ==
    ASSUME TypeOK, Revoking, NEW c \in Requests, NEW s \in Sessions, FillCache(c, s)
    PROVE  Revoking'
  <1>1. Others(c) /\ UNCHANGED <<session, excused>>
    BY DEF FillCache, Others, Goto, TypeOK
  <1>2. req[c] \in Request /\ req[c].pc = "fill" /\ req[c].s = {s} /\ req[c].keys = {}
    BY DEF FillCache, At, TypeOK, Revoking
  <1>3. req'[c].pc = "authorized" /\ req'[c].keys = {}
    BY <1>2 DEF FillCache, Goto, Request, TypeOK
  <1>4. ASSUME NEW x \in Sessions, session[x].st = "revoked", cache'[x] # "none"
        PROVE  x \in excused \/ \E d \in Requests : x \in req'[d].keys
    <2>1. CASE x = s
      BY <1>2, <1>4, <2>1 DEF Revoking
    <2>2. CASE x # s
      <3>1. cache'[x] = cache[x]
        BY <2>2 DEF FillCache, TypeOK
      <3> QED BY <1>1, <1>2, <1>4, <3>1 DEF Revoking, RevocationIsImmediate, Others
    <2> QED BY <2>1, <2>2
  <1> QED BY <1>1, <1>2, <1>3, <1>4 DEF Revoking, RevocationIsImmediate, Others

(* Revocation: the keys of what is revoked are to be deleted next.         *)
LEMMA RevokeRowsRevoking ==
    ASSUME TypeOK, Revoking, NEW c \in Requests, NEW ss \in SUBSET Sessions,
           RevokeRows(c, ss), req[c].pc # "del"
    PROVE  Revoking'
  <1>1. Others(c) /\ UNCHANGED cache /\ excused' = excused \cup Racing(ss)
    BY DEF RevokeRows, Others, Answer, TypeOK
  <1>2. req'[c].keys = ss /\ (ss # {} => req'[c].pc = "del") /\ req'[c].pc # "fill"
    <2>1. CASE ss = {}
      BY <2>1 DEF RevokeRows, Answer, NoRequest, TypeOK
    <2>2. CASE ss # {}
      <3>1. req'[c] = [NoRequest EXCEPT !.pc = "del", !.keys = ss]
        BY <2>2 DEF RevokeRows, TypeOK
      <3> QED BY <3>1 DEF NoRequest
    <2> QED BY <2>1, <2>2
  <1>3. req[c].keys = {}
    BY DEF Revoking
  <1>4. \A x \in Sessions : session'[x].st = "revoked" => x \in ss \/ session[x].st = "revoked"
    BY DEF RevokeRows
  <1>5. RevocationIsImmediate'
    BY <1>1, <1>2, <1>3, <1>4 DEF Revoking, RevocationIsImmediate, Others
  <1>6. ASSUME NEW d \in Requests, NEW x \in Sessions,
               req'[d].pc = "fill", req'[d].s = {x}, session'[x].st = "revoked"
        PROVE  x \in excused'
    <2>1. d # c /\ req'[d] = req[d]
      BY <1>1, <1>2, <1>6 DEF Others
    <2>2. CASE x \in ss
      BY <1>1, <1>6, <2>1, <2>2 DEF Racing, At
    <2>3. CASE x \notin ss
      BY <1>1, <1>4, <1>6, <2>1, <2>3 DEF Revoking
    <2> QED BY <2>2, <2>3
  <1> QED BY <1>1, <1>2, <1>5, <1>6 DEF Revoking, Others

LEMMA DeleteRevoking ==
    ASSUME TypeOK, Revoking, NEW c \in Requests, DeleteKeys(c)
    PROVE  Revoking'
  <1>1. Others(c) /\ UNCHANGED session /\ req'[c] = NoRequest
    BY DEF DeleteKeys, Others, Answer, TypeOK
  <1>2. /\ excused \subseteq excused'
        /\ \A x \in Sessions : cache'[x] = cache[x] \/ cache'[x] = "none"
        /\ \A x \in req[c].keys : cache'[x] = "none" \/ x \in excused'
    BY DEF DeleteKeys, TypeOK, Request
  <1>3. RevocationIsImmediate'
    BY <1>1, <1>2 DEF Revoking, RevocationIsImmediate, Others
  <1> QED BY <1>1, <1>2, <1>3 DEF Revoking, Others, NoRequest

LEMMA DropRevoking ==
    ASSUME TypeOK, Revoking, NEW c \in Requests, Drop(c)
    PROVE  Revoking'
  <1>1. Others(c) /\ UNCHANGED <<session, cache>> /\ req'[c] = NoRequest
    BY DEF Drop, Others, Answer, TypeOK
  <1>2. excused \subseteq excused' /\ req[c].keys \subseteq excused'
    BY DEF Drop
  <1>3. RevocationIsImmediate'
    BY <1>1, <1>2 DEF Revoking, RevocationIsImmediate, Others
  <1> QED BY <1>1, <1>2, <1>3 DEF Revoking, Others, NoRequest

(* A new session, and a changed password.                                  *)
LEMMA LoginRevoking ==
    ASSUME TypeOK, Revoking, NEW c \in Requests, NEW s \in Sessions, LoginCreate(c, s)
    PROVE  Revoking'
  <1>1. Others(c) /\ UNCHANGED cache /\ req'[c] = NoRequest /\ excused \subseteq excused'
    BY DEF LoginCreate, Others, Answer, TypeOK
  <1>2. req[c].keys = {}
    BY DEF LoginCreate, At, Revoking
  <1>3. \A x \in Sessions : session'[x].st = "revoked" => session[x].st = "revoked"
    BY DEF LoginCreate, NoSession, TypeOK
  <1>4. RevocationIsImmediate'
    BY <1>1, <1>2, <1>3 DEF Revoking, RevocationIsImmediate, Others
  <1> QED BY <1>1, <1>3, <1>4 DEF Revoking, Others, NoRequest

LEMMA PasswordRevoking ==
    ASSUME TypeOK, Revoking, NEW c \in Requests, SetPassword(c)
    PROVE  Revoking'
  <1>1. Others(c) /\ UNCHANGED <<cache, session, excused>>
    BY DEF SetPassword, NoSessionChange, Others, Goto, TypeOK
  <1>2. req[c] \in Request /\ req[c].keys = {}
    BY DEF SetPassword, At, TypeOK, Revoking
  <1>3. req'[c].pc = "revokeAll" /\ req'[c].keys = {}
    BY <1>2 DEF SetPassword, Goto, Request, TypeOK
  <1>4. RevocationIsImmediate'
    BY <1>1, <1>2 DEF Revoking, RevocationIsImmediate, Others
  <1> QED BY <1>1, <1>3, <1>4 DEF Revoking, Others

LEMMA AccountsNextRevoking ==
    ASSUME TypeOK, OwnersKnown, Revoking, [Next]_vars
    PROVE  Revoking'
  <1>1. ASSUME NEW c \in Requests, Arrive(c) PROVE Revoking'
    BY <1>1, PlainSteps, PlainRevoking
  <1>2. ASSUME NEW c \in Requests, Proceed(c) PROVE Revoking'
    <2>1. ASSUME \/ \E t \in Tokens : IssueAuthToken(c, t)
                 \/ Activate(c) \/ OtherRoute(c) \/ CountAdmins(c) \/ WriteUser(c)
                 \/ \E s \in Sessions : ChooseRevoke(c, s)
                 \/ \E u \in Targets : \E role \in Roles :
                       \/ CreateUser(c, u, role)
                       \/ \E status \in NewStatuses : LockUser(c, u, role, status)
          PROVE  Revoking'
      <3>1. Plain(c)
        BY <2>1, PlainSteps
      <3> QED BY <3>1, PlainRevoking
    <2>2. CASE Revoke(c)
      <3>1. {s \in req[c].s : session[s].st = "live"} \in SUBSET Sessions
        BY DEF TypeOK, Request
      <3> QED BY <2>2, <3>1, RevokeRowsRevoking DEF Revoke, At
    <2>3. CASE RevokeAll(c)
      BY <2>3, RevokeRowsRevoking DEF RevokeAll, LiveOf, At
    <2>4. ASSUME NEW u \in Targets, AdminRevokeAll(c, u) PROVE Revoking'
      BY <2>4, RevokeRowsRevoking DEF AdminRevokeAll, LiveOf, At
    <2> QED BY <1>2, <2>1, <2>2, <2>3, <2>4, SelectRevoking, FillRevoking,
               DeleteRevoking, LoginRevoking, PasswordRevoking DEF Proceed
  <1>3. ASSUME NEW c \in Requests, Drop(c) PROVE Revoking'
    BY <1>3, DropRevoking
  <1>4. ASSUME NEW s \in Sessions, CacheExpires(s) \/ SessionExpires(s) \/ ReapSession(s)
        PROVE  Revoking'
    <2>1. UNCHANGED <<req, excused>>
      BY <1>4 DEF CacheExpires, SessionExpires, ReapSession
    <2>2. \A x \in Sessions : /\ cache'[x] = cache[x] \/ cache'[x] = "none"
                              /\ session'[x].st = "revoked" => session[x].st = "revoked"
      <3>1. CASE CacheExpires(s)
        BY <3>1 DEF CacheExpires, TypeOK
      <3>2. CASE SessionExpires(s)
        BY <3>2 DEF SessionExpires, TypeOK, Session
      <3>3. CASE ReapSession(s)
        BY <3>3 DEF ReapSession, TypeOK, Session
      <3> QED BY <1>4, <3>1, <3>2, <3>3
    <2> QED BY <2>1, <2>2 DEF Revoking, RevocationIsImmediate
  <1>5. CASE UNCHANGED <<session, cache, req, excused>>
    BY <1>5 DEF Revoking, RevocationIsImmediate
  <1> QED BY <1>1, <1>2, <1>3, <1>4, <1>5 DEF Next, TokenExpires, vars

(* A revoked session is not served from the cache, save for a validation   *)
(* that raced the revocation, a DEL that failed, or one still to come.     *)
THEOREM RevocationHolds == Spec => []RevocationIsImmediate
  <1>1. Init => Revoking
    BY DEF Init, Revoking, RevocationIsImmediate, NoRequest
  <1>2. TypeOK /\ OwnersKnown /\ Revoking /\ [Next]_vars => Revoking'
    BY AccountsNextRevoking
  <1>3. Revoking => RevocationIsImmediate
    BY DEF Revoking
  <1> QED BY <1>1, <1>2, <1>3, AccountsAreOwned, PTL DEF Spec

-----------------------------------------------------------------------------
(* Resets: a step that opens no session, changes no password and ends no   *)
(* revocation of all the sessions of a user.                               *)
LEMMA ResetFrame ==
    ASSUME TypeOK, TypeOK', OwnersKnown, ResetEndsSessions,
           \A d \in Requests : req[d].pc = "revokeAll" =>
                                  req'[d].pc = "revokeAll" /\ req'[d].of = req[d].of,
           excused \subseteq excused',
           \A u \in Users : user'[u].password <= user[u].password,
           \A s \in Sessions : session'[s].st = "live" =>
               /\ session[s].st = "live" /\ session'[s].of = session[s].of
               /\ session'[s].opened = session[s].opened
    PROVE  ResetEndsSessions'
  <1> SUFFICES ASSUME NEW s \in Sessions, session'[s].st = "live",
                      session'[s].opened < user'[session'[s].of].password,
                      s \notin excused'
               PROVE  \E d \in Requests : At(d, "revokeAll")' /\ req'[d].of = session'[s].of
    BY DEF ResetEndsSessions
  <1>1. session[s].st = "live" /\ session'[s].of = session[s].of /\ session[s].of \in Users
        /\ session'[s].opened = session[s].opened
    BY DEF OwnersKnown
  <1>2. /\ user'[session[s].of].password \in Nat /\ user[session[s].of].password \in Nat
        /\ session[s].opened \in Nat
    BY <1>1 DEF TypeOK, User, Session
  <1>3. session[s].opened < user[session[s].of].password
    BY <1>1, <1>2
  <1>4. PICK d \in Requests : req[d].pc = "revokeAll" /\ req[d].of = session[s].of
    BY <1>1, <1>3 DEF ResetEndsSessions, At
  <1> QED BY <1>1, <1>4 DEF At

LEMMA PlainReset ==
    ASSUME TypeOK, TypeOK', OwnersKnown, ResetEndsSessions, NEW c \in Requests, Plain(c)
    PROVE  ResetEndsSessions'
  BY ResetFrame DEF Plain, Others

LEMMA RevokeRowsReset ==
    ASSUME TypeOK, TypeOK', OwnersKnown, ResetEndsSessions, NEW c \in Requests,
           NEW ss \in SUBSET Sessions, RevokeRows(c, ss),
           req[c].pc = "revokeAll" => ss = LiveOf(req[c].of)
    PROVE  ResetEndsSessions'
  <1>1. Others(c) /\ user' = user /\ excused \subseteq excused'
    BY DEF RevokeRows, Others, Answer, TypeOK
  <1>2. ASSUME NEW s \in Sessions, session'[s].st = "live"
        PROVE  s \notin ss /\ session'[s] = session[s]
    <2>1. CASE s \in ss
      <3>1. session'[s] = [session[s] EXCEPT !.st = "revoked"] /\ session[s] \in Session
        BY <2>1 DEF RevokeRows, TypeOK
      <3> QED BY <1>2, <3>1 DEF Session
    <2>2. CASE s \notin ss
      BY <2>2 DEF RevokeRows
    <2> QED BY <2>1, <2>2
  <1>3. ASSUME NEW s \in Sessions, session'[s].st = "live", s \notin excused',
               session'[s].opened < user'[session'[s].of].password
        PROVE  \E d \in Requests : At(d, "revokeAll")' /\ req'[d].of = session'[s].of
    <2>1. s \notin ss /\ session'[s] = session[s] /\ s \notin excused
      BY <1>1, <1>2, <1>3
    <2>2. PICK d \in Requests : req[d].pc = "revokeAll" /\ req[d].of = session[s].of
      BY <1>1, <1>3, <2>1 DEF ResetEndsSessions, At
    <2>3. d # c
      BY <1>3, <2>1, <2>2 DEF LiveOf
    <2> QED BY <1>1, <2>1, <2>2, <2>3 DEF Others, At
  <1> QED BY <1>3 DEF ResetEndsSessions

(* The new password comes with the revocation of what the old one opened.  *)
LEMMA PasswordReset ==
    ASSUME TypeOK, TypeOK', OwnersKnown, ResetEndsSessions, NEW c \in Requests, SetPassword(c)
    PROVE  ResetEndsSessions'
  <1>1. Others(c) /\ UNCHANGED <<session, excused>> /\ req[c].pc = "setPassword"
    BY DEF SetPassword, NoSessionChange, Others, Goto, At, TypeOK
  <1>2. req'[c].pc = "revokeAll" /\ req'[c].of = req[c].of
    <2>1. req[c] \in Request
      BY DEF TypeOK
    <2> QED BY <2>1 DEF SetPassword, Goto, Request, TypeOK
  <1>3. \A u \in Users : u # req[c].of => user'[u] = user[u]
    BY DEF SetPassword, TypeOK
  <1>4. ASSUME NEW s \in Sessions, session[s].st = "live", s \notin excused,
               session[s].opened < user'[session[s].of].password
        PROVE  \E d \in Requests : At(d, "revokeAll")' /\ req'[d].of = session[s].of
    <2>1. CASE session[s].of = req[c].of
      BY <1>2, <2>1 DEF At
    <2>2. CASE session[s].of # req[c].of
      <3>1. user'[session[s].of] = user[session[s].of]
        BY <1>3, <1>4, <2>2 DEF OwnersKnown
      <3>2. PICK d \in Requests : req[d].pc = "revokeAll" /\ req[d].of = session[s].of
        BY <1>4, <3>1 DEF ResetEndsSessions, At
      <3> QED BY <1>1, <3>2 DEF Others, At
    <2> QED BY <2>1, <2>2
  <1> QED BY <1>1, <1>4 DEF ResetEndsSessions

(* A session opened with a password that was changed meanwhile is excused. *)
LEMMA LoginReset ==
    ASSUME TypeOK, TypeOK', OwnersKnown, ResetEndsSessions, NEW c \in Requests,
           NEW s \in Sessions, LoginCreate(c, s)
    PROVE  ResetEndsSessions'
  <1>1. Others(c) /\ user' = user /\ excused \subseteq excused' /\ req[c].pc = "create"
    BY DEF LoginCreate, Others, Answer, At, TypeOK
  <1>2. \A x \in Sessions \ {s} : session'[x] = session[x]
    BY DEF LoginCreate, TypeOK
  <1>3. session'[s].of = req[c].of /\ session'[s].opened = req[c].was.password
    BY DEF LoginCreate, NoSession, TypeOK
  <1>4. ASSUME NEW x \in Sessions, session'[x].st = "live", x \notin excused',
               session'[x].opened < user'[session'[x].of].password
        PROVE  \E d \in Requests : At(d, "revokeAll")' /\ req'[d].of = session'[x].of
    <2>1. x # s
      BY <1>1, <1>3, <1>4 DEF LoginCreate
    <2>2. PICK d \in Requests : req[d].pc = "revokeAll" /\ req[d].of = session[x].of
      BY <1>1, <1>2, <1>4, <2>1 DEF ResetEndsSessions, At
    <2> QED BY <1>1, <1>2, <2>1, <2>2 DEF Others, At
  <1> QED BY <1>4 DEF ResetEndsSessions

(* A reset cut off before its third statement leaves its user's sessions.  *)
LEMMA DropReset ==
    ASSUME TypeOK, TypeOK', OwnersKnown, ResetEndsSessions, NEW c \in Requests, Drop(c)
    PROVE  ResetEndsSessions'
  <1>1. Others(c) /\ UNCHANGED <<user, session>> /\ excused \subseteq excused'
    BY DEF Drop, Others, Answer, TypeOK
  <1>2. req[c].pc = "revokeAll" => LiveOf(req[c].of) \subseteq excused'
    BY DEF Drop, At
  <1>3. ASSUME NEW s \in Sessions, session[s].st = "live", s \notin excused',
               session[s].opened < user[session[s].of].password
        PROVE  \E d \in Requests : At(d, "revokeAll")' /\ req'[d].of = session[s].of
    <2>1. PICK d \in Requests : req[d].pc = "revokeAll" /\ req[d].of = session[s].of
      BY <1>1, <1>3 DEF ResetEndsSessions, At
    <2>2. d # c
      BY <1>2, <1>3, <2>1 DEF LiveOf
    <2> QED BY <1>1, <2>1, <2>2 DEF Others, At
  <1> QED BY <1>1, <1>3 DEF ResetEndsSessions

LEMMA ProceedReset ==
    ASSUME TypeOK, TypeOK', OwnersKnown, Revoking, ResetEndsSessions,
           NEW c \in Requests, Proceed(c)
    PROVE  ResetEndsSessions'
  <1>1. ASSUME \/ \E t \in Tokens : IssueAuthToken(c, t)
               \/ Activate(c) \/ OtherRoute(c) \/ CountAdmins(c) \/ WriteUser(c)
               \/ \E s \in Sessions : ChooseRevoke(c, s)
               \/ \E u \in Targets : \E role \in Roles :
                     \/ CreateUser(c, u, role)
                     \/ \E status \in NewStatuses : LockUser(c, u, role, status)
        PROVE  ResetEndsSessions'
    <2>1. Plain(c)
      BY <1>1, PlainSteps
    <2> QED BY <2>1, PlainReset
  <1>2. CASE Revoke(c)
    <2>1. {s \in req[c].s : session[s].st = "live"} \in SUBSET Sessions
      BY DEF TypeOK, Request
    <2> QED BY <1>2, <2>1, RevokeRowsReset DEF Revoke, At
  <1>3. CASE RevokeAll(c)
    BY <1>3, RevokeRowsReset DEF RevokeAll, LiveOf
  <1>4. ASSUME NEW u \in Targets, AdminRevokeAll(c, u) PROVE ResetEndsSessions'
    BY <1>4, RevokeRowsReset DEF AdminRevokeAll, LiveOf, At
  <1>5. ASSUME NEW s \in Sessions, SelectSession(c, s) \/ FillCache(c, s)
        PROVE  ResetEndsSessions'
    <2>1. UNCHANGED <<user, session, excused>> /\ Others(c) /\ req[c].pc # "revokeAll"
      BY <1>5 DEF SelectSession, FillCache, NoSessionChange, Others, Answer, Goto, At, TypeOK
    <2>2. \A u \in Users : user'[u].password <= user[u].password
      <3>1. \A u \in Users : user[u].password \in Nat
        BY DEF TypeOK, User
      <3> QED BY <2>1, <3>1
    <2> QED BY <2>1, <2>2, ResetFrame DEF Others
  <1>6. CASE DeleteKeys(c)
    <2>1. UNCHANGED <<user, session>> /\ Others(c) /\ req[c].pc # "revokeAll"
          /\ excused \subseteq excused'
      BY <1>6 DEF DeleteKeys, Others, Answer, At, TypeOK
    <2>2. \A u \in Users : user'[u].password <= user[u].password
      <3>1. \A u \in Users : user[u].password \in Nat
        BY DEF TypeOK, User
      <3> QED BY <2>1, <3>1
    <2> QED BY <2>1, <2>2, ResetFrame DEF Others
  <1> QED BY <1>1, <1>2, <1>3, <1>4, <1>5, <1>6, PasswordReset, LoginReset DEF Proceed

LEMMA AccountsNextReset ==
    ASSUME TypeOK, TypeOK', OwnersKnown, Revoking, ResetEndsSessions, [Next]_vars
    PROVE  ResetEndsSessions'
  <1>1. ASSUME NEW c \in Requests, Arrive(c) PROVE ResetEndsSessions'
    BY <1>1, PlainSteps, PlainReset
  <1>2. ASSUME NEW c \in Requests, Proceed(c) PROVE ResetEndsSessions'
    BY <1>2, ProceedReset
  <1>3. ASSUME NEW c \in Requests, Drop(c) PROVE ResetEndsSessions'
    BY <1>3, DropReset
  <1>4. ASSUME NEW s \in Sessions, CacheExpires(s) \/ SessionExpires(s) \/ ReapSession(s)
        PROVE  ResetEndsSessions'
    <2>1. UNCHANGED <<user, req, excused>>
      BY <1>4 DEF CacheExpires, SessionExpires, ReapSession
    <2>2. \A x \in Sessions : session'[x].st = "live" =>
              /\ session[x].st = "live" /\ session'[x].of = session[x].of
              /\ session'[x].opened = session[x].opened
      <3>1. CASE CacheExpires(s)
        BY <3>1 DEF CacheExpires
      <3>2. CASE SessionExpires(s)
        BY <3>2 DEF SessionExpires, TypeOK, Session
      <3>3. CASE ReapSession(s)
        BY <3>3 DEF ReapSession, TypeOK, Session
      <3> QED BY <1>4, <3>1, <3>2, <3>3
    <2> QED BY <2>1, <2>2 DEF ResetEndsSessions, At
  <1>5. CASE UNCHANGED <<user, session, req, excused>>
    BY <1>5 DEF ResetEndsSessions, At
  <1> QED BY <1>1, <1>2, <1>3, <1>4, <1>5 DEF Next, TokenExpires, vars

(* No session opened with an old password outlives the reset, save for a   *)
(* login that had compared it already and a reset that was cut off.        *)
THEOREM ResetsHold == Spec => []ResetEndsSessions
  <1>1. Init => Revoking /\ ResetEndsSessions
    BY DEF Init, Revoking, RevocationIsImmediate, ResetEndsSessions, NoRequest, NoSession
  <1>2. /\ TypeOK /\ OwnersKnown /\ TypeOK' /\ Revoking /\ ResetEndsSessions /\ [Next]_vars
        => Revoking' /\ ResetEndsSessions'
    BY AccountsNextRevoking, AccountsNextReset
  <1> QED BY <1>1, <1>2, AccountsAreOwned, PTL DEF Spec

-----------------------------------------------------------------------------
(* Tokens: the requests that are about to set a user's password, and the   *)
(* reset tokens the user has used.                                         *)
Setting(u) == {c \in Requests : At(c, "setPassword") /\ req[c].of = u}
Used(u) == {t \in Tokens : token[t].of = u /\ token[t].st = "used"
                           /\ token[t].purpose = "reset"}
Paid(u) == /\ IsFiniteSet(Setting(u))
           /\ user[u].password + Cardinality(Setting(u)) <= Cardinality(Used(u))

LEMMA UsedFinite == \A u : IsFiniteSet(Used(u)) /\ Cardinality(Used(u)) \in Nat
  <1> SUFFICES ASSUME NEW u PROVE IsFiniteSet(Used(u)) /\ Cardinality(Used(u)) \in Nat
    OBVIOUS
  <1>1. Used(u) \in SUBSET Tokens /\ IsFiniteSet(Tokens)
    BY AccountsAssumption DEF Used
  <1>2. IsFiniteSet(Used(u))
    BY <1>1, FS_Subset
  <1> QED BY <1>2, FS_CardinalityType

(* A step that changes no password for another one, starts no reset and    *)
(* takes no token back.                                                    *)
LEMMA PaidFrame ==
    ASSUME TypeOK, TypeOK', NEW u \in Users, Paid(u),
           user'[u].password <= user[u].password,
           Setting(u)' \subseteq Setting(u), Used(u) \subseteq Used(u)'
    PROVE  Paid(u)'
  <1>1. IsFiniteSet(Setting(u)') /\ Cardinality(Setting(u)') <= Cardinality(Setting(u))
    BY FS_Subset DEF Paid
  <1>2. IsFiniteSet(Used(u)')
    <2>1. Used(u)' \in SUBSET Tokens /\ IsFiniteSet(Tokens)
      BY AccountsAssumption DEF Used
    <2> QED BY <2>1, FS_Subset
  <1>3. Cardinality(Used(u)) <= Cardinality(Used(u)')
    BY <1>2, FS_Subset
  <1>4. /\ Cardinality(Setting(u)) \in Nat /\ Cardinality(Setting(u)') \in Nat
        /\ Cardinality(Used(u)) \in Nat /\ Cardinality(Used(u)') \in Nat
    BY <1>1, <1>2, UsedFinite, FS_CardinalityType DEF Paid
  <1>5. user[u].password \in Nat /\ user'[u].password \in Nat
    BY DEF TypeOK, User
  <1>6. user'[u].password + Cardinality(Setting(u)') <= Cardinality(Used(u)')
    BY <1>1, <1>3, <1>4, <1>5 DEF Paid
  <1> QED BY <1>1, <1>6 DEF Paid

(* The other steps of a request: it is not about to set a password after.  *)
UsedStay == \A t \in Tokens : token[t].st = "used" => token'[t] = token[t]
Calm(c) == /\ Others(c) /\ req'[c].pc # "setPassword" /\ UsedStay
           /\ \A u \in Users : user'[u].password <= user[u].password

LEMMA CalmPaid ==
    ASSUME TypeOK, TypeOK', NEW c \in Requests, Calm(c), NEW u \in Users, Paid(u)
    PROVE  Paid(u)'
  <1>1. Setting(u)' \subseteq Setting(u)
    BY DEF Calm, Others, Setting, At
  <1>2. Used(u) \subseteq Used(u)'
    BY DEF Calm, UsedStay, Used
  <1> QED BY <1>1, <1>2, PaidFrame DEF Calm

LEMMA SamePasswords ==
    ASSUME TypeOK, UNCHANGED user
    PROVE  \A u \in Users : user'[u].password <= user[u].password
  <1>1. \A u \in Users : user[u].password \in Nat
    BY DEF TypeOK, User
  <1> QED BY <1>1

LEMMA RevokeRowsCalm ==
    ASSUME TypeOK, NEW c \in Requests, NEW ss, RevokeRows(c, ss)
    PROVE  Calm(c)
  <1>1. Others(c) /\ UNCHANGED <<user, token>>
    BY DEF RevokeRows, Others, Answer, TypeOK
  <1>2. req'[c].pc # "setPassword"
    <2>1. CASE ss = {}
      BY <2>1 DEF RevokeRows, Answer, NoRequest, TypeOK
    <2>2. CASE ss # {}
      <3>1. req'[c] = [NoRequest EXCEPT !.pc = "del", !.keys = ss]
        BY <2>2 DEF RevokeRows, TypeOK
      <3> QED BY <3>1 DEF NoRequest
    <2> QED BY <2>1, <2>2
  <1> QED BY <1>1, <1>2, SamePasswords DEF Calm, UsedStay

LEMMA ProceedCalm ==
    ASSUME TypeOK, OwnersKnown, Revoking, NEW c \in Requests, Proceed(c), ~SetPassword(c)
    PROVE  Calm(c)
  <1>n. /\ NoRequest.pc = "idle" /\ NoToken.st = "none"
        /\ req[c] \in Request
    BY DEF NoRequest, NoToken, TypeOK
  <1>p. ASSUME Plain(c), req'[c].pc # "setPassword", UsedStay PROVE Calm(c)
    BY <1>p DEF Plain, Calm
  <1>u. UNCHANGED token => UsedStay
    BY DEF UsedStay
  <1> USE DEF NoSessionChange, Answer, Goto, At
  <1>1. ASSUME NEW t \in Tokens, IssueAuthToken(c, t) PROVE Calm(c)
    <2>1. Plain(c) /\ UsedStay
      BY <1>1, <1>n, PlainSteps DEF UsedStay, IssueAuthToken, TypeOK
    <2> QED BY <1>1, <1>n, <1>p, <2>1 DEF IssueAuthToken, TypeOK
  <1>2. CASE Activate(c) \/ OtherRoute(c)
    <2>1. Plain(c) /\ UsedStay
      BY <1>2, <1>u, PlainSteps DEF Activate, OtherRoute
    <2> QED BY <1>2, <1>n, <1>p, <2>1 DEF Activate, OtherRoute, TypeOK
  <1>3. CASE CountAdmins(c)
    <2>1. Plain(c) /\ UsedStay
      BY <1>3, <1>u, PlainSteps DEF CountAdmins
    <2>2. req'[c].pc # "setPassword"
      BY <1>3, <1>n DEF CountAdmins, TypeOK, Request
    <2> QED BY <1>p, <2>1, <2>2
  <1>4. CASE WriteUser(c)
    <2>1. Plain(c) /\ UsedStay
      BY <1>4, <1>u, PlainSteps DEF WriteUser
    <2>2. req'[c].pc # "setPassword"
      <3>1. CASE req[c].to.status = "suspended"
        <4>1. req'[c] = [NoRequest EXCEPT !.pc = "revokeAll", !.of = req[c].of]
          BY <1>4, <3>1 DEF WriteUser, TypeOK
        <4> QED BY <4>1 DEF NoRequest
      <3>2. CASE req[c].to.status # "suspended"
        BY <1>4, <1>n, <3>2 DEF WriteUser, TypeOK
      <3> QED BY <3>1, <3>2
    <2> QED BY <1>p, <2>1, <2>2
  <1>5. ASSUME NEW s \in Sessions, ChooseRevoke(c, s) PROVE Calm(c)
    <2>1. Plain(c) /\ UsedStay
      BY <1>5, <1>u, PlainSteps DEF ChooseRevoke
    <2>2. req'[c].pc # "setPassword"
      BY <1>5 DEF ChooseRevoke, TypeOK, NoRequest
    <2> QED BY <1>p, <2>1, <2>2
  <1>6. ASSUME NEW u \in Targets, NEW role \in Roles, CreateUser(c, u, role) PROVE Calm(c)
    <2>1. Plain(c) /\ UsedStay
      BY <1>6, <1>u, PlainSteps DEF CreateUser
    <2> QED BY <1>6, <1>n, <1>p, <2>1 DEF CreateUser, TypeOK
  <1>7. ASSUME NEW u \in Targets, NEW role \in Roles, NEW status \in NewStatuses,
               LockUser(c, u, role, status)
        PROVE  Calm(c)
    <2>1. Plain(c) /\ UsedStay
      BY <1>7, <1>u, PlainSteps DEF LockUser
    <2>2. req'[c].pc # "setPassword"
      BY <1>7 DEF LockUser, TypeOK, NoRequest
    <2> QED BY <1>p, <2>1, <2>2
  <1>8. ASSUME NEW s \in Sessions, LoginCreate(c, s) PROVE Calm(c)
    <2>1. Others(c) /\ UNCHANGED <<user, token>> /\ req'[c] = NoRequest
      BY <1>8 DEF LoginCreate, Others, TypeOK
    <2> QED BY <1>n, <1>u, <2>1, SamePasswords DEF Calm
  <1>9. ASSUME NEW s \in Sessions, SelectSession(c, s) \/ FillCache(c, s) PROVE Calm(c)
    <2>1. Others(c) /\ UNCHANGED <<user, token>>
      BY <1>9 DEF SelectSession, FillCache, Others, TypeOK
    <2>2. req'[c].pc # "setPassword"
      BY <1>9, <1>n DEF SelectSession, FillCache, TypeOK, Request
    <2> QED BY <1>u, <2>1, <2>2, SamePasswords DEF Calm
  <1>10. CASE DeleteKeys(c)
    <2>1. Others(c) /\ UNCHANGED <<user, token>> /\ req'[c] = NoRequest
      BY <1>10 DEF DeleteKeys, Others, TypeOK
    <2> QED BY <1>n, <1>u, <2>1, SamePasswords DEF Calm
  <1>11. CASE Revoke(c)
    BY <1>11, RevokeRowsCalm DEF Revoke
  <1>12. CASE RevokeAll(c)
    BY <1>12, RevokeRowsCalm DEF RevokeAll
  <1>13. ASSUME NEW u \in Targets, AdminRevokeAll(c, u) PROVE Calm(c)
    BY <1>13, RevokeRowsCalm DEF AdminRevokeAll
  <1> QED BY <1>1, <1>2, <1>3, <1>4, <1>5, <1>6, <1>7, <1>8, <1>9, <1>10, <1>11, <1>12, <1>13
       DEF Proceed

(* A request arrives: only one that uses a reset token is to set the       *)
(* password, that of the token's user.                                     *)
LEMMA ArrivePaid ==
    ASSUME TypeOK, TypeOK', OwnersKnown, Revoking, NEW c \in Requests, Arrive(c),
           NEW u \in Users, Paid(u)
    PROVE  Paid(u)'
  <1>1. Plain(c) /\ Others(c) /\ req[c] = NoRequest
    BY ArriveBegins, PlainSteps DEF Beginning
  <1>2. CASE req'[c].pc # "setPassword" /\ UsedStay
    BY <1>1, <1>2, CalmPaid DEF Calm, Plain
  <1>3. ASSUME NEW t \in Tokens, ConsumeAuthToken(c, t) PROVE Paid(u)'
    <2>1. /\ token[t].st = "fresh" /\ token[t] \in Token
          /\ token' = [token EXCEPT ![t].st = "used"] /\ user' = user
      BY <1>3 DEF ConsumeAuthToken, TypeOK
    <2>2. /\ token'[t].st = "used" /\ token'[t].of = token[t].of
          /\ token'[t].purpose = token[t].purpose
          /\ \A x \in Tokens \ {t} : token'[x] = token[x]
      BY <2>1 DEF TypeOK, Token
    <2>3. UsedStay
      BY <2>1, <2>2 DEF UsedStay
    <2>4. CASE token[t].purpose = "verify"
      <3>1. req'[c].pc = "activate"
        BY <1>3, <2>4 DEF ConsumeAuthToken, Begin, NoRequest, TypeOK
      <3> QED BY <1>2, <2>3, <3>1
    <2>5. CASE token[t].purpose # "verify"
      <3>1. req'[c].pc = "setPassword" /\ req'[c].of = token[t].of
        BY <1>3, <2>5 DEF ConsumeAuthToken, Begin, NoRequest, TypeOK
      <3>2. token[t].purpose = "reset"
        BY <2>1, <2>5 DEF Token, Purposes
      <3>3. CASE token[t].of # u
        <4>1. Setting(u)' \subseteq Setting(u)
          BY <1>1, <3>1, <3>3 DEF Setting, Others, At
        <4>2. Used(u) \subseteq Used(u)'
          BY <2>3 DEF UsedStay, Used
        <4> QED BY <1>1, <4>1, <4>2, PaidFrame DEF Plain
      <3>4. CASE token[t].of = u
        <4>1. Setting(u)' = Setting(u) \cup {c} /\ c \notin Setting(u)
          BY <1>1, <3>1, <3>4 DEF Setting, Others, At, NoRequest
        <4>2. Used(u)' = Used(u) \cup {t} /\ t \notin Used(u)
          BY <2>1, <2>2, <3>2, <3>4 DEF Used
        <4>3. /\ IsFiniteSet(Setting(u)')
              /\ Cardinality(Setting(u)') = Cardinality(Setting(u)) + 1
          BY <4>1, FS_AddElement DEF Paid
        <4>4. Cardinality(Used(u)') = Cardinality(Used(u)) + 1
          BY <4>2, UsedFinite, FS_AddElement
        <4>5. /\ Cardinality(Setting(u)) \in Nat /\ Cardinality(Used(u)) \in Nat
              /\ user[u].password \in Nat
          BY UsedFinite, FS_CardinalityType DEF Paid, TypeOK, User
        <4> QED BY <2>1, <4>3, <4>4, <4>5 DEF Paid
      <3> QED BY <3>3, <3>4
    <2> QED BY <2>4, <2>5
  <1>4. ASSUME NEW v \in Users, Register(c, v) PROVE Paid(u)'
    <2>1. req'[c].pc = "issue" /\ UsedStay
      BY <1>4 DEF Register, Begin, NoRequest, TypeOK, UsedStay
    <2> QED BY <1>2, <2>1
  <1>5. ASSUME NEW v \in Users, LoginRead(c, v) PROVE Paid(u)'
    <2>1. req'[c].pc = "create" /\ UsedStay
      BY <1>5 DEF LoginRead, NoRequest, TypeOK, UsedStay
    <2> QED BY <1>2, <2>1
  <1>6. ASSUME NEW v \in Users, NEW purpose \in Purposes, AskToken(c, v, purpose)
        PROVE  Paid(u)'
    <2>1. req'[c].pc = "issue" /\ UsedStay
      BY <1>6 DEF AskToken, NoRequest, TypeOK, UsedStay
    <2> QED BY <1>2, <2>1
  <1>7. ASSUME NEW s \in Sessions, Present(c, s) PROVE Paid(u)'
    <2>1. req'[c].pc \in {"select", "authorized"} /\ UsedStay
      BY <1>7 DEF Present, NoRequest, TypeOK, UsedStay
    <2> QED BY <1>2, <2>1
  <1> QED BY <1>3, <1>4, <1>5, <1>6, <1>7, AccountsAssumption DEF Arrive

(* The password is set, and the request is no longer about to set one.     *)
LEMMA SetPasswordPaid ==
    ASSUME TypeOK, TypeOK', OwnersKnown, NEW c \in Requests, SetPassword(c),
           NEW u \in Users, Paid(u)
    PROVE  Paid(u)'
  <1>1. Others(c) /\ UNCHANGED token /\ req[c].pc = "setPassword" /\ req[c].of \in Users
    BY DEF SetPassword, Others, Goto, At, TypeOK, OwnersKnown, Named
  <1>2. req'[c].pc = "revokeAll"
    <2>1. req[c] \in Request
      BY DEF TypeOK
    <2> QED BY <2>1 DEF SetPassword, Goto, Request, TypeOK
  <1>3. user[u] \in User /\ Used(u)' = Used(u)
    BY <1>1 DEF TypeOK, Used
  <1>4. CASE req[c].of # u
    <2>1. user'[u] = user[u]
      BY <1>4 DEF SetPassword, TypeOK
    <2>2. Setting(u)' \subseteq Setting(u)
      BY <1>1, <1>2 DEF Setting, Others, At
    <2>3. user'[u].password <= user[u].password
      BY <1>3, <2>1 DEF User
    <2> QED BY <1>3, <2>2, <2>3, PaidFrame
  <1>5. CASE req[c].of = u
    <2>1. user'[u].password = user[u].password + 1 /\ user[u].password \in Nat
      BY <1>3, <1>5 DEF SetPassword, TypeOK, User
    <2>2. Setting(u)' = Setting(u) \ {c} /\ c \in Setting(u)
      BY <1>1, <1>2, <1>5 DEF Setting, Others, At
    <2>3. /\ IsFiniteSet(Setting(u)')
          /\ Cardinality(Setting(u)') = Cardinality(Setting(u)) - 1
      BY <2>2, FS_RemoveElement DEF Paid
    <2>4. Cardinality(Setting(u)) \in Nat /\ Cardinality(Used(u)) \in Nat
      BY UsedFinite, FS_CardinalityType DEF Paid
    <2> QED BY <1>3, <2>1, <2>3, <2>4 DEF Paid
  <1> QED BY <1>4, <1>5

LEMMA AccountsNextPaid ==
    ASSUME TypeOK, TypeOK', OwnersKnown, Revoking, [Next]_vars, NEW u \in Users, Paid(u)
    PROVE  Paid(u)'
  <1>1. ASSUME NEW c \in Requests, Arrive(c) PROVE Paid(u)'
    BY <1>1, ArrivePaid
  <1>2. ASSUME NEW c \in Requests, Proceed(c) PROVE Paid(u)'
    BY <1>2, ProceedCalm, CalmPaid, SetPasswordPaid
  <1>3. ASSUME NEW c \in Requests, Drop(c) PROVE Paid(u)'
    <2>1. Others(c) /\ UNCHANGED <<user, token>> /\ req'[c].pc = "idle"
      BY <1>3 DEF Drop, Answer, Others, NoRequest, TypeOK
    <2> QED BY <2>1, SamePasswords, CalmPaid DEF Calm, UsedStay
  <1>4. ASSUME NEW t \in Tokens, TokenExpires(t) PROVE Paid(u)'
    <2>1. UNCHANGED <<user, req>> /\ UsedStay
      BY <1>4 DEF TokenExpires, UsedStay, TypeOK
    <2>2. Setting(u)' = Setting(u) /\ Used(u) \subseteq Used(u)'
      BY <2>1 DEF Setting, At, Used, UsedStay
    <2> QED BY <2>1, <2>2, SamePasswords, PaidFrame
  <1>5. CASE UNCHANGED <<user, token, req>>
    BY <1>5 DEF Paid, Setting, Used, At
  <1> QED BY <1>1, <1>2, <1>3, <1>4, <1>5
       DEF Next, CacheExpires, SessionExpires, ReapSession, vars

(* However often a mailed link is followed, and wherever a reset stops, a  *)
(* reset token changes its user's password at most once.                   *)
THEOREM TokensAreSpentOnce == Spec => []TokensSpentOnce
  <1> DEFINE AllPaid == \A u \in Users : Paid(u)
  <1>1. Init => Revoking /\ AllPaid
    <2>1. Init => Revoking
      BY DEF Init, Revoking, RevocationIsImmediate, NoRequest, NoSession
    <2>2. ASSUME Init, NEW u \in Users PROVE Paid(u)
      <3>1. Setting(u) = {} /\ user[u].password = 0
        BY <2>2 DEF Init, Setting, At, NoRequest, Absent
      <3> QED BY <3>1, UsedFinite, FS_EmptySet DEF Paid
    <2> QED BY <2>1, <2>2
  <1>2. /\ TypeOK /\ OwnersKnown /\ TypeOK' /\ Revoking /\ AllPaid /\ [Next]_vars
        => Revoking' /\ AllPaid'
    BY AccountsNextRevoking, AccountsNextPaid
  <1>3. AllPaid => TokensSpentOnce
    BY DEF Paid, Setting, Used, TokensSpentOnce
  <1> HIDE DEF AllPaid
  <1> QED BY <1>1, <1>2, <1>3, AccountsAreOwned, PTL DEF Spec

-----------------------------------------------------------------------------
(* Roles: a step after which no validation of s is to fill the cache with  *)
(* r but those that were, and the cache holds what it held or nothing.     *)
NoNewRole(s, r) ==
    /\ cache'[s] \in {cache[s], "none"}
    /\ \A c \in Requests :
           req'[c].pc = "fill" /\ req'[c].s = {s} /\ req'[c].by = r => req'[c] = req[c]

LEMMA NoNewRoleGone ==
    ASSUME NEW s, NEW r \in Roles, Gone(s, r), NoNewRole(s, r)
    PROVE  Gone(s, r)'
  <1>1. cache'[s] # r
    BY DEF Gone, NoNewRole, Roles
  <1> QED BY <1>1 DEF Gone, NoNewRole, At

(* A step of a request that leaves the cache alone and does not make the   *)
(* request a validation past its SELECT.                                   *)
LEMMA NoFillGone ==
    ASSUME NEW c \in Requests, Others(c), req'[c].pc # "fill", UNCHANGED cache,
           NEW s \in Sessions, NEW r
    PROVE  NoNewRole(s, r)
  BY DEF Others, NoNewRole

LEMMA RevokeRowsGone ==
    ASSUME TypeOK, NEW c \in Requests, NEW ss, RevokeRows(c, ss),
           NEW s \in Sessions, NEW r
    PROVE  NoNewRole(s, r)
  <1>1. Others(c) /\ UNCHANGED cache
    BY DEF RevokeRows, Others, Answer, TypeOK
  <1>2. req'[c].pc # "fill"
    <2>1. CASE ss = {}
      BY <2>1 DEF RevokeRows, Answer, NoRequest, TypeOK
    <2>2. CASE ss # {}
      <3>1. req'[c] = [NoRequest EXCEPT !.pc = "del", !.keys = ss]
        BY <2>2 DEF RevokeRows, TypeOK
      <3> QED BY <3>1 DEF NoRequest
    <2> QED BY <2>1, <2>2
  <1> QED BY <1>1, <1>2, NoFillGone

(* A session is read with the role its user has, if with any.              *)
LEMMA SelectGone ==
    ASSUME TypeOK, NEW c \in Requests, NEW x \in Sessions, SelectSession(c, x),
           NEW s \in Sessions, NEW r \in Roles, Entitled(s) # r
    PROVE  NoNewRole(s, r)
  <1>1. Others(c) /\ UNCHANGED cache
    BY DEF SelectSession, Others, NoSessionChange, Answer, TypeOK
  <1>2. CASE Valid(x)
    <2>1. /\ req' = [req EXCEPT ![c].pc = "fill", ![c].by = user[session[x].of].role]
          /\ req[c] \in Request /\ req[c].s = {x}
      BY <1>2 DEF SelectSession, TypeOK
    <2>2. req'[c].s = {x} /\ req'[c].by = user[session[x].of].role
      BY <2>1 DEF TypeOK, Request
    <2>3. x = s => req'[c].by # r
      BY <1>2, <2>2 DEF Valid, Entitled
    <2>4. ~(req'[c].s = {s} /\ req'[c].by = r)
      BY <2>2, <2>3
    <2> QED BY <1>1, <2>4 DEF NoNewRole, Others
  <1>3. CASE ~Valid(x)
    <2>1. req'[c].pc # "fill"
      BY <1>3 DEF SelectSession, Answer, NoRequest, TypeOK
    <2> QED BY <1>1, <2>1, NoFillGone
  <1> QED BY <1>2, <1>3

(* The cache is filled with the role that was read.                        *)
LEMMA FillGone ==
    ASSUME TypeOK, NEW c \in Requests, NEW x \in Sessions, FillCache(c, x),
           NEW s \in Sessions, NEW r \in Roles, Gone(s, r)
    PROVE  Gone(s, r)'
  <1>1. req[c] \in Request /\ req'[c].pc # "fill" /\ Others(c)
    BY DEF FillCache, Goto, Others, TypeOK, Request
  <1>2. cache'[s] # r
    <2>1. CASE cache' = cache
      BY <2>1 DEF Gone
    <2>2. CASE cache' = [cache EXCEPT ![x] = req[c].by]
      <3>1. x = s => req[c].by # r
        BY DEF FillCache, At, Gone
      <3> QED BY <2>2, <3>1 DEF Gone, TypeOK
    <2> QED BY <2>1, <2>2 DEF FillCache
  <1> QED BY <1>1, <1>2 DEF Gone, At, Others

LEMMA ProceedGone ==
    ASSUME TypeOK, OwnersKnown, Revoking, NEW c \in Requests, Proceed(c),
           NEW s \in Sessions, NEW r \in Roles, Gone(s, r), Entitled(s) # r
    PROVE  Gone(s, r)'
  <1>n. NoRequest.pc = "idle"
    BY DEF NoRequest
  <1>p. ASSUME Plain(c) PROVE Gone(s, r)'
    BY <1>p, NoFillGone, NoNewRoleGone DEF Plain
  <1>1. ASSUME NEW t \in Tokens, IssueAuthToken(c, t) PROVE Gone(s, r)'
    BY <1>1, <1>p, PlainSteps
  <1>2. CASE Activate(c) \/ OtherRoute(c) \/ CountAdmins(c) \/ WriteUser(c)
    BY <1>2, <1>p, PlainSteps
  <1>3. ASSUME NEW x \in Sessions, ChooseRevoke(c, x) PROVE Gone(s, r)'
    BY <1>3, <1>p, PlainSteps
  <1>4. ASSUME NEW u \in Targets, NEW role \in Roles, CreateUser(c, u, role)
        PROVE  Gone(s, r)'
    BY <1>4, <1>p, PlainSteps
  <1>5. ASSUME NEW u \in Targets, NEW role \in Roles, NEW status \in NewStatuses,
               LockUser(c, u, role, status)
        PROVE  Gone(s, r)'
    BY <1>5, <1>p, PlainSteps
  <1>6. CASE SetPassword(c)
    <2>1. Others(c) /\ UNCHANGED cache /\ req'[c].pc # "fill"
      <3>1. req[c] \in Request
        BY DEF TypeOK
      <3> QED BY <1>6, <3>1 DEF SetPassword, NoSessionChange, Goto, Others, TypeOK, Request
    <2> QED BY <2>1, NoFillGone, NoNewRoleGone
  <1>7. ASSUME NEW x \in Sessions, LoginCreate(c, x) PROVE Gone(s, r)'
    <2>1. Others(c) /\ UNCHANGED cache /\ req'[c].pc # "fill"
      BY <1>7, <1>n DEF LoginCreate, Answer, Others, TypeOK
    <2> QED BY <2>1, NoFillGone, NoNewRoleGone
  <1>8. ASSUME NEW x \in Sessions, SelectSession(c, x) PROVE Gone(s, r)'
    BY <1>8, SelectGone, NoNewRoleGone
  <1>9. ASSUME NEW x \in Sessions, FillCache(c, x) PROVE Gone(s, r)'
    BY <1>9, FillGone
  <1>10. CASE DeleteKeys(c)
    <2>1. Others(c) /\ req'[c].pc # "fill" /\ cache'[s] \in {cache[s], "none"}
      BY <1>10, <1>n DEF DeleteKeys, Answer, Others, TypeOK
    <2>2. NoNewRole(s, r)
      BY <2>1 DEF NoNewRole, Others
    <2> QED BY <2>2, NoNewRoleGone
  <1>11. CASE Revoke(c)
    BY <1>11, RevokeRowsGone, NoNewRoleGone DEF Revoke
  <1>12. CASE RevokeAll(c)
    BY <1>12, RevokeRowsGone, NoNewRoleGone DEF RevokeAll
  <1>13. ASSUME NEW u \in Targets, AdminRevokeAll(c, u) PROVE Gone(s, r)'
    BY <1>13, RevokeRowsGone, NoNewRoleGone DEF AdminRevokeAll
  <1> QED BY <1>1, <1>2, <1>3, <1>4, <1>5, <1>6, <1>7, <1>8, <1>9, <1>10, <1>11,
             <1>12, <1>13 DEF Proceed

LEMMA AccountsNextGone ==
    ASSUME TypeOK, OwnersKnown, Revoking, [Next]_vars,
           NEW s \in Sessions, NEW r \in Roles, Gone(s, r), Entitled(s) # r
    PROVE  Gone(s, r)'
  <1>1. ASSUME NEW c \in Requests, Arrive(c) PROVE Gone(s, r)'
    <2>1. Others(c) /\ UNCHANGED cache /\ req'[c].pc # "fill"
      BY <1>1, ArriveBegins DEF Beginning, Beginnings
    <2> QED BY <2>1, NoFillGone, NoNewRoleGone
  <1>2. ASSUME NEW c \in Requests, Proceed(c) PROVE Gone(s, r)'
    BY <1>2, ProceedGone
  <1>3. ASSUME NEW c \in Requests, Drop(c) PROVE Gone(s, r)'
    <2>1. Others(c) /\ UNCHANGED cache /\ req'[c].pc # "fill"
      BY <1>3 DEF Drop, Answer, Others, NoRequest, TypeOK
    <2> QED BY <2>1, NoFillGone, NoNewRoleGone
  <1>4. ASSUME NEW x \in Sessions, CacheExpires(x) PROVE Gone(s, r)'
    <2>1. NoNewRole(s, r)
      BY <1>4 DEF CacheExpires, NoNewRole, TypeOK
    <2> QED BY <2>1, NoNewRoleGone
  <1>5. CASE UNCHANGED <<cache, req>>
    BY <1>5 DEF Gone, At
  <1> QED BY <1>1, <1>2, <1>3, <1>4, <1>5
       DEF Next, SessionExpires, ReapSession, TokenExpires, vars

(* However a revocation, a suspension or a demotion was raced or cut off,  *)
(* a role that a session has lost and that neither the cache nor a         *)
(* validation holds does not come back to it by itself.                    *)
THEOREM LostRolesStayLost == Spec => LostRoleStaysLost
  <1>1. Init => Revoking
    BY DEF Init, Revoking, RevocationIsImmediate, NoRequest, NoSession
  <1>2. TypeOK /\ OwnersKnown /\ TypeOK' /\ Revoking /\ [Next]_vars => Revoking'
    BY AccountsNextRevoking
  <1>3. TypeOK /\ OwnersKnown /\ Revoking /\ [Next]_vars
        => [\A s \in Sessions, r \in Roles :
               Gone(s, r) /\ Entitled(s) # r /\ Entitled(s)' # r => Gone(s, r)']_vars
    BY AccountsNextGone
  <1> QED BY <1>1, <1>2, <1>3, AccountsAreOwned, PTL DEF Spec, LostRoleStaysLost
=============================================================================
