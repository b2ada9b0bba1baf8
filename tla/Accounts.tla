------------------------------ MODULE Accounts ------------------------------
(***************************************************************************)
(* Users, their sessions and the tokens they are mailed: internal/auth,    *)
(* handlers_auth.go, the users of handlers_admin.go, requireAuth and       *)
(* requireRole (middleware.go), and step 7 of the maintenance job.         *)
(*                                                                         *)
(* A session is validated against Redis first (5 minutes) and PostgreSQL   *)
(* after; a request is a sequence of statements, one action each, and      *)
(* req[c] what it remembers between two of them.  The transaction of       *)
(* handleAdminUpdateUser holds the row lock of its target from its first   *)
(* read to its commit; its count of administrators locks nothing.          *)
(***************************************************************************)
EXTENDS Integers, FiniteSets

CONSTANTS
    Users,
    FirstAdmin,   \* created by EnsureAdmin when the API starts
    Sessions,     \* rows of sessions that may be created
    SessionsOf,   \* bound: those that each user may open
    Tokens,       \* rows of auth_tokens that may be created
    Mailed,       \* bound: users who ask for one once they are registered
    Targets,      \* users the administrators change
    NewStatuses,  \* statuses they give them
    Requests,     \* requests in progress at the API
    Nobody        \* no user, no request

Roles == {"student", "admin"}      \* a teacher is a student for this module
Statuses == {"pending", "active", "suspended"}
Purposes == {"verify", "reset"}

ASSUME AccountsAssumption ==
    /\ IsFiniteSet(Users) /\ IsFiniteSet(Tokens)
    /\ FirstAdmin \in Users
    /\ SessionsOf \in [Users -> SUBSET Sessions]
    /\ Targets \subseteq Users /\ Mailed \subseteq Users
    /\ NewStatuses \subseteq Statuses
    /\ Nobody \notin Users \cup Requests

VARIABLES
    user,       \* rows of users
    lock,       \* the request whose transaction holds each user's row
    session,    \* rows of sessions
    cache,      \* role cached with each session's identity, or "none"
    token,      \* rows of auth_tokens
    req,        \* what each request is doing
    excused     \* sessions whose revocation was raced or interrupted (auxiliary)

vars == <<user, lock, session, cache, token, req, excused>>

(* password counts the changes; opened is the one a session was opened     *)
(* with (auxiliary).                                                       *)
User == [status : Statuses \cup {"absent"}, role : Roles, password : Nat]
Session == [st : {"none", "live", "revoked", "deleted"}, of : Users \cup {Nobody},
            expired : BOOLEAN, opened : Nat]
Token == [st : {"none", "fresh", "used", "expired"}, of : Users \cup {Nobody},
          purpose : Purposes]
Absent == [status |-> "absent", role |-> "student", password |-> 0]
NoSession == [st |-> "none", of |-> Nobody, expired |-> FALSE, opened |-> 0]
NoToken == [st |-> "none", of |-> Nobody, purpose |-> "verify"]

(* of: the user a request acts on; by: the role in its identity; was: the  *)
(* row as a transaction read it, to: what it will write; s and keys: the   *)
(* session presented and those to delete from the cache.                   *)
RequestPcs == {"idle", "issue", "create", "select", "fill", "authorized",
               "revoke", "del", "count", "write", "revokeAll", "activate",
               "setPassword"}
Request == [pc : RequestPcs, of : Users \cup {Nobody}, by : Roles,
            s : SUBSET Sessions, keys : SUBSET Sessions, was : User, to : User,
            purpose : Purposes]
NoRequest == [pc |-> "idle", of |-> Nobody, by |-> "student", s |-> {}, keys |-> {},
              was |-> Absent, to |-> Absent, purpose |-> "verify"]

Init ==
    /\ user = [u \in Users |-> IF u = FirstAdmin
                 THEN [Absent EXCEPT !.status = "active", !.role = "admin"] ELSE Absent]
    /\ lock = [u \in Users |-> Nobody]
    /\ session = [s \in Sessions |-> NoSession]
    /\ cache = [s \in Sessions |-> "none"]
    /\ token = [t \in Tokens |-> NoToken]
    /\ req = [c \in Requests |-> NoRequest]
    /\ excused = {}

ActiveAdmin(u) == u.status = "active" /\ u.role = "admin"
ActiveAdmins == {u \in Users : ActiveAdmin(user[u])}
LiveOf(u) == {s \in Sessions : session[s].st = "live" /\ session[s].of = u}

At(c, pc) == req[c].pc = pc
Answer(c) == req' = [req EXCEPT ![c] = NoRequest]
Begin(c, pc, u) ==
    /\ req[c] = NoRequest
    /\ req' = [req EXCEPT ![c] = [NoRequest EXCEPT !.pc = pc, !.of = u]]
Goto(c, pc) == req' = [req EXCEPT ![c].pc = pc]
NoSessionChange == UNCHANGED <<session, cache, excused>>

-----------------------------------------------------------------------------
(* handleRegister, handleResendVerification, handleForgotPassword: the     *)
(* row is read or created, then IssueAuthToken inserts the token.          *)
Register(c, u) ==
    /\ user[u].status = "absent"
    /\ Begin(c, "issue", u)
    /\ user' = [user EXCEPT ![u].status = "pending"]
    /\ UNCHANGED <<lock, token>> /\ NoSessionChange

AskToken(c, u, purpose) ==
    /\ req[c] = NoRequest
    /\ IF purpose = "verify" THEN user[u].status = "pending"
                             ELSE user[u].status # "absent"
    /\ req' = [req EXCEPT ![c] = [NoRequest EXCEPT !.pc = "issue", !.of = u,
                                                   !.purpose = purpose]]
    /\ UNCHANGED <<user, lock, token>> /\ NoSessionChange

IssueAuthToken(c, t) ==
    /\ At(c, "issue")
    /\ token[t] = NoToken
    /\ token' = [token EXCEPT ![t] = [st |-> "fresh", of |-> req[c].of,
                                      purpose |-> req[c].purpose]]
    /\ Answer(c)
    /\ UNCHANGED <<user, lock>> /\ NoSessionChange

(* Mutated form of ConsumeAuthToken: a used token is taken again.          *)
ConsumeAgain(c, t) ==
    /\ token[t].st \in {"fresh", "used"}
    /\ token' = [token EXCEPT ![t].st = "used"]
    /\ Begin(c, IF token[t].purpose = "verify" THEN "activate" ELSE "setPassword",
             token[t].of)
    /\ UNCHANGED <<user, lock>> /\ NoSessionChange

(* One UPDATE checks the token and marks it.                               *)
ConsumeAuthToken(c, t) ==
    /\ token[t].st = "fresh"
    /\ token' = [token EXCEPT ![t].st = "used"]
    /\ Begin(c, IF token[t].purpose = "verify" THEN "activate" ELSE "setPassword",
             token[t].of)
    /\ UNCHANGED <<user, lock>> /\ NoSessionChange

(* handleVerifyEmail, second statement; an UPDATE waits for the row.       *)
Activate(c) ==
    LET u == req[c].of IN
    /\ At(c, "activate")
    /\ lock[u] = Nobody
    /\ user' = IF user[u].status = "pending"
               THEN [user EXCEPT ![u].status = "active"] ELSE user
    /\ Answer(c)
    /\ UNCHANGED <<lock, token>> /\ NoSessionChange

(* handleResetPassword, second statement; RevokeAll is the third.          *)
SetPassword(c) ==
    /\ At(c, "setPassword")
    /\ lock[req[c].of] = Nobody
    /\ user' = [user EXCEPT ![req[c].of].password = @ + 1]
    /\ Goto(c, "revokeAll")
    /\ UNCHANGED <<lock, token>> /\ NoSessionChange

-----------------------------------------------------------------------------
(* handleLogin: the row is read and the password compared, then            *)
(* CreateSession.                                                          *)
LoginRead(c, u) ==
    /\ user[u].status = "active"
    /\ req[c] = NoRequest
    /\ req' = [req EXCEPT ![c] = [NoRequest EXCEPT !.pc = "create", !.of = u,
                                                   !.was = user[u]]]
    /\ UNCHANGED <<user, lock, token>> /\ NoSessionChange

LoginCreate(c, s) ==
    LET u == req[c].of IN
    /\ At(c, "create")
    /\ s \in SessionsOf[u]
    /\ session[s] = NoSession
    /\ session' = [session EXCEPT ![s] = [NoSession EXCEPT !.st = "live", !.of = u,
                                              !.opened = req[c].was.password]]
    /\ excused' = IF req[c].was.password < user[u].password
                  THEN excused \cup {s} ELSE excused
    /\ Answer(c)
    /\ UNCHANGED <<user, lock, cache, token>>

-----------------------------------------------------------------------------
(* requireAuth and ValidateSession: the cache, then the row and its user,  *)
(* then the cache is filled (a Set that fails is ignored).                 *)
Present(c, s) ==
    /\ session[s].st # "none"
    /\ req[c] = NoRequest
    /\ req' = [req EXCEPT ![c] = [NoRequest EXCEPT
                   !.pc = IF cache[s] = "none" THEN "select" ELSE "authorized",
                   !.by = IF cache[s] = "none" THEN "student" ELSE cache[s],
                   !.s = {s}, !.of = session[s].of]]
    /\ UNCHANGED <<user, lock, token>> /\ NoSessionChange

Valid(s) == /\ session[s].st = "live" /\ ~session[s].expired
            /\ user[session[s].of].status = "active"

(* Mutated form of SelectSession: without the status of the user.          *)
SelectSuspendedToo(c, s) ==
    /\ At(c, "select") /\ req[c].s = {s}
    /\ IF session[s].st = "live" /\ ~session[s].expired
       THEN req' = [req EXCEPT ![c].pc = "fill", ![c].by = user[session[s].of].role]
       ELSE Answer(c)
    /\ UNCHANGED <<user, lock, token>> /\ NoSessionChange

SelectSession(c, s) ==
    /\ At(c, "select") /\ req[c].s = {s}
    /\ IF Valid(s)
       THEN req' = [req EXCEPT ![c].pc = "fill", ![c].by = user[session[s].of].role]
       ELSE Answer(c)
    /\ UNCHANGED <<user, lock, token>> /\ NoSessionChange

(* Mutated form of FillCache: the status of the account is cached as role. *)
FillCacheStatus(c, s) ==
    /\ At(c, "fill") /\ req[c].s = {s}
    /\ cache' = [cache EXCEPT ![s] = user[req[c].of].status]
    /\ Goto(c, "authorized")
    /\ UNCHANGED <<user, lock, session, token, excused>>

FillCache(c, s) ==
    /\ At(c, "fill") /\ req[c].s = {s}
    /\ cache' \in {cache, [cache EXCEPT ![s] = req[c].by]}
    /\ Goto(c, "authorized")
    /\ UNCHANGED <<user, lock, session, token, excused>>

(* What an authorized request may go on to do: nothing here, logout or     *)
(* revoke a session of one's own, and what requireRole leaves to an        *)
(* administrator.                                                          *)
OtherRoute(c) ==
    /\ At(c, "authorized")
    /\ Answer(c)
    /\ UNCHANGED <<user, lock, token>> /\ NoSessionChange

ChooseRevoke(c, s) ==
    /\ At(c, "authorized")
    /\ session[s].of = req[c].of
    /\ req' = [req EXCEPT ![c] = [NoRequest EXCEPT !.pc = "revoke", !.s = {s}]]
    /\ UNCHANGED <<user, lock, token>> /\ NoSessionChange

(* handleAdminCreateUser.                                                  *)
CreateUser(c, u, role) ==
    /\ At(c, "authorized") /\ req[c].by = "admin"
    /\ user[u].status = "absent"
    /\ user' = [user EXCEPT ![u] = [Absent EXCEPT !.status = "active", !.role = role]]
    /\ Answer(c)
    /\ UNCHANGED <<lock, token>> /\ NoSessionChange

-----------------------------------------------------------------------------
(* RevokeSession and RevokeAllSessions: the UPDATE, then the DEL of what   *)
(* it returned.  A validation that has read a session and is still to fill *)
(* the cache races its revocation.                                         *)
Racing(ss) == {s \in ss : \E d \in Requests : At(d, "fill") /\ req[d].s = {s}}

RevokeRows(c, ss) ==
    /\ session' = [s \in Sessions |->
                      IF s \in ss THEN [session[s] EXCEPT !.st = "revoked"] ELSE session[s]]
    /\ excused' = excused \cup Racing(ss)
    /\ IF ss = {} THEN Answer(c)
       ELSE req' = [req EXCEPT ![c] = [NoRequest EXCEPT !.pc = "del", !.keys = ss]]
    /\ UNCHANGED <<user, lock, cache, token>>

(* A session that was revoked already is answered at once.                 *)
Revoke(c) ==
    /\ At(c, "revoke")
    /\ RevokeRows(c, {s \in req[c].s : session[s].st = "live"})

(* Mutated form of RevokeAll: the one who asked keeps a session.           *)
RevokeAllButOne(c) ==
    /\ At(c, "revokeAll")
    /\ LET live == LiveOf(req[c].of) IN
       \E keep \in live \cup {Nobody} : RevokeRows(c, live \ {keep})

RevokeAll(c) ==
    /\ At(c, "revokeAll")
    /\ RevokeRows(c, LiveOf(req[c].of))

(* handleAdminRevokeSessions.                                              *)
AdminRevokeAll(c, u) ==
    /\ At(c, "authorized") /\ req[c].by = "admin"
    /\ RevokeRows(c, LiveOf(u))

(* Mutated form of DeleteKeys: the keys stay until they expire.            *)
DeleteNothing(c) ==
    /\ At(c, "del")
    /\ Answer(c)
    /\ UNCHANGED <<user, lock, session, cache, token, excused>>

(* The error of the DEL is ignored.                                        *)
DeleteKeys(c) ==
    /\ At(c, "del")
    /\ \/ /\ cache' = [s \in Sessions |-> IF s \in req[c].keys THEN "none" ELSE cache[s]]
          /\ UNCHANGED excused
       \/ /\ excused' = excused \cup req[c].keys
          /\ UNCHANGED cache
    /\ Answer(c)
    /\ UNCHANGED <<user, lock, session, token>>

-----------------------------------------------------------------------------
(* handleAdminUpdateUser.                                                  *)

LosesAdmin(was, to) == ActiveAdmin(was) /\ ~ActiveAdmin(to)

(* Mutated form of LockUser: SELECT without FOR UPDATE.                    *)
ReadUser(c, u, role, status) ==
    LET to == [user[u] EXCEPT !.role = role, !.status = status] IN
    /\ At(c, "authorized") /\ req[c].by = "admin"
    /\ user[u].status # "absent"
    /\ req' = [req EXCEPT ![c] = [NoRequest EXCEPT
                   !.pc = IF LosesAdmin(user[u], to) THEN "count" ELSE "write",
                   !.of = u, !.was = user[u], !.to = to]]
    /\ UNCHANGED <<user, lock, token>> /\ NoSessionChange

(* SELECT ... FOR UPDATE opens the transaction.                            *)
LockUser(c, u, role, status) ==
    LET to == [user[u] EXCEPT !.role = role, !.status = status] IN
    /\ At(c, "authorized") /\ req[c].by = "admin"
    /\ user[u].status # "absent"
    /\ lock[u] = Nobody
    /\ lock' = [lock EXCEPT ![u] = c]
    /\ req' = [req EXCEPT ![c] = [NoRequest EXCEPT
                   !.pc = IF LosesAdmin(user[u], to) THEN "count" ELSE "write",
                   !.of = u, !.was = user[u], !.to = to]]
    /\ UNCHANGED <<user, token>> /\ NoSessionChange

Unlock(c) == lock' = [u \in Users |-> IF lock[u] = c THEN Nobody ELSE lock[u]]

(* The count of the committed administrators; one or none is a conflict,   *)
(* and the transaction is rolled back.                                     *)
CountAdmins(c) ==
    /\ At(c, "count")
    /\ IF Cardinality(ActiveAdmins) <= 1
       THEN Answer(c) /\ Unlock(c)
       ELSE Goto(c, "write") /\ UNCHANGED lock
    /\ UNCHANGED <<user, token>> /\ NoSessionChange

(* The UPDATE, which nobody sees before the commit, and the commit.        *)
WriteUser(c) ==
    LET u == req[c].of IN
    /\ At(c, "write")
    /\ user' = [user EXCEPT ![u].role = req[c].to.role, ![u].status = req[c].to.status]
    /\ Unlock(c)
    /\ IF req[c].to.status = "suspended"
       THEN req' = [req EXCEPT ![c] = [NoRequest EXCEPT !.pc = "revokeAll", !.of = u]]
       ELSE Answer(c)
    /\ UNCHANGED token /\ NoSessionChange

-----------------------------------------------------------------------------
(* The client goes away, a statement fails or the API dies: a transaction  *)
(* is rolled back, what was written stays, and what was to be deleted from *)
(* the cache or revoked is not.                                            *)
Drop(c) ==
    /\ req[c] # NoRequest
    /\ Answer(c)
    /\ Unlock(c)
    /\ excused' = excused \cup req[c].keys
                    \cup (IF At(c, "revokeAll") THEN LiveOf(req[c].of) ELSE {})
    /\ UNCHANGED <<user, session, cache, token>>

(* Five minutes in Redis; SessionTTL; AuthTokenTTL.                        *)
CacheExpires(s) ==
    /\ cache[s] # "none"
    /\ cache' = [cache EXCEPT ![s] = "none"]
    /\ UNCHANGED <<user, lock, session, token, req, excused>>

SessionExpires(s) ==
    /\ session[s].st \in {"live", "revoked"} /\ ~session[s].expired
    /\ session' = [session EXCEPT ![s].expired = TRUE]
    /\ UNCHANGED <<user, lock, cache, token, req, excused>>

TokenExpires(t) ==
    /\ token[t].st = "fresh"
    /\ token' = [token EXCEPT ![t].st = "expired"]
    /\ UNCHANGED <<user, lock, session, cache, req, excused>>

(* HandleReapStale, step 7: thirty days after it expired nothing of a      *)
(* session is left in the cache or in a request.                           *)
ReapSession(s) ==
    /\ session[s].expired /\ session[s].st # "deleted"
    /\ cache[s] = "none"
    /\ \A c \in Requests : s \notin req[c].s \cup req[c].keys
    /\ session' = [session EXCEPT ![s].st = "deleted"]
    /\ UNCHANGED <<user, lock, cache, token, req, excused>>

-----------------------------------------------------------------------------
Arrive(c) ==
    \/ \E u \in Users : Register(c, u) \/ LoginRead(c, u)
    \/ \E u \in Mailed, purpose \in Purposes : AskToken(c, u, purpose)
    \/ \E t \in Tokens : ConsumeAuthToken(c, t)
    \/ \E s \in Sessions : Present(c, s)

Proceed(c) ==
    \/ \E t \in Tokens : IssueAuthToken(c, t)
    \/ Activate(c) \/ SetPassword(c)
    \/ \E s \in Sessions : \/ LoginCreate(c, s) \/ SelectSession(c, s)
                           \/ FillCache(c, s) \/ ChooseRevoke(c, s)
    \/ OtherRoute(c) \/ Revoke(c) \/ RevokeAll(c) \/ DeleteKeys(c)
    \/ \E u \in Targets :
           \/ AdminRevokeAll(c, u)
           \/ \E role \in Roles :
                  \/ CreateUser(c, u, role)
                  \/ \E status \in NewStatuses : LockUser(c, u, role, status)
    \/ CountAdmins(c) \/ WriteUser(c)

Next ==
    \/ \E c \in Requests : Arrive(c) \/ Proceed(c) \/ Drop(c)
    \/ \E s \in Sessions : CacheExpires(s) \/ SessionExpires(s) \/ ReapSession(s)
    \/ \E t \in Tokens : TokenExpires(t)

Spec == Init /\ [][Next]_vars

-----------------------------------------------------------------------------
(* Every row, cached identity and request's memory is of its type.         *)
TypeOK ==
    /\ user \in [Users -> User]
    /\ lock \in [Users -> Requests \cup {Nobody}]
    /\ session \in [Sessions -> Session]
    /\ cache \in [Sessions -> Roles \cup {"none"}]
    /\ token \in [Tokens -> Token]
    /\ req \in [Requests -> Request]
    /\ excused \subseteq Sessions

(* Revocation is immediate (auth.go, on the short cache): once the keys    *)
(* are deleted a revoked session is not served from the cache.  The code   *)
(* keeps this except for a validation that had read the session and fills  *)
(* the cache later, or a DEL that never happened.                          *)
RevocationIsImmediate ==
    \A s \in Sessions : session[s].st = "revoked" /\ cache[s] # "none" =>
        s \in excused \/ \E c \in Requests : s \in req[c].keys

(* Changing the password ends every session opened with an older one, save *)
(* for a login that had compared it already, or a reset cut off between    *)
(* its statements.                                                         *)
ResetEndsSessions ==
    \A s \in Sessions :
        session[s].st = "live" /\ session[s].opened < user[session[s].of].password =>
            \/ s \in excused
            \/ \E c \in Requests : At(c, "revokeAll") /\ req[c].of = session[s].of

(* What the transaction of an administrator read of its target is still in *)
(* the row when it decides and writes, although e-mails are verified,      *)
(* passwords reset and other administrators at work meanwhile.             *)
LockedRowHolds ==
    \A c \in Requests : req[c].pc \in {"count", "write"} => user[req[c].of] = req[c].was

(* Every change of a password was paid with a mailed token of its user,    *)
(* used once, however requests overlap or stop half way.                   *)
TokensSpentOnce ==
    \A u \in Users :
        user[u].password
            + Cardinality({c \in Requests : At(c, "setPassword") /\ req[c].of = u})
        <= Cardinality({t \in Tokens : token[t].of = u /\ token[t].st = "used"
                                       /\ token[t].purpose = "reset"})

(* What a session is entitled to by its row and its user's.                *)
Entitled(s) == IF session[s].st = "live" /\ ~session[s].expired
                  /\ user[session[s].of].status = "active"
               THEN user[session[s].of].role ELSE "none"

(* Neither the cache nor a validation past its SELECT gives s the role r.   *)
Gone(s, r) ==
    /\ cache[s] # r
    /\ \A c \in Requests : ~(At(c, "fill") /\ req[c].s = {s} /\ req[c].by = r)

(* A session that was revoked, has expired, or whose user was suspended or *)
(* demoted is served with the old role only by a cached identity, or by a  *)
(* validation past its SELECT, that was there before the change: once both *)
(* are gone, nothing brings the role back before it is given back.         *)
LostRoleStaysLost ==
    [][\A s \in Sessions, r \in Roles :
           Gone(s, r) /\ Entitled(s) # r /\ Entitled(s)' # r => Gone(s, r)']_vars

(* What handleAdminUpdateUser's comment says of its transaction: two       *)
(* administrators at once do not leave the platform without one.           *)
AnAdminRemains == ActiveAdmins # {}
=============================================================================
