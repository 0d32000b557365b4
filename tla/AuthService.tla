------------------------------ MODULE AuthService ------------------------------
(***************************************************************************)
(* Accounts and sessions: internal/auth/service.go, its SQLite adapter     *)
(* internal/repository/sqlite/user_repository.go, the handlers of          *)
(* internal/api/auth_handler.go, the RequireAuth middleware every deck and *)
(* card route sits behind, and the cleaner of cmd/server/main.go.          *)
(*                                                                         *)
(* Time matters here: the code reads its clock first and sends the         *)
(* statement that uses what it read afterwards, and the clock, a logout    *)
(* or the cleaner may move in between.  Reading the clock and each         *)
(* database call are steps of their own.                                   *)
(***************************************************************************)
EXTENDS Integers, FiniteSets

CONSTANTS
  User,         \* ids of accounts
  Address,      \* what people type as their email
  Email,        \* trimmed, lower-case emails
  Normal,       \* normalizeEmail: the Email an Address stands for
  Valid,        \* the Emails that are well-formed addresses
  Password,     \* passwords
  Allowed,      \* those of 8 to 72 bytes
  Token,        \* session tokens
  Req,          \* requests the server may have in flight at once
  None,         \* an absent row, cookie or user
  SessionTTL,   \* how long a session lives
  MaxClock,     \* bound of the clock
  AllowSignup,  \* configuration: are signups open
  Ops,          \* the operations the clients of this run call
  MayFail       \* whether a database call may fail for its own reasons

ASSUME AuthServiceAssumption ==
  /\ Normal \in [Address -> Email]
  /\ Valid \subseteq Email
  /\ Allowed \subseteq Password
  /\ SessionTTL \in Nat \ {0}
  /\ MaxClock \in Nat
  /\ AllowSignup \in BOOLEAN
  /\ MayFail \in BOOLEAN
  /\ None \notin User \cup Token

Time == 0 .. MaxClock

\* The hash of a password stands for the password: bcrypt tells any two of at most
\* 72 bytes apart.
UserRow == [email : Email, password : Password]

SessionRow == [user : User, expires : Nat]

ASSUME NoneIsNoAuthRow == None \notin UserRow /\ None \notin SessionRow

\* "route" is any route behind RequireAuth.
Call ==
       [op : {"signup", "login"}, address : Address, password : Password]
  \cup [op : {"logout", "me", "route"}, token : Token \cup {None}]

Stage == {"idle", "create user", "look up", "new session", "insert session",
          "delete session", "clock", "get session", "done"}

Status == {"ok", "refused", "taken", "unauthorized", "failed"}

Request ==
  [at : Stage, call : Call \cup {None}, arrived : Time, now : Time,
   user : User \cup {None}, token : Token \cup {None}, status : Status \cup {None}]

Idle == [at |-> "idle", call |-> None, arrived |-> 0, now |-> 0, user |-> None,
         token |-> None, status |-> None]

VARIABLES
  users,     \* table users
  sessions,  \* table sessions, by the token whose hash is the id
  known,     \* tokens that were ever given to a session
  req,       \* the requests in flight
  cleaner,   \* cleanupSessions: the instant it read before its DELETE
  clock

tables == <<users, sessions, known>>
vars == <<users, sessions, known, req, cleaner, clock>>

TypeOK ==
  /\ users \in [User -> UserRow \cup {None}]
  /\ sessions \in [Token -> SessionRow \cup {None}]
  /\ known \subseteq Token
  /\ req \in [Req -> Request]
  /\ cleaner \in Time \cup {None}
  /\ clock \in Time

Init ==
  /\ users = [u \in User |-> None]
  /\ sessions = [t \in Token |-> None]
  /\ known = {}
  /\ req = [r \in Req |-> Idle]
  /\ cleaner = None
  /\ clock = 0

(***************************************************************************)
(* The steps of a request that touch no table.                             *)
(***************************************************************************)
Answered(q, status) == [q EXCEPT !.at = "done", !.status = status]

Answer(r, status) == req' = [req EXCEPT ![r] = Answered(req[r], status)]

\* Turned down before any call of the database.
Refused(c) ==
  /\ c.op = "signup"
  /\ \/ ~AllowSignup
     \/ Normal[c.address] \notin Valid
     \/ c.password \notin Allowed

NoCookie(c) == c.op \in {"logout", "me", "route"} /\ c.token = None

\* The answer to a request that has no session to end, to show or to go in by.
WithoutSession(op) == IF op = "route" THEN "unauthorized" ELSE "ok"

FirstStage(c) ==
  CASE c.op = "signup" -> "create user"
    [] c.op = "login" -> "look up"
    [] c.op = "logout" -> "delete session"
    [] OTHER -> "clock"

\* A client presents a token it was given at some time, or no cookie at all.
Presentable(c) == c.op \in {"logout", "me", "route"} => c.token \in known \cup {None}

Arrive(r, c) ==
  /\ req[r].at = "idle"
  /\ Presentable(c)
  /\ LET q == [at |-> FirstStage(c), call |-> c, arrived |-> clock, now |-> 0, user |-> None,
               token |-> None, status |-> None]
     IN \/ /\ ~Refused(c) /\ ~NoCookie(c)
           /\ req' = [req EXCEPT ![r] = q]
        \/ /\ Refused(c)
           /\ req' = [req EXCEPT ![r] = Answered(q, "refused")]
        \/ /\ NoCookie(c)
           /\ req' = [req EXCEPT ![r] = Answered(q, WithoutSession(c.op))]
  /\ UNCHANGED <<tables, cleaner, clock>>

Leave(r) ==
  /\ req[r].at = "done"
  /\ req' = [req EXCEPT ![r] = Idle]
  /\ UNCHANGED <<tables, cleaner, clock>>

\* What a failed database call is answered with.  The logout handler drops the
\* error; the middleware and Me take every error for "no such session".
OnFailure(op) == IF op \in {"signup", "login"} THEN "failed" ELSE WithoutSession(op)

Calling == {"create user", "look up", "insert session", "delete session", "get session"}

Fail(r) ==
  /\ MayFail
  /\ req[r].at \in Calling
  /\ Answer(r, OnFailure(req[r].call.op))
  /\ UNCHANGED <<tables, cleaner, clock>>

\* s.now(), in createSession and in Authenticate.
ReadClock(r, stage, next) ==
  /\ req[r].at = stage
  /\ req' = [req EXCEPT ![r].at = next, ![r].now = clock]
  /\ UNCHANGED <<tables, cleaner, clock>>

(***************************************************************************)
(* Database calls.                                                         *)
(***************************************************************************)
\* (with a bug: the email is used as it was typed)
TypedAddress(q) == q.call.address

AddressOf(q) == Normal[q.call.address]

Registered(email) == {u \in User : users[u] # None /\ users[u].email = email}

\* (with a bug: the email is not UNIQUE)
CreateAnyUser(r) ==
  LET q == req[r]
  IN /\ q.at = "create user"
     /\ \E u \in User :
          /\ users[u] = None
          /\ users' = [users EXCEPT ![u] = [email |-> AddressOf(q), password |-> q.call.password]]
          /\ req' = [req EXCEPT ![r].at = "new session", ![r].user = u]
     /\ UNCHANGED <<sessions, known, cleaner, clock>>

\* INSERT INTO users; the email is UNIQUE.
CreateUser(r) ==
  LET q == req[r]
  IN /\ q.at = "create user"
     /\ IF Registered(AddressOf(q)) = {}
        THEN \E u \in User :
               /\ users[u] = None
               /\ users' = [users EXCEPT ![u] = [email |-> AddressOf(q),
                                                 password |-> q.call.password]]
               /\ req' = [req EXCEPT ![r].at = "new session", ![r].user = u]
        ELSE /\ Answer(r, "taken")
             /\ UNCHANGED users
     /\ UNCHANGED <<sessions, known, cleaner, clock>>

\* (with a bug: the dummy hash is compared, its result forgotten)
GetUserOnly(r) ==
  LET q == req[r]
  IN /\ q.at = "look up"
     /\ \E u \in Registered(AddressOf(q)) :
          req' = [req EXCEPT ![r].at = "new session", ![r].user = u]
     /\ UNCHANGED <<tables, cleaner, clock>>

\* SELECT ... FROM users WHERE email = ?, and the comparison of the passwords.
GetUserByEmail(r) ==
  LET q == req[r]
      found == {u \in Registered(AddressOf(q)) : users[u].password = q.call.password}
  IN /\ q.at = "look up"
     /\ \/ \E u \in found : req' = [req EXCEPT ![r].at = "new session", ![r].user = u]
        \/ /\ found = {}
           /\ Answer(r, "unauthorized")
     /\ UNCHANGED <<tables, cleaner, clock>>

\* (with a bug: the token is one that was already given)
ReuseSession(r) ==
  LET q == req[r]
  IN /\ q.at = "insert session"
     /\ \E t \in Token :
          /\ known' = known \cup {t}
          /\ sessions' = [sessions EXCEPT ![t] = [user |-> q.user, expires |-> q.now + SessionTTL]]
          /\ req' = [req EXCEPT ![r] = [Answered(q, "ok") EXCEPT !.token = t]]
     /\ UNCHANGED <<users, cleaner, clock>>

\* INSERT INTO sessions, under a token nobody had before.
CreateSession(r) ==
  LET q == req[r]
  IN /\ q.at = "insert session"
     /\ \E t \in Token \ known :
          /\ known' = known \cup {t}
          /\ sessions' = [sessions EXCEPT ![t] = [user |-> q.user,
                                                  expires |-> q.now + SessionTTL]]
          /\ req' = [req EXCEPT ![r] = [Answered(q, "ok") EXCEPT !.token = t]]
     /\ UNCHANGED <<users, cleaner, clock>>

\* DELETE FROM sessions WHERE id = ?; no row is no error.
DeleteSession(r) ==
  LET q == req[r]
  IN /\ q.at = "delete session"
     /\ sessions' = [sessions EXCEPT ![q.call.token] = None]
     /\ Answer(r, "ok")
     /\ UNCHANGED <<users, known, cleaner, clock>>

\* (with a bug: the instant of expiry still counts)
LiveAtExpiry(t, now) == sessions[t] # None /\ sessions[t].expires >= now

LiveAt(t, now) == sessions[t] # None /\ sessions[t].expires > now

\* SELECT ... FROM sessions JOIN users WHERE id = ? AND expires_at > ?
GetSessionUser(r) ==
  LET q == req[r]
      t == q.call.token
  IN /\ q.at = "get session"
     /\ IF LiveAt(t, q.now)
        THEN req' = [req EXCEPT ![r] = [Answered(q, "ok") EXCEPT !.user = sessions[t].user]]
        ELSE Answer(r, WithoutSession(q.call.op))
     /\ UNCHANGED <<tables, cleaner, clock>>

(***************************************************************************)
(* The cleaner: at startup and then hourly.  How long it waits is left     *)
(* open.                                                                   *)
(***************************************************************************)

\* (with a bug: the instant is read once, when the process starts)
CleanerStartsOnly ==
  /\ cleaner = None
  /\ cleaner' = 0
  /\ UNCHANGED <<tables, req, clock>>

CleanerReadsClock ==
  /\ cleaner = None
  /\ cleaner' = clock
  /\ UNCHANGED <<tables, req, clock>>

\* (with a bug: what expires next goes already)
ExpiredSoon(now) == {t \in Token : sessions[t] # None /\ sessions[t].expires <= now + 1}

Expired(now) == {t \in Token : sessions[t] # None /\ sessions[t].expires <= now}

\* DELETE FROM sessions WHERE expires_at <= ?
DeleteExpiredSessions ==
  /\ cleaner # None
  /\ sessions' = [t \in Token |-> IF t \in Expired(cleaner) THEN None ELSE sessions[t]]
  /\ cleaner' = None
  /\ UNCHANGED <<users, known, req, clock>>

\* The DELETE fails: logged, and tried again at the next tick.
CleanerFails ==
  /\ MayFail
  /\ cleaner # None
  /\ cleaner' = None
  /\ UNCHANGED <<tables, req, clock>>

Tick ==
  /\ clock < MaxClock
  /\ clock' = clock + 1
  /\ UNCHANGED <<tables, req, cleaner>>

Restart ==
  /\ MayFail
  /\ req' = [r \in Req |-> Idle]
  /\ cleaner' = None
  /\ UNCHANGED <<tables, clock>>

Handle(r) ==
  \/ CreateUser(r) \/ GetUserByEmail(r)
  \/ ReadClock(r, "new session", "insert session") \/ CreateSession(r)
  \/ DeleteSession(r)
  \/ ReadClock(r, "clock", "get session") \/ GetSessionUser(r)

Next ==
  \/ \E r \in Req : \E c \in {k \in Call : k.op \in Ops} : Arrive(r, c)
  \/ \E r \in Req : Handle(r) \/ Fail(r) \/ Leave(r)
  \/ CleanerReadsClock \/ DeleteExpiredSessions \/ CleanerFails
  \/ Tick \/ Restart

Spec == Init /\ [][Next]_vars

\* The ticker fires for ever (main.go:88, 99), and a database that answers now and
\* then lets a DELETE through now and then.
Fairness == WF_vars(CleanerReadsClock) /\ SF_vars(DeleteExpiredSessions)

FairSpec == Spec /\ Fairness

(***************************************************************************)
(* Properties.                                                             *)
(***************************************************************************)

\* However two signups for one address race, and however it is spelled, one account
\* holds it, so a login finds at most one (service.go Signup, normalizeEmail).
OneAccountPerEmail == \A e \in Email : Cardinality(Registered(e)) <= 1

\* A token handed out by a signup or a login opens the account whose email and
\* password were sent, and no other answer carries it: the account was looked up
\* two steps before the session is inserted (service.go Signup, Login).
TokensGoToTheirOwners ==
  \A r \in Req : LET q == req[r] IN q.token # None =>
    /\ users[q.user] = [email |-> AddressOf(q), password |-> q.call.password]
    /\ sessions[q.token] # None => sessions[q.token].user = q.user
    /\ \A s \in Req : req[s].token = q.token => s = r

\* Nobody is let in by a session that had run out when the request came, or by
\* someone else's (auth_middleware.go RequireAuth, service.go Authenticate).
AdmittedByLiveSession ==
  [][\A r \in Req : LET t == req[r].call.token IN
       /\ req[r].at = "get session"
       /\ req'[r].at = "done" /\ req'[r].user # None
       => /\ sessions[t].user = req'[r].user
          /\ sessions[t].expires > req[r].arrived]_vars

\* A session ends when its time is over or when it is logged out, never because the
\* cleaner ran at the wrong moment (service.go:131-133, main.go cleanupSessions).
SessionsEndForAReason ==
  [][\A t \in Token : sessions[t] # None /\ sessions'[t] = None =>
       \/ sessions[t].expires <= clock
       \/ \E r \in Req : /\ req[r].at = "delete session" /\ req[r].call.token = t
                         /\ req'[r].at = "done"]_vars

\* A session that ended stays ended and one that lives is never prolonged or handed
\* over (service.go createSession; "never persisted" tokens are not used twice).
SessionsAreFixed ==
  [][\A t \in known : sessions'[t] \in {sessions[t], None}]_vars

\* The table of sessions does not grow for ever: what has expired goes
\* (service.go:133, main.go:85-86).
ExpiredSessionsGo ==
  \A t \in Token : (sessions[t] # None /\ sessions[t].expires <= clock) ~> (sessions[t] = None)
================================================================================
