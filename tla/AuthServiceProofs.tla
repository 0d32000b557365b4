-------------------------- MODULE AuthServiceProofs ----------------------------
(***************************************************************************)
(* Proofs about AuthService, for any number of accounts, sessions and      *)
(* requests, and any clock.                                                *)
(*                                                                         *)
(* What a request found when it read an account, or the clock, is used     *)
(* some steps later.  It is still good then because accounts are never     *)
(* changed, tokens are never given twice and the clock never goes back     *)
(* (OnlyForward): the invariant says so of every request in flight.        *)
(***************************************************************************)
EXTENDS AuthService, FiniteSetTheorems, TLAPS

Credentials(q) == [email |-> AddressOf(q), password |-> q.call.password]

\* What a request knows at each stage.
InOrder(q) ==
  /\ q.at # "idle" => q.call \in Call /\ q.arrived <= clock
  /\ q.now <= clock
  /\ q.at \in {"create user", "look up", "new session", "insert session"} =>
       q.call.op \in {"signup", "login"}
  /\ q.at = "delete session" => q.call.op = "logout" /\ q.call.token \in known
  /\ q.at \in {"clock", "get session"} =>
       q.call.op \in {"me", "route"} /\ q.call.token \in known /\ q.user = None
  /\ q.at = "get session" => q.arrived <= q.now
  /\ q.at \in {"new session", "insert session"} \/ q.token # None =>
       q.user \in User /\ users[q.user] = Credentials(q)
  /\ q.token # None => /\ q.at = "done" /\ q.call.op \in {"signup", "login"}
                       /\ q.token \in known
                       /\ sessions[q.token] # None => sessions[q.token].user = q.user

SessionsKnown == \A t \in Token : sessions[t] # None => t \in known

UniqueEmails ==
  \A u, v \in User : users[u] # None /\ users[v] # None /\ users[u].email = users[v].email => u = v

TokensApart == \A r, s \in Req : req[r].token # None /\ req[r].token = req[s].token => r = s

IInv ==
  /\ TypeOK
  /\ SessionsKnown
  /\ UniqueEmails
  /\ TokensApart
  /\ cleaner # None => cleaner <= clock
  /\ \A r \in Req : InOrder(req[r])

\* Accounts stay, a session stays as it is or ends, tokens and time only grow.
OnlyForward ==
  /\ \A u \in User : users[u] # None => users'[u] = users[u]
  /\ known \subseteq known'
  /\ \A t \in known : sessions'[t] = sessions[t] \/ sessions'[t] = None
  /\ clock <= clock'

--------------------------------------------------------------------------------
(***************************************************************************)
(* Steps only go forward.                                                  *)
(***************************************************************************)

\* What a call carries, by its operation.
LEMMA CallFields ==
  ASSUME NEW c \in Call
  PROVE  /\ c.op \in {"signup", "login", "logout", "me", "route"}
         /\ c.op \in {"signup", "login"} => c.address \in Address /\ c.password \in Password
         /\ c.op \in {"logout", "me", "route"} => c.token \in Token \cup {None}
  BY DEF Call

\* The row a signup inserts, and a login looks for, is a row of users.
LEMMA CredentialsType ==
  ASSUME NEW q, q.call \in Call, q.call.op \in {"signup", "login"}
  PROVE  /\ AddressOf(q) \in Email /\ Credentials(q) \in UserRow /\ Credentials(q) # None
         /\ Credentials(q).email = AddressOf(q)
  <1>1. AddressOf(q) \in Email /\ q.call.password \in Password
    BY CallFields, AuthServiceAssumption DEF AddressOf
  <1>2. Credentials(q) \in UserRow
    BY <1>1 DEF Credentials, UserRow
  <1>3. QED
    BY <1>1, <1>2, NoneIsNoAuthRow DEF Credentials

\* No step changes an account, prolongs a session or turns time back.
LEMMA StepGoesForward == IInv /\ [Next]_vars => OnlyForward
  <1> SUFFICES ASSUME IInv, [Next]_vars
               PROVE  OnlyForward
    OBVIOUS
  <1>1. /\ users \in [User -> UserRow \cup {None}]
        /\ sessions \in [Token -> SessionRow \cup {None}]
        /\ known \subseteq Token
        /\ clock \in Int
    BY DEF IInv, TypeOK, Time
  <1>2. CASE UNCHANGED <<tables, clock>>
    BY <1>1, <1>2 DEF tables, OnlyForward
  <1>3. ASSUME NEW r \in Req, CreateUser(r)
        PROVE  OnlyForward
    <2>1. users' = users \/ \E u \in User : \E row : users[u] = None /\ users' = [users EXCEPT ![u] = row]
      BY <1>3 DEF CreateUser
    <2>2. UNCHANGED <<sessions, known, clock>>
      BY <1>3 DEF CreateUser
    <2>3. QED
      BY <1>1, <2>1, <2>2 DEF OnlyForward
  <1>4. ASSUME NEW r \in Req, CreateSession(r)
        PROVE  OnlyForward
    <2>1. \E t \in Token \ known : \E row :
            known' = known \cup {t} /\ sessions' = [sessions EXCEPT ![t] = row]
      BY <1>4 DEF CreateSession
    <2>2. UNCHANGED <<users, clock>>
      BY <1>4 DEF CreateSession
    <2>3. QED
      BY <1>1, <2>1, <2>2 DEF OnlyForward
  <1>5. ASSUME NEW r \in Req, DeleteSession(r)
        PROVE  OnlyForward
    <2>1. \E t : sessions' = [sessions EXCEPT ![t] = None]
      BY <1>5 DEF DeleteSession
    <2>2. UNCHANGED <<users, known, clock>>
      BY <1>5 DEF DeleteSession
    <2>3. QED
      BY <1>1, <2>1, <2>2 DEF OnlyForward
  <1>6. CASE DeleteExpiredSessions
    BY <1>1, <1>6 DEF DeleteExpiredSessions, OnlyForward
  <1>7. CASE Tick
    BY <1>1, <1>7 DEF Tick, tables, OnlyForward
  <1>8. QED
    BY <1>2, <1>3, <1>4, <1>5, <1>6, <1>7
    DEF Next, Handle, Arrive, Fail, Leave, ReadClock, GetUserByEmail, GetSessionUser,
        CleanerReadsClock, CleanerFails, Restart, vars, tables

--------------------------------------------------------------------------------
(***************************************************************************)
(* Requests stay in order.                                                 *)
(***************************************************************************)

\* A request that does not move stays in order while others do.
LEMMA OthersInOrder ==
  ASSUME IInv, OnlyForward, clock' \in Time, NEW r \in Req, req'[r] = req[r]
  PROVE  InOrder(req[r])'
  <1> DEFINE q == req[r]
  <1>1. q \in Request /\ InOrder(q) /\ clock \in Time /\ clock <= clock'
    BY DEF IInv, TypeOK, OnlyForward
  <1>2. q.now \in Int /\ q.arrived \in Int /\ clock \in Int /\ clock' \in Int
    BY <1>1 DEF Request, Time
  <1>3. ASSUME q.at \in {"new session", "insert session"} \/ q.token # None
        PROVE  q.user \in User /\ users'[q.user] = Credentials(q)
    <2>1. q.call \in Call /\ q.call.op \in {"signup", "login"}
            /\ q.user \in User /\ users[q.user] = Credentials(q)
      BY <1>1, <1>3 DEF InOrder
    <2>2. QED
      BY <2>1, CredentialsType DEF OnlyForward
  <1>4. q.token # None => /\ q.token \in known'
                          /\ sessions'[q.token] # None => sessions'[q.token].user = q.user
    BY <1>1 DEF OnlyForward, InOrder
  <1>5. q.at \in {"delete session", "clock", "get session"} => q.call.token \in known'
    BY <1>1 DEF OnlyForward, InOrder
  <1>6. q.now <= clock' /\ (q.at # "idle" => q.call \in Call /\ q.arrived <= clock')
    <2>1. q.now <= clock /\ (q.at # "idle" => q.call \in Call /\ q.arrived <= clock)
      BY <1>1 DEF InOrder
    <2>2. clock <= clock'
      BY <1>1
    <2>3. \A i \in Int : i <= clock => i <= clock'
      BY <1>2, <2>2
    <2>4. QED
      BY <1>2, <2>1, <2>3
  <1>7. /\ q.at \in {"create user", "look up", "new session", "insert session"} =>
             q.call.op \in {"signup", "login"}
        /\ q.at = "delete session" => q.call.op = "logout"
        /\ q.at \in {"clock", "get session"} => q.call.op \in {"me", "route"} /\ q.user = None
        /\ q.at = "get session" => q.arrived <= q.now
        /\ q.token # None => q.at = "done" /\ q.call.op \in {"signup", "login"}
    BY <1>1 DEF InOrder
  <1>8. QED
    BY <1>3, <1>4, <1>5, <1>6, <1>7 DEF InOrder, Credentials, AddressOf

\* One request moves, to a record that is in order in the new state; a token it
\* carries then is new.
Moves(r) ==
  /\ req' \in [Req -> Request]
  /\ \A s \in Req : s # r => req'[s] = req[s]
  /\ InOrder(req[r])'
  /\ req'[r].token = None \/ req'[r].token \notin known

RequestsInOrder ==
  /\ req \in [Req -> Request]
  /\ TokensApart
  /\ \A r \in Req : InOrder(req[r])

\* Enough to look at the record a request moves to, and at its token.
LEMMA OneMoves ==
  ASSUME IInv, OnlyForward, clock' \in Time, NEW r \in Req, Moves(r)
  PROVE  RequestsInOrder'
  <1>1. \A s \in Req : req[s].token # None => req[s].token \in known
    BY DEF IInv, InOrder
  <1>2. TokensApart'
    BY <1>1 DEF Moves, IInv, TokensApart
  <1>3. ASSUME NEW s \in Req
        PROVE  InOrder(req[s])'
    <2>1. CASE s = r
      BY <2>1 DEF Moves
    <2>2. CASE s # r
      BY <2>2, OthersInOrder DEF Moves
    <2>3. QED
      BY <2>1, <2>2
  <1>4. QED
    BY <1>2, <1>3 DEF Moves, RequestsInOrder

\* Enough to say which record the request moves to.
LEMMA MovesTo ==
  ASSUME IInv, NEW r \in Req, NEW q \in Request, req' = [req EXCEPT ![r] = q]
  PROVE  /\ req' \in [Req -> Request] /\ req'[r] = q
         /\ \A s \in Req : s # r => req'[s] = req[s]
  BY DEF IInv, TypeOK

\* The clock is a number.
LEMMA ClockType == IInv => clock \in Time /\ clock \in Int /\ 0 <= clock /\ clock <= clock /\ 0 \in Time
  BY AuthServiceAssumption DEF IInv, TypeOK, Time

\* The instants a request remembers, and the expiry of a session, are numbers.
LEMMA Instants ==
  /\ \A q \in Request : q.arrived \in Nat /\ q.now \in Nat
  /\ \A s \in SessionRow : s.expires \in Nat
  <1>1. \A q \in Request : q.arrived \in Time /\ q.now \in Time
    BY DEF Request
  <1>2. \A i \in Time : i \in Nat
    BY DEF Time
  <1>3. \A s \in SessionRow : s.expires \in Nat
    BY DEF SessionRow
  <1>4. QED
    BY <1>1, <1>2, <1>3

\* An answer changes the stage and the status only.
LEMMA AnsweredFields ==
  ASSUME NEW q \in Request, NEW st \in Status
  PROVE  /\ Answered(q, st) \in Request
         /\ Answered(q, st).at = "done" /\ Answered(q, st).status = st
         /\ Answered(q, st).call = q.call /\ Answered(q, st).arrived = q.arrived
         /\ Answered(q, st).now = q.now /\ Answered(q, st).user = q.user
         /\ Answered(q, st).token = q.token
  BY DEF Answered, Request, Stage

\* A request that comes in is in order, and so is one turned down at once.
LEMMA ArriveMoves ==
  ASSUME IInv, NEW r \in Req, NEW c \in Call, Arrive(r, c)
  PROVE  Moves(r)
  <1> DEFINE q0 == [at |-> FirstStage(c), call |-> c, arrived |-> clock, now |-> 0, user |-> None,
                    token |-> None, status |-> None]
  <1>1. clock \in Time /\ 0 \in Time /\ 0 <= clock /\ clock <= clock
    BY ClockType
  <1>2. q0 \in Request
    BY <1>1 DEF Request, FirstStage, Stage
  <1>10. /\ q0.at = FirstStage(c) /\ q0.call = c /\ q0.arrived = clock /\ q0.now = 0
        /\ q0.user = None /\ q0.token = None
    OBVIOUS
  <1>3. PICK q : req' = [req EXCEPT ![r] = q]
                 /\ \/ q = q0 /\ ~NoCookie(c)
                    \/ q = Answered(q0, "refused")
                    \/ q = Answered(q0, WithoutSession(c.op))
    BY DEF Arrive
  <1>4. /\ q.call = c /\ q.arrived = clock /\ q.now = 0 /\ q.user = None /\ q.token = None
        /\ q.at = "done" \/ (q.at = FirstStage(c) /\ ~NoCookie(c))
        /\ q \in Request
    <2> HIDE DEF q0
    <2>1. "refused" \in Status /\ WithoutSession(c.op) \in Status
      BY DEF Status, WithoutSession
    <2>2. QED
      BY <1>2, <1>10, <1>3, <2>1, AnsweredFields
  <1>5. c.op \in {"signup", "login", "logout", "me", "route"}
    BY CallFields
  <1>6. c.op \in {"logout", "me", "route"} /\ ~NoCookie(c) => c.token \in known
    BY DEF Arrive, Presentable, NoCookie
  <1>7. UNCHANGED <<users, sessions, known, clock>>
    BY DEF Arrive, tables
  <1>8. req' \in [Req -> Request] /\ req'[r] = q /\ \A s \in Req : s # r => req'[s] = req[s]
    BY <1>3, <1>4, MovesTo
  <1>9. InOrder(req[r])'
    BY <1>1, <1>4, <1>5, <1>6, <1>7, <1>8 DEF InOrder, FirstStage
  <1>11. QED
    BY <1>4, <1>8, <1>9 DEF Moves

\* An answer that carries no token is in order.
LEMMA AnswerMoves ==
  ASSUME IInv, NEW r \in Req, req[r].at \notin {"idle", "done"}, NEW st \in Status,
         Answer(r, st), clock' = clock
  PROVE  Moves(r)
  <1>1. req[r] \in Request /\ InOrder(req[r])
    BY DEF IInv, TypeOK
  <1>2. PICK q : q = Answered(req[r], st)
    OBVIOUS
  <1>3. /\ q \in Request /\ q.at = "done" /\ q.call = req[r].call /\ q.arrived = req[r].arrived
        /\ q.now = req[r].now /\ q.token = req[r].token
    BY <1>1, <1>2, AnsweredFields
  <1>4. q.token = None
    BY <1>1, <1>3 DEF InOrder
  <1>5. req' \in [Req -> Request] /\ req'[r] = q /\ \A s \in Req : s # r => req'[s] = req[s]
    BY <1>2, <1>3, MovesTo DEF Answer
  <1>6. InOrder(req[r])'
    BY <1>1, <1>3, <1>4, <1>5 DEF InOrder
  <1>7. QED
    BY <1>4, <1>5, <1>6 DEF Moves

\* An idle request is in order.
LEMMA IdleInOrder == clock \in Time => Idle \in Request /\ Idle.token = None /\ InOrder(Idle)
  BY AuthServiceAssumption DEF Idle, Request, Stage, Time, InOrder

\* A failed call, and an answer that was delivered.
LEMMA FailLeaveMoves ==
  ASSUME IInv, NEW r \in Req, Fail(r) \/ Leave(r)
  PROVE  Moves(r)
  <1>1. CASE Fail(r)
    BY <1>1, AnswerMoves DEF Fail, OnFailure, WithoutSession, Status, Calling
  <1>2. CASE Leave(r)
    <2>1. clock \in Time /\ clock' = clock /\ req' = [req EXCEPT ![r] = Idle]
      BY <1>2 DEF Leave, IInv, TypeOK
    <2>2. Idle \in Request /\ Idle.token = None /\ InOrder(Idle)
      BY <2>1, IdleInOrder
    <2>3. req' \in [Req -> Request] /\ req'[r] = Idle /\ \A s \in Req : s # r => req'[s] = req[s]
      BY <2>1, <2>2, MovesTo
    <2>4. InOrder(req[r])'
      BY <2>1, <2>2, <2>3 DEF InOrder, Idle
    <2>5. QED
      BY <2>2, <2>3, <2>4 DEF Moves
  <1>3. QED
    BY <1>1, <1>2

\* Having read the clock, a request knows an instant between its arrival and now.
LEMMA ReadClockMoves ==
  ASSUME IInv, NEW r \in Req,
         \/ ReadClock(r, "new session", "insert session")
         \/ ReadClock(r, "clock", "get session")
  PROVE  Moves(r)
  <1>1. req[r] \in Request /\ InOrder(req[r]) /\ clock \in Time
    BY DEF IInv, TypeOK
  <1>2. PICK next : /\ \/ req[r].at = "new session" /\ next = "insert session"
                       \/ req[r].at = "clock" /\ next = "get session"
                    /\ req' = [req EXCEPT ![r].at = next, ![r].now = clock]
                    /\ UNCHANGED <<tables, clock>>
    BY DEF ReadClock
  <1>3. PICK q : q = [req[r] EXCEPT !.at = next, !.now = clock]
    OBVIOUS
  <1>4. /\ q \in Request /\ q.at = next /\ q.now = clock /\ q.call = req[r].call
        /\ q.arrived = req[r].arrived /\ q.user = req[r].user /\ q.token = req[r].token
    BY <1>1, <1>2, <1>3 DEF Request, Stage
  <1>5. req' = [req EXCEPT ![r] = q]
    BY <1>2, <1>3 DEF IInv, TypeOK
  <1>6. req' \in [Req -> Request] /\ req'[r] = q /\ \A s \in Req : s # r => req'[s] = req[s]
    BY <1>4, <1>5, MovesTo
  <1>7. clock <= clock
    BY ClockType
  <1>8. q.token = None
    BY <1>1, <1>2, <1>4 DEF InOrder
  <1>9. InOrder(req[r])'
    <2>1. q.call \in Call /\ q.arrived <= clock
      BY <1>1, <1>2, <1>4 DEF InOrder
    <2>2. CASE req[r].at = "new session" /\ next = "insert session"
      <3>1. /\ q.call.op \in {"signup", "login"} /\ q.user \in User
            /\ users[q.user] = Credentials(q)
        BY <1>1, <1>4, <2>2 DEF InOrder, Credentials, AddressOf
      <3>2. QED
        BY <1>2, <1>4, <1>6, <1>7, <1>8, <2>1, <2>2, <3>1
        DEF InOrder, tables, Credentials, AddressOf
    <2>3. CASE req[r].at = "clock" /\ next = "get session"
      <3>1. q.call.op \in {"me", "route"} /\ q.call.token \in known /\ q.user = None
        BY <1>1, <1>4, <2>3 DEF InOrder
      <3>2. q.arrived <= q.now /\ q.now <= clock' /\ q.arrived <= clock' /\ known' = known
        BY <1>2, <1>4, <1>7, <2>1 DEF tables
      <3>3. q.at = "get session"
        BY <1>4, <2>3
      <3>4. QED
        BY <1>6, <1>8, <2>1, <3>1, <3>2, <3>3 DEF InOrder
    <2>4. QED
      BY <1>2, <2>2, <2>3
  <1>10. QED
    BY <1>6, <1>8, <1>9 DEF Moves

\* The user a signup created, or a login found, has the credentials that were sent.
LEMMA AccountMoves ==
  ASSUME IInv, NEW r \in Req, CreateUser(r) \/ GetUserByEmail(r)
  PROVE  Moves(r)
  <1>1. /\ req[r] \in Request /\ InOrder(req[r]) /\ clock \in Time /\ clock' = clock
        /\ req[r].at \in {"create user", "look up"}
    BY DEF IInv, TypeOK, CreateUser, GetUserByEmail
  <1>2. req[r].call \in Call /\ req[r].call.op \in {"signup", "login"}
    BY <1>1 DEF InOrder
  <1>3. CASE \E st \in Status : Answer(r, st)
    BY <1>1, <1>3, AnswerMoves
  <1>4. CASE \E u \in User : /\ req' = [req EXCEPT ![r].at = "new session", ![r].user = u]
                             /\ users'[u] = Credentials(req[r])
    <2>1. PICK u \in User : /\ req' = [req EXCEPT ![r].at = "new session", ![r].user = u]
                           /\ users'[u] = Credentials(req[r])
      BY <1>4
    <2>2. PICK q : q = [req[r] EXCEPT !.at = "new session", !.user = u]
      OBVIOUS
    <2>3. /\ q \in Request /\ q.at = "new session" /\ q.user = u /\ q.call = req[r].call
          /\ q.arrived = req[r].arrived /\ q.now = req[r].now /\ q.token = req[r].token
      BY <1>1, <2>2 DEF Request, Stage
    <2>4. req' = [req EXCEPT ![r] = q]
      BY <2>1, <2>2 DEF IInv, TypeOK
    <2>5. req' \in [Req -> Request] /\ req'[r] = q /\ \A s \in Req : s # r => req'[s] = req[s]
      BY <2>3, <2>4, MovesTo
    <2>6. q.token = None
      BY <1>1, <2>3 DEF InOrder
    <2>7. InOrder(req[r])'
      BY <1>1, <1>2, <2>1, <2>3, <2>5, <2>6 DEF InOrder, Credentials, AddressOf
    <2>8. QED
      BY <2>5, <2>6, <2>7 DEF Moves
  <1>5. CASE CreateUser(r)
    <2>1. CASE Registered(AddressOf(req[r])) = {}
      <3>1. PICK u \in User : /\ users' = [users EXCEPT ![u] = Credentials(req[r])]
                             /\ req' = [req EXCEPT ![r].at = "new session", ![r].user = u]
        BY <1>5, <2>1 DEF CreateUser, Credentials
      <3>2. users'[u] = Credentials(req[r])
        BY <3>1 DEF IInv, TypeOK
      <3>3. QED
        BY <1>4, <3>1, <3>2
    <2>2. CASE Registered(AddressOf(req[r])) # {}
      BY <1>3, <1>5, <2>2 DEF CreateUser, Status
    <2>3. QED
      BY <2>1, <2>2
  <1>6. CASE GetUserByEmail(r)
    <2>1. CASE \E u \in Registered(AddressOf(req[r])) :
                  /\ users[u].password = req[r].call.password
                  /\ req' = [req EXCEPT ![r].at = "new session", ![r].user = u]
      <3>1. PICK u \in User : /\ users[u] \in UserRow
                             /\ users[u].email = AddressOf(req[r])
                             /\ users[u].password = req[r].call.password
                             /\ req' = [req EXCEPT ![r].at = "new session", ![r].user = u]
        BY <2>1 DEF Registered, IInv, TypeOK
      <3>2. users[u] = Credentials(req[r])
        BY <3>1 DEF UserRow, Credentials
      <3>3. users' = users
        BY <1>6 DEF GetUserByEmail, tables
      <3>4. QED
        BY <1>4, <3>1, <3>2, <3>3
    <2>2. QED
      BY <1>3, <1>6, <2>1 DEF GetUserByEmail, Status
  <1>7. QED
    BY <1>5, <1>6

\* The session a signup or a login inserts is that user's, under a new token.
LEMMA CreateSessionMoves ==
  ASSUME IInv, NEW r \in Req, CreateSession(r)
  PROVE  Moves(r)
  <1>1. /\ req[r] \in Request /\ InOrder(req[r]) /\ clock \in Time /\ clock' = clock
        /\ req[r].at = "insert session" /\ users' = users
    BY DEF IInv, TypeOK, CreateSession
  <1>2. /\ req[r].call \in Call /\ req[r].call.op \in {"signup", "login"}
        /\ req[r].user \in User /\ users[req[r].user] = Credentials(req[r])
    BY <1>1 DEF InOrder
  <1>3. PICK t \in Token \ known :
           /\ known' = known \cup {t}
           /\ sessions' = [sessions EXCEPT ![t] = [user |-> req[r].user,
                                                   expires |-> req[r].now + SessionTTL]]
           /\ req' = [req EXCEPT ![r] = [Answered(req[r], "ok") EXCEPT !.token = t]]
    BY DEF CreateSession
  <1>4. PICK q0 : q0 = Answered(req[r], "ok")
    OBVIOUS
  <1>5. /\ q0 \in Request /\ q0.at = "done" /\ q0.call = req[r].call
        /\ q0.arrived = req[r].arrived /\ q0.now = req[r].now /\ q0.user = req[r].user
    BY <1>1, <1>4, AnsweredFields DEF Status
  <1>6. PICK q : q = [q0 EXCEPT !.token = t]
    OBVIOUS
  <1>7. /\ q \in Request /\ q.at = "done" /\ q.call = req[r].call
        /\ q.arrived = req[r].arrived /\ q.now = req[r].now /\ q.user = req[r].user
        /\ q.token = t
    BY <1>5, <1>6 DEF Request
  <1>8. req' \in [Req -> Request] /\ req'[r] = q /\ \A s \in Req : s # r => req'[s] = req[s]
    BY <1>3, <1>4, <1>6, <1>7, MovesTo
  <1>9. sessions'[t] # None => sessions'[t].user = q.user
    BY <1>3, <1>7 DEF IInv, TypeOK
  <1>10. q.arrived <= clock /\ q.now <= clock
    BY <1>1, <1>7 DEF InOrder
  <1>11. InOrder(req[r])'
    <2>1. q.arrived <= clock' /\ q.now <= clock' /\ q.at = "done"
      BY <1>1, <1>7, <1>10
    <2>2. /\ q.call \in Call /\ q.call.op \in {"signup", "login"} /\ q.user \in User
          /\ users'[q.user] = Credentials(q)
      BY <1>1, <1>2, <1>7 DEF Credentials, AddressOf
    <2>3. q.token \in known' /\ (sessions'[q.token] # None => sessions'[q.token].user = q.user)
      BY <1>3, <1>7, <1>9
    <2>4. QED
      BY <1>8, <2>1, <2>2, <2>3 DEF InOrder, Credentials, AddressOf
  <1>12. QED
    BY <1>3, <1>7, <1>8, <1>11 DEF Moves

\* A request that is let in carries no token of its own.
LEMMA SessionMoves ==
  ASSUME IInv, NEW r \in Req, DeleteSession(r) \/ GetSessionUser(r)
  PROVE  Moves(r)
  <1>1. /\ req[r] \in Request /\ InOrder(req[r]) /\ clock' = clock
        /\ req[r].at \in {"delete session", "get session"}
    BY DEF IInv, TypeOK, DeleteSession, GetSessionUser, tables
  <1>2. CASE \E st \in Status : Answer(r, st)
    BY <1>1, <1>2, AnswerMoves
  <1>3. CASE GetSessionUser(r) /\ LiveAt(req[r].call.token, req[r].now)
    <2>1. PICK u : /\ u = sessions[req[r].call.token].user
                   /\ req' = [req EXCEPT ![r] = [Answered(req[r], "ok") EXCEPT !.user = u]]
      BY <1>3 DEF GetSessionUser
    <2>2. u \in User
      BY <1>1, <1>3, <2>1 DEF GetSessionUser, LiveAt, InOrder, IInv, TypeOK, SessionRow
    <2>3. PICK q0 : q0 = Answered(req[r], "ok")
      OBVIOUS
    <2>4. /\ q0 \in Request /\ q0.at = "done" /\ q0.call = req[r].call
          /\ q0.arrived = req[r].arrived /\ q0.now = req[r].now /\ q0.token = req[r].token
      BY <1>1, <2>3, AnsweredFields DEF Status
    <2>5. PICK q : q = [q0 EXCEPT !.user = u]
      OBVIOUS
    <2>6. /\ q \in Request /\ q.at = "done" /\ q.call = req[r].call
          /\ q.arrived = req[r].arrived /\ q.now = req[r].now /\ q.token = req[r].token
      BY <2>2, <2>4, <2>5 DEF Request
    <2>7. req' \in [Req -> Request] /\ req'[r] = q /\ \A s \in Req : s # r => req'[s] = req[s]
      BY <2>1, <2>3, <2>5, <2>6, MovesTo
    <2>8. q.token = None /\ q.call \in Call /\ q.arrived <= clock /\ q.now <= clock
      BY <1>1, <2>6 DEF InOrder
    <2>9. InOrder(req[r])'
      <3>1. q.arrived <= clock' /\ q.now <= clock' /\ q.at = "done"
        BY <1>1, <2>6, <2>8
      <3>2. QED
        BY <2>7, <2>8, <3>1 DEF InOrder
    <2>10. QED
      BY <2>7, <2>8, <2>9 DEF Moves
  <1>4. QED
    BY <1>2, <1>3 DEF DeleteSession, GetSessionUser, WithoutSession, Status

--------------------------------------------------------------------------------
(***************************************************************************)
(* The invariant.                                                          *)
(***************************************************************************)

\* The clock only ticks, within its bound.
LEMMA ClockStays == IInv /\ [Next]_vars => clock' \in Time
  <1> SUFFICES ASSUME IInv, [Next]_vars
               PROVE  clock' \in Time
    OBVIOUS
  <1>1. CASE clock' = clock
    BY <1>1 DEF IInv, TypeOK
  <1>2. CASE Tick
    BY <1>2, AuthServiceAssumption DEF IInv, TypeOK, Tick, Time
  <1>3. QED
    BY <1>1, <1>2
    DEF Next, Handle, Arrive, Fail, Leave, ReadClock, CreateUser, GetUserByEmail, CreateSession,
        DeleteSession, GetSessionUser, CleanerReadsClock, DeleteExpiredSessions, CleanerFails,
        Restart, vars

\* The records of all requests stay in order, and no two carry one token.
LEMMA RequestsStayInOrder == IInv /\ [Next]_vars => RequestsInOrder'
  <1> SUFFICES ASSUME IInv, [Next]_vars
               PROVE  RequestsInOrder'
    OBVIOUS
  <1>1. OnlyForward /\ clock' \in Time
    BY StepGoesForward, ClockStays
  <1>2. CASE \E r \in Req : Moves(r)
    BY <1>1, <1>2, OneMoves
  <1>3. CASE req' = req
    <2>1. \A r \in Req : InOrder(req[r])'
      BY <1>1, <1>3, OthersInOrder
    <2>2. QED
      BY <1>3, <2>1 DEF RequestsInOrder, IInv, TypeOK, TokensApart
  <1>4. CASE Restart
    <2>1. req' = [r \in Req |-> Idle] /\ clock' = clock
      BY <1>4 DEF Restart
    <2>2. Idle \in Request /\ Idle.token = None
      BY <1>1, <2>1, IdleInOrder
    <2>3. ASSUME NEW r \in Req
          PROVE  InOrder(req[r])'
      <3>1. req'[r] = Idle
        BY <2>1
      <3>2. 0 <= clock'
        BY <1>1, AuthServiceAssumption DEF Time
      <3>3. QED
        BY <3>1, <3>2 DEF InOrder, Idle
    <2>4. TokensApart'
      BY <2>1, <2>2 DEF TokensApart
    <2>5. QED
      BY <2>1, <2>2, <2>3, <2>4 DEF RequestsInOrder
  <1>5. ASSUME NEW r \in Req, NEW c \in Call, Arrive(r, c)
        PROVE  Moves(r)
    BY <1>5, ArriveMoves
  <1>6. ASSUME NEW r \in Req, Handle(r) \/ Fail(r) \/ Leave(r)
        PROVE  Moves(r)
    BY <1>6, AccountMoves, ReadClockMoves, CreateSessionMoves, SessionMoves, FailLeaveMoves
    DEF Handle
  <1>7. CASE UNCHANGED vars
    BY <1>3, <1>7 DEF vars
  <1>8. CASE CleanerReadsClock \/ DeleteExpiredSessions \/ CleanerFails \/ Tick
    BY <1>3, <1>8 DEF CleanerReadsClock, DeleteExpiredSessions, CleanerFails, Tick
  <1>9. QED
    BY <1>2, <1>4, <1>5, <1>6, <1>7, <1>8 DEF Next

\* The tables keep their types, sessions stay among the tokens that were given, and
\* an insert into users keeps the emails apart.
LEMMA TablesStayInOrder ==
  IInv /\ [Next]_vars =>
    /\ users' \in [User -> UserRow \cup {None}]
    /\ sessions' \in [Token -> SessionRow \cup {None}]
    /\ known' \subseteq Token
    /\ SessionsKnown' /\ UniqueEmails'
  <1> SUFFICES ASSUME IInv, [Next]_vars
               PROVE  /\ users' \in [User -> UserRow \cup {None}]
                      /\ sessions' \in [Token -> SessionRow \cup {None}]
                      /\ known' \subseteq Token
                      /\ SessionsKnown' /\ UniqueEmails'
    OBVIOUS
  <1>1. /\ users \in [User -> UserRow \cup {None}]
        /\ sessions \in [Token -> SessionRow \cup {None}]
        /\ known \subseteq Token
        /\ SessionsKnown /\ UniqueEmails
    BY DEF IInv, TypeOK
  <1>2. CASE UNCHANGED tables
    BY <1>1, <1>2 DEF tables, SessionsKnown, UniqueEmails
  <1>3. ASSUME NEW r \in Req, CreateUser(r), Registered(AddressOf(req[r])) = {}
        PROVE  /\ users' \in [User -> UserRow \cup {None}] /\ UniqueEmails'
               /\ UNCHANGED <<sessions, known>>
    <2>1. /\ Credentials(req[r]) \in UserRow /\ Credentials(req[r]) # None
          /\ Credentials(req[r]).email = AddressOf(req[r])
      BY <1>3, CredentialsType DEF CreateUser, IInv, InOrder
    <2>2. PICK u \in User : users' = [users EXCEPT ![u] = Credentials(req[r])]
      BY <1>3 DEF CreateUser, Credentials
    <2>3. \A v \in User : users[v] # None => users[v].email # AddressOf(req[r])
      BY <1>3 DEF Registered
    <2>4. UniqueEmails'
      BY <1>1, <2>1, <2>2, <2>3 DEF UniqueEmails
    <2>5. QED
      BY <1>1, <1>3, <2>1, <2>2, <2>4 DEF CreateUser
  <1>4. ASSUME NEW r \in Req, CreateSession(r)
        PROVE  /\ sessions' \in [Token -> SessionRow \cup {None}] /\ known' \subseteq Token
               /\ SessionsKnown' /\ users' = users
    <2>1. PICK t \in Token,
               row \in {[user |-> req[r].user, expires |-> req[r].now + SessionTTL]} :
             /\ known' = known \cup {t} /\ sessions' = [sessions EXCEPT ![t] = row]
      BY <1>4 DEF CreateSession
    <2>2. req[r].user \in User /\ req[r].now \in Nat
      <3>1. req[r] \in Request /\ InOrder(req[r]) /\ req[r].at = "insert session"
        BY <1>4 DEF CreateSession, IInv, TypeOK
      <3>2. QED
        BY <3>1, Instants DEF InOrder
    <2>3. row \in SessionRow
      BY <2>1, <2>2, AuthServiceAssumption DEF SessionRow
    <2>4. QED
      BY <1>1, <1>4, <2>1, <2>3 DEF CreateSession, SessionsKnown
  <1>5. ASSUME \E gone : sessions' = [t \in Token |-> IF t \in gone THEN None ELSE sessions[t]],
               UNCHANGED <<users, known>>
        PROVE  /\ sessions' \in [Token -> SessionRow \cup {None}]
               /\ SessionsKnown' /\ UniqueEmails'
    BY <1>1, <1>5 DEF SessionsKnown, UniqueEmails
  <1>6. ASSUME NEW r \in Req, DeleteSession(r)
        PROVE  /\ \E gone : sessions' = [t \in Token |-> IF t \in gone THEN None ELSE sessions[t]]
               /\ UNCHANGED <<users, known>>
    <2>1. sessions' = [t \in Token |-> IF t \in {req[r].call.token} THEN None ELSE sessions[t]]
      BY <1>1, <1>6 DEF DeleteSession
    <2>2. QED
      BY <1>6, <2>1 DEF DeleteSession
  <1>7. CASE DeleteExpiredSessions
    BY <1>1, <1>5, <1>7 DEF DeleteExpiredSessions
  <1>8. ASSUME NEW r \in Req, CreateUser(r), Registered(AddressOf(req[r])) # {}
        PROVE  UNCHANGED tables
    BY <1>8 DEF CreateUser, tables
  <1>9. ASSUME NEW r \in Req, Handle(r)
        PROVE  \/ UNCHANGED tables \/ CreateUser(r) \/ CreateSession(r) \/ DeleteSession(r)
    BY <1>9 DEF Handle, ReadClock, GetUserByEmail, GetSessionUser
  <1>10. ASSUME NEW r \in Req, CreateUser(r) \/ CreateSession(r) \/ DeleteSession(r)
         PROVE  /\ users' \in [User -> UserRow \cup {None}]
                /\ sessions' \in [Token -> SessionRow \cup {None}]
                /\ known' \subseteq Token
                /\ SessionsKnown' /\ UniqueEmails'
    <2>1. CASE CreateUser(r)
      BY <1>1, <1>2, <1>3, <1>8, <2>1 DEF SessionsKnown
    <2>2. CASE CreateSession(r)
      BY <1>1, <1>4, <2>2 DEF UniqueEmails
    <2>3. CASE DeleteSession(r)
      BY <1>1, <1>5, <1>6, <2>3
    <2>4. QED
      BY <1>10, <2>1, <2>2, <2>3
  <1>11. UNCHANGED tables \/ DeleteExpiredSessions \/ \E r \in Req : Handle(r)
    BY DEF Next, Arrive, Fail, Leave, CleanerReadsClock, CleanerFails, Tick, Restart, vars, tables
  <1>12. QED
    BY <1>1, <1>2, <1>5, <1>7, <1>9, <1>10, <1>11 DEF DeleteExpiredSessions

\* The invariant holds before the server has answered anything.
LEMMA InitInvariant == Init => IInv
  <1> SUFFICES ASSUME Init
               PROVE  IInv
    OBVIOUS
  <1>1. clock \in Time
    BY AuthServiceAssumption DEF Init, Time
  <1>2. Idle \in Request /\ Idle.token = None /\ InOrder(Idle)
    BY <1>1, IdleInOrder
  <1>3. TypeOK
    BY <1>1, <1>2 DEF Init, TypeOK
  <1>4. SessionsKnown /\ UniqueEmails
    BY DEF Init, SessionsKnown, UniqueEmails
  <1>5. TokensApart /\ \A r \in Req : InOrder(req[r])
    BY <1>2 DEF Init, TokensApart
  <1>6. QED
    BY <1>3, <1>4, <1>5 DEF Init, IInv

\* Every step keeps it.
LEMMA StepInvariant == IInv /\ [Next]_vars => IInv'
  <1> SUFFICES ASSUME IInv, [Next]_vars
               PROVE  IInv'
    OBVIOUS
  <1>1. OnlyForward /\ clock' \in Time /\ RequestsInOrder'
    BY StepGoesForward, ClockStays, RequestsStayInOrder
  <1>2. cleaner' = cleaner \/ cleaner' = None \/ cleaner' = clock
    BY DEF Next, Handle, Arrive, Fail, Leave, ReadClock, CreateUser, GetUserByEmail, CreateSession,
           DeleteSession, GetSessionUser, CleanerReadsClock, DeleteExpiredSessions, CleanerFails,
           Tick, Restart, vars
  <1>3. cleaner' \in Time \cup {None} /\ (cleaner' # None => cleaner' <= clock')
    <2>1. cleaner \in Time \cup {None} /\ (cleaner # None => cleaner <= clock) /\ clock \in Time
      BY DEF IInv, TypeOK
    <2>2. clock <= clock' /\ clock' \in Time
      BY <1>1 DEF OnlyForward
    <2>3. QED
      BY <1>2, <2>1, <2>2 DEF Time
  <1>4. TypeOK'
    BY <1>1, <1>3, TablesStayInOrder DEF TypeOK, RequestsInOrder
  <1>5. QED
    BY <1>1, <1>3, <1>4, TablesStayInOrder DEF IInv, RequestsInOrder

\* In every state of every behaviour.
THEOREM Invariant == Spec => []IInv
  BY InitInvariant, StepInvariant, PTL DEF Spec

--------------------------------------------------------------------------------
(***************************************************************************)
(* What follows from it.                                                   *)
(***************************************************************************)

\* The tables and the requests in flight have their types.
THEOREM TypeCorrect == Spec => []TypeOK
  <1>1. IInv => TypeOK
    BY DEF IInv
  <1>2. QED
    BY <1>1, Invariant, PTL

\* An email has at most one account, whatever signups race.
THEOREM EmailsStayUnique == Spec => []OneAccountPerEmail
  <1>1. ASSUME IInv
        PROVE  OneAccountPerEmail
    <2> SUFFICES ASSUME NEW e \in Email
                 PROVE  Cardinality(Registered(e)) <= 1
      BY DEF OneAccountPerEmail
    <2>1. \A u, v \in Registered(e) : u = v
      BY <1>1 DEF IInv, UniqueEmails, Registered
    <2>2. CASE Registered(e) = {}
      <3>1. Cardinality({}) = 0
        BY FS_EmptySet
      <3>2. QED
        BY <2>2, <3>1
    <2>3. CASE Registered(e) # {}
      <3>1. PICK u : Registered(e) = {u}
        BY <2>1, <2>3
      <3>2. Cardinality({u}) = 1
        BY FS_Singleton
      <3>3. QED
        BY <3>1, <3>2
    <2>4. QED
      BY <2>2, <2>3
  <1>2. QED
    BY <1>1, Invariant, PTL

\* A token belongs to the account whose email and password were sent for it.
THEOREM TokensAreTheirs == Spec => []TokensGoToTheirOwners
  <1>1. ASSUME IInv
        PROVE  TokensGoToTheirOwners
    BY <1>1 DEF IInv, InOrder, TokensApart, Credentials, TokensGoToTheirOwners
  <1>2. QED
    BY <1>1, Invariant, PTL

\* A session is never prolonged, handed over or brought back.
THEOREM SessionsStayFixed == Spec => SessionsAreFixed
  <1>1. IInv /\ [Next]_vars => [\A t \in known : sessions'[t] \in {sessions[t], None}]_vars
    BY StepGoesForward DEF OnlyForward
  <1>2. QED
    BY <1>1, Invariant, PTL DEF Spec, SessionsAreFixed

\* A session goes when it has expired, or at the logout that names it.
THEOREM SessionsEndRightly == Spec => SessionsEndForAReason
  <1>1. ASSUME IInv, [Next]_vars, NEW t \in Token, sessions[t] # None, sessions'[t] = None
        PROVE  \/ sessions[t].expires <= clock
               \/ \E r \in Req : /\ req[r].at = "delete session" /\ req[r].call.token = t
                                 /\ req'[r].at = "done"
    <2>1. /\ sessions \in [Token -> SessionRow \cup {None}] /\ req \in [Req -> Request]
          /\ sessions[t] \in SessionRow /\ clock \in Int
      BY <1>1, ClockType DEF IInv, TypeOK
    <2>2. CASE DeleteExpiredSessions
      <3>1. sessions[t].expires <= cleaner /\ cleaner # None
        BY <1>1, <2>2 DEF DeleteExpiredSessions, Expired
      <3>2. cleaner \in Int /\ cleaner <= clock /\ sessions[t].expires \in Int
        <4>1. sessions[t].expires \in Nat
          BY <2>1, Instants
        <4>2. cleaner \in Time /\ cleaner <= clock
          BY <1>1, <3>1 DEF IInv, TypeOK
        <4>3. QED
          BY <4>1, <4>2 DEF Time
      <3>3. sessions[t].expires <= clock
        BY <2>1, <3>1, <3>2
      <3>4. QED
        BY <3>3
    <2>3. ASSUME NEW r \in Req, DeleteSession(r)
          PROVE  req[r].at = "delete session" /\ req[r].call.token = t /\ req'[r].at = "done"
      <3>1. req[r].at = "delete session" /\ sessions' = [sessions EXCEPT ![req[r].call.token] = None]
        BY <2>3 DEF DeleteSession
      <3>2. req[r].call.token = t
        BY <1>1, <2>1, <3>1
      <3>3. req'[r] = Answered(req[r], "ok") /\ req[r] \in Request
        BY <2>1, <2>3 DEF DeleteSession, Answer
      <3>4. Answered(req[r], "ok").at = "done"
        BY <3>3, AnsweredFields DEF Status
      <3>5. QED
        BY <3>1, <3>2, <3>3, <3>4
    <2>4. ASSUME NEW r \in Req, CreateSession(r)
          PROVE  FALSE
      <3>1. PICK u \in Token,
                 row \in {[user |-> req[r].user, expires |-> req[r].now + SessionTTL]} :
               /\ u \notin known /\ sessions' = [sessions EXCEPT ![u] = row]
        BY <2>4 DEF CreateSession
      <3>2. t # u
        BY <1>1, <3>1 DEF IInv, SessionsKnown
      <3>3. QED
        BY <1>1, <2>1, <3>1, <3>2
    <2>5. \/ sessions' = sessions \/ DeleteExpiredSessions
          \/ \E r \in Req : DeleteSession(r) \/ CreateSession(r)
      BY <1>1 DEF Next, Handle, Arrive, Fail, Leave, ReadClock, CreateUser, GetUserByEmail,
                  GetSessionUser, CleanerReadsClock, CleanerFails, Tick, Restart, vars, tables
    <2>6. QED
      BY <1>1, <2>2, <2>3, <2>4, <2>5
  <1>2. IInv /\ [Next]_vars =>
          [\A t \in Token : sessions[t] # None /\ sessions'[t] = None =>
             \/ sessions[t].expires <= clock
             \/ \E r \in Req : /\ req[r].at = "delete session" /\ req[r].call.token = t
                               /\ req'[r].at = "done"]_vars
    BY <1>1
  <1>3. QED
    BY <1>2, Invariant, PTL DEF Spec, SessionsEndForAReason

\* Who gets in has a session of their own that outlives their arrival: the instant
\* the session is compared with was read after it.
THEOREM AdmittedRightly == Spec => AdmittedByLiveSession
  <1>1. ASSUME IInv, [Next]_vars, NEW r \in Req, req[r].at = "get session",
               req'[r].at = "done", req'[r].user # None
        PROVE  LET t == req[r].call.token
               IN  sessions[t].user = req'[r].user /\ sessions[t].expires > req[r].arrived
    <2> DEFINE t == req[r].call.token
    <2>1. /\ req \in [Req -> Request] /\ req[r] \in Request
          /\ t \in Token /\ req[r].user = None
          /\ req[r].arrived <= req[r].now /\ req[r].arrived \in Int /\ req[r].now \in Int
      <3>1. /\ req \in [Req -> Request] /\ req[r] \in Request /\ InOrder(req[r])
            /\ known \subseteq Token
        BY <1>1 DEF IInv, TypeOK
      <3>2. t \in Token /\ req[r].user = None /\ req[r].arrived <= req[r].now
        BY <1>1, <3>1 DEF InOrder
      <3>3. req[r].arrived \in Nat /\ req[r].now \in Nat
        BY <3>1, Instants
      <3>4. QED
        BY <3>1, <3>2, <3>3
    <2>2. ASSUME NEW st \in Status, Answer(r, st)
          PROVE  FALSE
      <3>1. req'[r] = Answered(req[r], st)
        BY <2>1, <2>2 DEF Answer
      <3>2. Answered(req[r], st).user = req[r].user
        BY <2>1, AnsweredFields
      <3>3. QED
        BY <1>1, <2>1, <3>1, <3>2
    <2>3. CASE LiveAt(t, req[r].now) /\ GetSessionUser(r)
      <3>1. req' = [req EXCEPT ![r] = [Answered(req[r], "ok") EXCEPT !.user = sessions[t].user]]
        BY <2>3 DEF GetSessionUser
      <3>2. Answered(req[r], "ok") \in Request
        BY <2>1, AnsweredFields DEF Status
      <3>3. req'[r].user = sessions[t].user
        BY <2>1, <3>1, <3>2 DEF Request
      <3>4. sessions[t].expires > req[r].now /\ sessions[t].expires \in Int
        <4>1. sessions[t] \in SessionRow
          BY <1>1, <2>1, <2>3 DEF LiveAt, IInv, TypeOK
        <4>2. QED
          BY <2>3, <4>1, Instants DEF LiveAt
      <3>5. sessions[t].expires > req[r].arrived
        BY <2>1, <3>4
      <3>6. QED
        BY <3>3, <3>5
    <2>4. CASE GetSessionUser(r) /\ ~LiveAt(t, req[r].now)
      BY <2>2, <2>4 DEF GetSessionUser, WithoutSession, Status
    <2>5. CASE Fail(r)
      BY <2>2, <2>5 DEF Fail, OnFailure, WithoutSession, Status
    <2>6. GetSessionUser(r) \/ Fail(r)
      <3>1. req'[r] # req[r]
        BY <1>1
      <3>2. CASE \E s \in Req : \E c \in Call : Arrive(s, c)
        BY <1>1, <2>1, <3>1, <3>2 DEF Arrive
      <3>3. CASE \E s \in Req : Handle(s) \/ Fail(s) \/ Leave(s)
        <4>1. PICK s \in Req : Handle(s) \/ Fail(s) \/ Leave(s)
          BY <3>3
        <4>2. \E x : req' = [req EXCEPT ![s] = x]
          BY <4>1 DEF Handle, Fail, Leave, ReadClock, CreateUser, GetUserByEmail, CreateSession,
                      DeleteSession, GetSessionUser, Answer
        <4>3. s = r
          BY <2>1, <3>1, <4>2
        <4>4. QED
          BY <1>1, <4>1, <4>3 DEF Handle, Leave, ReadClock, CreateUser, GetUserByEmail,
                                  CreateSession, DeleteSession
      <3>4. CASE Restart
        <4>1. req'[r].at = "idle"
          BY <3>4 DEF Restart, Idle
        <4>2. QED
          BY <1>1, <4>1
      <3>5. QED
        BY <1>1, <3>1, <3>2, <3>3, <3>4
        DEF Next, CleanerReadsClock, DeleteExpiredSessions, CleanerFails, Tick, vars
    <2>7. QED
      BY <2>3, <2>4, <2>5, <2>6
  <1>2. IInv /\ [Next]_vars =>
          [\A r \in Req : LET t == req[r].call.token IN
             /\ req[r].at = "get session"
             /\ req'[r].at = "done" /\ req'[r].user # None
             => /\ sessions[t].user = req'[r].user
                /\ sessions[t].expires > req[r].arrived]_vars
    BY <1>1
  <1>3. QED
    BY <1>2, Invariant, PTL DEF Spec, AdmittedByLiveSession
================================================================================
