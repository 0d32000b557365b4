----------------------------- MODULE HomePageProofs -----------------------------
(***************************************************************************)
(* Proofs about HomePage, for any users, sessions, decks and decklists and *)
(* any number of requests under way: the page asks for nothing in the name *)
(* of another than the user it shows, its list is the server's, and an     *)
(* import has the art that was picked.                                     *)
(*                                                                         *)
(* The user shown and the cookie change by the answers to me and login,    *)
(* which come some steps after the questions.  So the invariant is about   *)
(* the answers under way: that of me is the user of the cookie, which      *)
(* nothing changes while it is awaited, that of login a session of the     *)
(* user who logs in, whose cookie the browser has before the page hears of *)
(* it and at most a logout takes, and nobody is shown before they come.    *)
(*                                                                         *)
(* The list and the import, in the second half, rest on this: what a page  *)
(* has asked for is of the user shown.                                     *)
(***************************************************************************)
EXTENDS HomePage, TLAPS

SessionOps == {"me", "login", "logout"}

Args ==
  User \cup Deck \cup Text \cup {None}
  \cup [text : Text, art : Seq(Image), meant : [Card -> Image] \cup {None}]

Answers == {None} \cup User \cup Token \cup Deck \cup (SUBSET Deck) \cup (SUBSET Card)

\* What a message is made of.
LEMMA MessageParts ==
  ASSUME NEW m \in Message
  PROVE  /\ m = [op |-> m.op, to |-> m.to, token |-> m.token, arg |-> m.arg, state |-> m.state,
                 answer |-> m.answer]
         /\ m.op \in Operations /\ m.to \in {"app", "page", "dialog", "nobody"}
         /\ m.token \in Token \cup {None} /\ m.arg \in Args
         /\ m.state \in {"sent", "ok", "taken", "refused"} /\ m.answer \in Answers
         /\ m # None
BY NoneIsNoRecord DEF Message, Args, Answers

\* And a message is made of them.
LEMMA PartsOfMessage ==
  ASSUME NEW op \in Operations, NEW to \in {"app", "page", "dialog", "nobody"},
         NEW token \in Token \cup {None}, NEW arg \in Args,
         NEW state \in {"sent", "ok", "taken", "refused"}, NEW answer \in Answers
  PROVE  [op |-> op, to |-> to, token |-> token, arg |-> arg, state |-> state,
          answer |-> answer] \in Message
BY DEF Message, Args, Answers

\* A request, and who may be waiting for it if it is about the session.
IsMessage(m) ==
  /\ m = [op |-> m.op, to |-> m.to, token |-> m.token, arg |-> m.arg, state |-> m.state,
          answer |-> m.answer]
  /\ m.op \in SessionOps => m.to \in {"app", "nobody"} /\ m \in Message

WireOK ==
  /\ wire = [c \in Conn |-> wire[c]]
  /\ \A c \in Conn : wire[c] # None => IsMessage(wire[c])

TokensOK ==
  /\ holder \in [Token -> User \cup {None}] /\ live \subseteq Token
  /\ jar \in Token \cup {None} /\ crossed \in BOOLEAN

\* The app waits for the answer to one of ops.
Awaits(m, ops) == m # None /\ m.to = "app" /\ m.op \in ops

\* It asks who its user is once at a time, and not while a logout is under way.
AsksOnce ==
  \A c, d \in Conn :
    /\ Awaits(wire[c], {"me", "login"}) /\ Awaits(wire[d], {"me", "login"}) => c = d
    /\ ~(Awaits(wire[c], {"me"}) /\ Awaits(wire[d], {"logout"}))

MeFits(m) ==
  Awaits(m, {"me"}) =>
    /\ user = None /\ m.token = jar
    /\ m.state = "ok" /\ m.answer # None => jar # None /\ holder[jar] = m.answer

LoginFits(m) ==
  m # None /\ m.op = "login" =>
    /\ m.arg \in User
    /\ m.state \in {"ok", "taken"} => m.answer \in Token /\ holder[m.answer] = m.arg
    /\ m.to = "app" => user = None
    /\ m.to = "app" /\ m.state = "taken" => (jar = None => crossed) /\ jar \in {m.answer, None}

LogoutFits(m) ==
  m # None /\ m.op = "logout" /\ m.state \in {"ok", "taken"} =>
    m.answer = None /\ (m.state = "taken" => m.to = "app")

IInv ==
  /\ WireOK
  /\ TokensOK
  /\ AsksOnce
  /\ \A c \in Conn : MeFits(wire[c]) /\ LoginFits(wire[c]) /\ LogoutFits(wire[c])
  /\ ActsForTheUserShown

\* A request about the session is an earlier one.
Kept(old, new) ==
  new # None /\ new.op \in SessionOps =>
    /\ old # None /\ new.op = old.op /\ new.token = old.token /\ new.arg = old.arg
    /\ new.state = old.state /\ new.answer = old.answer /\ new.to = old.to

\* A logout whose answer is being read goes on being so.
LogoutsStay == \A c \in Conn : Taken(c, "logout") => Taken(c, "logout")'

(***************************************************************************)
(* What the steps do to the requests under way.                            *)
(***************************************************************************)

\* A request that is sent is one.
LEMMA RequestIsMessage ==
  ASSUME NEW op, NEW to, NEW token, NEW arg,
         op \in SessionOps => /\ to \in {"app", "nobody"}
                             /\ token \in Token \cup {None} /\ arg \in User \cup {None}
  PROVE  /\ IsMessage(Request(op, to, token, arg))
         /\ Request(op, to, token, arg).op = op /\ Request(op, to, token, arg).to = to
         /\ Request(op, to, token, arg).token = token /\ Request(op, to, token, arg).arg = arg
         /\ Request(op, to, token, arg).state = "sent"
<1> DEFINE m == Request(op, to, token, arg)
<1>1. m = [op |-> op, to |-> to, token |-> token, arg |-> arg, state |-> "sent", answer |-> None]
  BY DEF Request
<1>2. op \in SessionOps => m \in Message
  <2> SUFFICES ASSUME op \in SessionOps PROVE m \in Message
    OBVIOUS
  <2>1. op \in Operations /\ arg \in Args /\ None \in Answers
    BY DEF Args, Answers, SessionOps, Operations
  <2> QED
    BY <1>1, <2>1, PartsOfMessage
<1> QED
  BY <1>1, <1>2 DEF IsMessage

\* A request about the session is nobody's orphan: the app goes on waiting for it.
LEMMA Orphaned ==
  ASSUME NEW m, m # None => IsMessage(m), Orphan(m) # None
  PROVE  m # None /\ IsMessage(Orphan(m)) /\ Kept(m, Orphan(m))
<1>1. m # None
  BY DEF Orphan
<1>2. CASE m.to \in {"app", "nobody"}
  <2>1. Orphan(m) = m
    BY <1>1, <1>2 DEF Orphan
  <2> QED
    BY <1>1, <2>1 DEF Kept
<1>3. CASE m.to \notin {"app", "nobody"}
  <2>1. Orphan(m) = [m EXCEPT !.to = "app"]
    BY <1>1, <1>3 DEF Orphan
  <2>2. m.op \notin SessionOps
    BY <1>1, <1>3 DEF IsMessage
  <2> QED
    BY <1>1, <2>1, <2>2 DEF IsMessage, Kept
<1> QED
  BY <1>2, <1>3

\* The app shows a page, or the login page, and drops what the last one waited for.
LEMMA Shown ==
  ASSUME NEW u, NEW r, NEW rest, rest = [c \in Conn |-> rest[c]],
         \A c \in Conn : rest[c] # None => IsMessage(rest[c]),
         Show(u, r, rest)
  PROVE  /\ user' = u /\ WireOK' /\ \A c \in Conn : Kept(rest[c], wire'[c])
         /\ \A c \in Conn : rest[c] # None /\ rest[c].op \in SessionOps => wire'[c] = rest[c]
<1> DEFINE left == [c \in Conn |-> Orphan(rest[c])]
           load == Request(IF r = "home" THEN "list" ELSE "get", "page", jar', None)
<1>1. user' = u /\ (IF u = None THEN wire' = left
                    ELSE \E c \in Conn : left[c] = None /\ wire' = [left EXCEPT ![c] = load])
  BY DEF Show
<1>2. \A c \in Conn : left[c] # None => IsMessage(left[c]) /\ Kept(rest[c], left[c])
  BY Orphaned
<1>3. IsMessage(load) /\ load.op \notin SessionOps
  BY RequestIsMessage DEF SessionOps
<1> HIDE DEF load
<1>4. \A c \in Conn : wire'[c] = left[c] \/ (wire'[c] = load /\ left[c] = None)
  BY <1>1
<1>8. \A c \in Conn : rest[c] # None /\ rest[c].op \in SessionOps => left[c] = rest[c]
  BY DEF IsMessage, Orphan
<1>5. wire' = [c \in Conn |-> wire'[c]]
  BY <1>1
<1> HIDE DEF left
<1>6. \A c \in Conn : Kept(rest[c], wire'[c])
  BY <1>2, <1>3, <1>4 DEF Kept
<1>7. WireOK'
  BY <1>2, <1>3, <1>4, <1>5 DEF WireOK
<1> QED
  BY <1>1, <1>4, <1>6, <1>7, <1>8

\* What is left when an answer has been heard or lost.
LEMMA RestOfWire ==
  ASSUME WireOK, NEW c \in Conn
  PROVE  /\ Rest(c) = [d \in Conn |-> Rest(c)[d]]
         /\ Rest(c)[c] = None
         /\ \A d \in Conn : d # c => Rest(c)[d] = wire[d]
         /\ \A d \in Conn : Rest(c)[d] # None => IsMessage(Rest(c)[d])
         /\ \A d \in Conn : Kept(wire[d], Rest(c)[d])
<1>1. /\ Rest(c) = [d \in Conn |-> Rest(c)[d]] /\ Rest(c)[c] = None
      /\ \A d \in Conn : d # c => Rest(c)[d] = wire[d]
  BY DEF Rest, WireOK
<1> QED
  BY <1>1 DEF WireOK, Kept

\* Nothing is sent about the session.
LEMMA OthersSent ==
  ASSUME WireOK, NEW op, NEW to, NEW arg, op \notin SessionOps, Send(op, to, arg)
  PROVE  WireOK' /\ LogoutsStay /\ \A c \in Conn : Kept(wire[c], wire'[c])
<1>1. PICK c \in Conn : wire[c] = None /\ wire' = [wire EXCEPT ![c] = Request(op, to, jar, arg)]
  BY DEF Send
<1>2. IsMessage(Request(op, to, jar, arg)) /\ Request(op, to, jar, arg).op = op
  BY RequestIsMessage
<1>3. /\ wire' = [d \in Conn |-> wire'[d]]
      /\ wire'[c] = Request(op, to, jar, arg)
      /\ \A d \in Conn \ {c} : wire'[d] = wire[d]
  BY <1>1 DEF WireOK
<1>4. LogoutsStay
  BY <1>1, <1>3 DEF LogoutsStay, Taken
<1> QED
  BY <1>2, <1>3, <1>4 DEF WireOK, Kept

\* The server has carried out the request on c.
LEMMA Answered ==
  ASSUME WireOK, NEW c \in Conn, wire[c] # None, NEW state, NEW answer, Answer(c, state, answer),
         wire[c].op \in SessionOps => state = "ok" /\ answer \in {None} \cup User \cup Token
  PROVE  /\ WireOK'
         /\ \A d \in Conn \ {c} : wire'[d] = wire[d]
         /\ wire'[c].op = wire[c].op /\ wire'[c].to = wire[c].to
         /\ wire'[c].token = wire[c].token /\ wire'[c].arg = wire[c].arg
         /\ wire'[c].state = state /\ wire'[c].answer = answer
<1>1. /\ wire' = [d \in Conn |-> wire'[d]]
      /\ wire'[c] = [wire[c] EXCEPT !.state = state, !.answer = answer]
      /\ \A d \in Conn \ {c} : wire'[d] = wire[d]
  BY DEF Answer, WireOK
<1>2. IsMessage(wire[c])
  BY DEF WireOK
<1>3. wire'[c] = [op |-> wire[c].op, to |-> wire[c].to, token |-> wire[c].token,
                  arg |-> wire[c].arg, state |-> state, answer |-> answer]
  BY <1>1, <1>2 DEF IsMessage
<1>4. IsMessage(wire'[c])
  <2>1. wire[c].op \in SessionOps => wire'[c] \in Message
    BY <1>2, <1>3, MessageParts, PartsOfMessage DEF IsMessage, Answers
  <2> QED
    BY <1>2, <1>3, <2>1 DEF IsMessage
<1> QED
  BY <1>1, <1>3, <1>4 DEF WireOK

(***************************************************************************)
(* The invariant.                                                          *)
(***************************************************************************)

\* Steps after which nobody waits to hear who is logged in keep it, if who is shown then
\* is who the cookie stands for.
LEMMA SettledKeeps ==
  ASSUME IInv, WireOK', TokensOK', UNCHANGED <<holder, browser>>, ActsForTheUserShown',
         \A c \in Conn : Kept(wire[c], wire'[c]),
         \A c \in Conn : ~Awaits(wire'[c], {"me"}),
         user' # None => \A c \in Conn : ~Awaits(wire'[c], {"login"})
  PROVE  IInv'
<1>1. \A c \in Conn : Awaits(wire'[c], {"login"}) => Awaits(wire[c], {"login"})
  BY DEF Kept, Awaits, SessionOps
<1>2. AsksOnce'
  BY <1>1 DEF IInv, AsksOnce, Awaits
<1>3. ASSUME NEW c \in Conn
      PROVE  MeFits(wire[c])' /\ LoginFits(wire[c])' /\ LogoutFits(wire[c])'
  <2>1. MeFits(wire[c])'
    BY DEF MeFits
  <2>2. LoginFits(wire[c])'
    BY DEF IInv, LoginFits, Kept, SessionOps, Awaits, browser
  <2>3. LogoutFits(wire[c])'
    BY DEF IInv, LogoutFits, Kept, SessionOps
  <2> QED
    BY <2>1, <2>2, <2>3
<1> QED
  BY <1>2, <1>3 DEF IInv

\* Steps that are not about the session, or by which nobody is shown, keep it.
LEMMA OthersKeep ==
  ASSUME IInv, WireOK', TokensOK', UNCHANGED <<holder, browser>>, user' \in {user, None},
         \A c \in Conn : Kept(wire[c], wire'[c]),
         user' # None => LogoutsStay
  PROVE  IInv'
<1>1. \A c \in Conn, ops \in SUBSET SessionOps : Awaits(wire'[c], ops) =>
        /\ Awaits(wire[c], ops)
        /\ wire'[c].token = wire[c].token
        /\ wire'[c].state = wire[c].state /\ wire'[c].answer = wire[c].answer
  BY DEF Kept, Awaits
<1> USE DEF browser
<1>2. AsksOnce'
  BY <1>1 DEF IInv, AsksOnce, SessionOps
<1>3. ASSUME NEW c \in Conn
      PROVE  MeFits(wire[c])' /\ LoginFits(wire[c])' /\ LogoutFits(wire[c])'
  <2>1. MeFits(wire[c])'
    BY <1>1, <1>3 DEF IInv, MeFits, SessionOps
  <2>2. LoginFits(wire[c])'
    BY <1>3 DEF IInv, LoginFits, Kept, SessionOps
  <2>3. LogoutFits(wire[c])'
    BY <1>3 DEF IInv, LogoutFits, Kept, SessionOps
  <2> QED
    BY <2>1, <2>2, <2>3
<1>4. ActsForTheUserShown'
  BY DEF IInv, ActsForTheUserShown, LogoutsStay
<1> QED
  BY <1>2, <1>3, <1>4 DEF IInv

(***************************************************************************)
(* The steps about the session.                                            *)
(***************************************************************************)

LEMMA ReloadKeeps ==
  ASSUME IInv, Reload
  PROVE  IInv'
<1>1. user' = None /\ UNCHANGED <<holder, live, jar, crossed>>
  BY DEF Reload, server, browser
<1>2. PICK c \in Conn :
        /\ wire[c] # None => wire[c].state # "sent"
        /\ wire' = [d \in Conn |->
             IF d = c THEN Request("me", "app", jar, None)
             ELSE IF wire[d] # None /\ wire[d].state = "sent" THEN [wire[d] EXCEPT !.to = "nobody"]
             ELSE None]
  BY DEF Reload
<1>3. wire'[c] = Request("me", "app", jar, None)
  BY <1>2
<1>4. \A d \in Conn \ {c} : wire'[d] # None =>
        /\ wire[d] # None /\ wire[d].state = "sent"
        /\ wire'[d] = [wire[d] EXCEPT !.to = "nobody"]
  BY <1>2
<1>5. \A d \in Conn \ {c} : wire'[d] # None =>
        /\ wire[d] # None /\ IsMessage(wire'[d]) /\ wire'[d].to = "nobody"
        /\ wire'[d].op = wire[d].op /\ wire'[d].arg = wire[d].arg
        /\ wire'[d].state = "sent" /\ wire'[d].answer = wire[d].answer
  <2> TAKE d \in Conn \ {c}
  <2>1. SUFFICES ASSUME wire'[d] # None
                 PROVE  /\ wire[d] # None /\ IsMessage(wire'[d]) /\ wire'[d].to = "nobody"
                        /\ wire'[d].op = wire[d].op /\ wire'[d].arg = wire[d].arg
                        /\ wire'[d].state = "sent" /\ wire'[d].answer = wire[d].answer
    OBVIOUS
  <2>2. wire[d] # None /\ wire[d].state = "sent" /\ IsMessage(wire[d])
    BY <1>4, <2>1 DEF IInv, WireOK
  <2>3. wire'[d] = [op |-> wire[d].op, to |-> "nobody", token |-> wire[d].token,
                    arg |-> wire[d].arg, state |-> "sent", answer |-> wire[d].answer]
    BY <1>4, <2>1, <2>2 DEF IsMessage
  <2>4. wire[d] \in Message => wire'[d] \in Message
    BY <2>3, MessageParts, PartsOfMessage
  <2> QED
    BY <2>2, <2>3, <2>4 DEF IsMessage
<1>6. /\ IsMessage(wire'[c]) /\ wire'[c].op = "me" /\ wire'[c].to = "app"
      /\ wire'[c].token = jar /\ wire'[c].state = "sent"
  BY <1>3, RequestIsMessage DEF IInv, TokensOK
<1>7. wire' = [d \in Conn |-> wire'[d]]
  BY <1>2
<1>8. WireOK' /\ TokensOK'
  BY <1>1, <1>5, <1>6, <1>7 DEF WireOK, IInv, TokensOK
<1>9. AsksOnce'
  BY <1>5, <1>6 DEF AsksOnce, Awaits
<1>10. ASSUME NEW d \in Conn
       PROVE  MeFits(wire[d])' /\ LoginFits(wire[d])' /\ LogoutFits(wire[d])'
  <2>1. CASE d = c
    BY <1>1, <1>6, <2>1 DEF MeFits, LoginFits, LogoutFits
  <2>2. CASE d # c
    <3>1. MeFits(wire[d])'
      BY <1>5, <2>2 DEF MeFits, Awaits
    <3>2. LoginFits(wire[d])' /\ LogoutFits(wire[d])'
      BY <1>1, <1>5, <2>2 DEF IInv, LoginFits, LogoutFits
    <3> QED
      BY <3>1, <3>2
  <2> QED
    BY <2>1, <2>2
<1>11. ActsForTheUserShown'
  BY <1>1 DEF ActsForTheUserShown
<1> QED
  BY <1>8, <1>9, <1>10, <1>11 DEF IInv

\* Login and Logout: what is sent, and that nobody waits for another answer.
LEMMA SessionSent ==
  ASSUME IInv, NEW op \in {"login", "logout"}, NEW arg,
         op = "login" => arg \in User /\ user = None /\ ~Waiting({"me", "login"}, "app"),
         op = "logout" => arg = None /\ user # None,
         Send(op, "app", arg),
         UNCHANGED <<server, browser, user>>
  PROVE  IInv'
<1>1. UNCHANGED <<holder, live, jar, crossed, user>>
  BY DEF server, browser
<1>2. \A c \in Conn : ~Awaits(wire[c], {"me", "login"})
  BY DEF IInv, MeFits, LoginFits, Awaits, Waiting
<1>3. PICK c \in Conn : wire[c] = None /\ wire' = [wire EXCEPT ![c] = Request(op, "app", jar, arg)]
  BY DEF Send
<1>4. /\ wire' = [d \in Conn |-> wire'[d]]
      /\ wire'[c] = Request(op, "app", jar, arg)
      /\ \A d \in Conn \ {c} : wire'[d] = wire[d]
  BY <1>3 DEF IInv, WireOK
<1>5. /\ IsMessage(wire'[c]) /\ wire'[c].op = op /\ wire'[c].to = "app"
      /\ wire'[c].arg = arg /\ wire'[c].state = "sent"
  BY <1>4, RequestIsMessage DEF IInv, TokensOK
<1>6. WireOK' /\ TokensOK'
  BY <1>1, <1>4, <1>5 DEF IInv, WireOK, TokensOK
<1>7. AsksOnce'
  BY <1>2, <1>4, <1>5 DEF AsksOnce, Awaits
<1>8. ASSUME NEW d \in Conn
      PROVE  MeFits(wire[d])' /\ LoginFits(wire[d])' /\ LogoutFits(wire[d])'
  <2>1. CASE d = c
    BY <1>1, <1>5, <2>1 DEF MeFits, LoginFits, LogoutFits, Awaits
  <2>2. CASE d # c
    BY <1>1, <1>4, <2>2 DEF IInv, MeFits, LoginFits, LogoutFits
  <2> QED
    BY <2>1, <2>2
<1>9. ActsForTheUserShown'
  BY <1>1, <1>3, <1>4 DEF IInv, ActsForTheUserShown, Taken
<1> QED
  BY <1>6, <1>7, <1>8, <1>9 DEF IInv

\* The server answers who is logged in, logs in or logs out.
LEMMA CarryPublicKeeps ==
  ASSUME IInv, NEW c \in Conn, wire[c] # None, wire[c].state = "sent",
         CarryPublic(c, wire[c]), UNCHANGED <<browser, user>>
  PROVE  IInv'
<1> USE HomePageAssumption DEF browser
<1>2. WireOK /\ TokensOK
  BY DEF IInv
<1>1. PICK answer \in {None} \cup User \cup Token : Answer(c, "ok", answer)
  BY <1>2 DEF CarryPublic, SessionUser, TokensOK
<1>3. /\ WireOK'
      /\ \A d \in Conn \ {c} : wire'[d] = wire[d]
      /\ wire'[c].op = wire[c].op /\ wire'[c].to = wire[c].to
      /\ wire'[c].token = wire[c].token /\ wire'[c].arg = wire[c].arg
  BY <1>1, <1>2, Answered
<1>4. AsksOnce'
  BY <1>3 DEF IInv, AsksOnce, Awaits
<1>8. LogoutsStay
  BY <1>3 DEF LogoutsStay, Taken
<1>5. CASE wire[c].op = "me"
  <2>1. PICK u \in {SessionUser(wire[c].token), None} : Answer(c, "ok", u)
    BY <1>5 DEF CarryPublic
  <2>2. UNCHANGED <<holder, live>>
    BY <1>5 DEF CarryPublic
  <2>3. wire'[c].answer = u /\ wire'[c].state = "ok"
    BY <1>2, <2>1, Answered DEF SessionUser, TokensOK
  <2>4. TokensOK' /\ ActsForTheUserShown'
    BY <1>8, <2>2 DEF IInv, TokensOK, ActsForTheUserShown, LogoutsStay
  <2>5. ASSUME NEW d \in Conn
        PROVE  MeFits(wire[d])' /\ LoginFits(wire[d])' /\ LogoutFits(wire[d])'
    <3>1. CASE d = c
      <4>1. MeFits(wire[c])'
        <5>1. u # None => wire[c].token \in Token /\ holder[wire[c].token] = u
          BY <1>2, <2>1 DEF SessionUser, TokensOK
        <5>2. Awaits(wire[c], {"me"})' => user = None /\ wire[c].token = jar
          BY <1>3, <1>5 DEF IInv, MeFits, Awaits
        <5> QED
          BY <1>3, <2>2, <2>3, <5>1, <5>2 DEF MeFits
      <4>2. LoginFits(wire[c])' /\ LogoutFits(wire[c])'
        BY <1>3, <1>5 DEF LoginFits, LogoutFits
      <4> QED
        BY <3>1, <4>1, <4>2
    <3>2. CASE d # c
      BY <1>3, <2>2, <3>2 DEF IInv, MeFits, LoginFits, LogoutFits
    <3> QED
      BY <3>1, <3>2
  <2> QED
    BY <1>3, <1>4, <2>4, <2>5 DEF IInv
<1>6. CASE wire[c].op = "login"
  <2>1. PICK t \in {s \in Token : holder[s] = None} :
          /\ holder' = [holder EXCEPT ![t] = wire[c].arg] /\ live' = live \cup {t}
          /\ Answer(c, "ok", t)
    BY <1>6 DEF CarryPublic
  <2>2. wire[c].arg \in User /\ (wire[c].to = "app" => user = None)
    BY <1>6 DEF IInv, LoginFits
  <2>3. wire'[c].answer = t /\ wire'[c].state = "ok"
    BY <1>2, <2>1, Answered
  <2>4. TokensOK' /\ holder'[t] = wire[c].arg /\ \A s \in Token \ {t} : holder'[s] = holder[s]
    BY <1>2, <2>1, <2>2 DEF TokensOK
  <2>5. ActsForTheUserShown'
    BY <1>2, <1>8, <2>1, <2>4 DEF IInv, TokensOK, ActsForTheUserShown, LogoutsStay
  <2>6. ASSUME NEW d \in Conn
        PROVE  MeFits(wire[d])' /\ LoginFits(wire[d])' /\ LogoutFits(wire[d])'
    <3>1. CASE d = c
      BY <1>3, <1>6, <2>1, <2>2, <2>3, <2>4, <3>1 DEF MeFits, LoginFits, LogoutFits, Awaits
    <3>2. CASE d # c
      <4>1. MeFits(wire[d])'
        BY <1>2, <1>3, <2>1, <2>4, <3>2 DEF IInv, MeFits, TokensOK
      <4>2. LoginFits(wire[d])' /\ LogoutFits(wire[d])'
        BY <1>3, <2>1, <2>4, <3>2 DEF IInv, LoginFits, LogoutFits
      <4> QED
        BY <4>1, <4>2
    <3> QED
      BY <3>1, <3>2
  <2> QED
    BY <1>3, <1>4, <2>4, <2>5, <2>6 DEF IInv
<1>7. CASE wire[c].op = "logout"
  <2>1. /\ live' \in {live, live \ {wire[c].token}} /\ holder' = holder
        /\ Answer(c, "ok", None)
    BY <1>7 DEF CarryPublic
  <2>2. wire'[c].answer = None /\ wire'[c].state = "ok"
    BY <1>2, <2>1, Answered
  <2>3. TokensOK' /\ ActsForTheUserShown'
    BY <1>2, <1>8, <2>1 DEF IInv, TokensOK, ActsForTheUserShown, LogoutsStay
  <2>4. ASSUME NEW d \in Conn
        PROVE  MeFits(wire[d])' /\ LoginFits(wire[d])' /\ LogoutFits(wire[d])'
    <3>1. CASE d = c
      BY <1>3, <1>7, <2>2, <3>1 DEF MeFits, LoginFits, LogoutFits, Awaits
    <3>2. CASE d # c
      BY <1>3, <2>1, <3>2 DEF IInv, MeFits, LoginFits, LogoutFits
    <3> QED
      BY <3>1, <3>2
  <2> QED
    BY <1>3, <1>4, <2>3, <2>4 DEF IInv
<1> QED
  BY <1>5, <1>6, <1>7 DEF CarryPublic

\* The answer to me, login or logout.
LEMMA HearAuthKeeps ==
  ASSUME IInv, NEW c \in Conn, wire[c] # None, wire[c].to # "nobody", wire[c].op \in SessionOps,
         wire[c].state = IF wire[c].op \in {"login", "logout"} THEN "taken" ELSE "ok",
         HearAuth(wire[c], Rest(c)), UNCHANGED <<holder, live, browser>>
  PROVE  IInv'
<1> USE HomePageAssumption
<1>1. WireOK /\ TokensOK /\ IsMessage(wire[c])
  BY DEF IInv, WireOK
<1>2. Awaits(wire[c], {wire[c].op})
  BY <1>1 DEF IsMessage, Awaits
<1>3. /\ Rest(c) = [d \in Conn |-> Rest(c)[d]]
      /\ \A d \in Conn : Rest(c)[d] # None => IsMessage(Rest(c)[d])
      /\ \A d \in Conn : Kept(wire[d], Rest(c)[d])
      /\ Rest(c)[c] = None
      /\ \A d \in Conn : d # c => Rest(c)[d] = wire[d]
  BY <1>1, RestOfWire
<1>4. \A u, r : Show(u, r, Rest(c)) =>
        user' = u /\ WireOK' /\ \A d \in Conn : Kept(Rest(c)[d], wire'[d])
  BY <1>3, Shown
<1>10. TokensOK'
  BY <1>1 DEF TokensOK, browser
<1>5. \A d \in Conn : Kept(Rest(c)[d], wire'[d]) =>
        /\ Kept(wire[d], wire'[d])
        /\ d = c => ~Awaits(wire'[d], SessionOps)
  BY <1>3 DEF Kept, Awaits
<1>6. \A d \in Conn : Kept(wire[d], wire'[d]) =>
        \A ops \in SUBSET SessionOps : Awaits(wire'[d], ops) => Awaits(wire[d], ops)
  BY DEF Kept, Awaits
<1>7. CASE wire[c].op = "me"
  <2>1. Show(wire[c].answer, route, Rest(c))
    BY <1>7 DEF HearAuth
  <2>2. user' = wire[c].answer /\ WireOK' /\ \A d \in Conn : Kept(Rest(c)[d], wire'[d])
    BY <1>4, <2>1
  <2>3. \A d \in Conn \ {c} : ~Awaits(wire[d], {"me", "login"})
    BY <1>2, <1>7 DEF IInv, AsksOnce, Awaits
  <2>4. \A d \in Conn : ~Awaits(wire'[d], {"me"}) /\ ~Awaits(wire'[d], {"login"})
    BY <1>5, <1>6, <2>2, <2>3 DEF SessionOps, Awaits
  <2>5. ActsForTheUserShown'
    BY <1>2, <1>7, <2>2 DEF IInv, MeFits, ActsForTheUserShown, browser
  <2> QED
    BY <1>5, <1>10, <2>2, <2>4, <2>5, SettledKeeps
<1>8. CASE wire[c].op = "login"
  <2>1. Show(wire[c].arg, route, Rest(c))
    BY <1>8 DEF HearAuth
  <2>2. user' = wire[c].arg /\ WireOK' /\ \A d \in Conn : Kept(Rest(c)[d], wire'[d])
    BY <1>4, <2>1
  <2>3. \A d \in Conn \ {c} : ~Awaits(wire[d], {"me", "login"})
    BY <1>2, <1>8 DEF IInv, AsksOnce, Awaits
  <2>4. \A d \in Conn : ~Awaits(wire'[d], {"me"}) /\ ~Awaits(wire'[d], {"login"})
    BY <1>5, <1>6, <2>2, <2>3 DEF SessionOps, Awaits
  <2>5. ActsForTheUserShown'
    BY <1>2, <1>8, <2>2 DEF IInv, LoginFits, ActsForTheUserShown, Awaits, browser
  <2> QED
    BY <1>5, <1>10, <2>2, <2>4, <2>5, SettledKeeps
<1>9. CASE wire[c].op = "logout"
  <2>1. IF None = user THEN wire' = Rest(c) /\ UNCHANGED tab
        ELSE Show(None, route, Rest(c))
    BY <1>9 DEF HearAuth, AfterLogout
  <2>2. user' = None /\ WireOK' /\ \A d \in Conn : Kept(wire[d], wire'[d])
    <3>1. CASE None = user
      BY <1>3, <2>1, <3>1 DEF WireOK, tab
    <3>2. CASE None # user
      BY <1>4, <1>5, <2>1, <3>2
    <3> QED
      BY <3>1, <3>2
  <2>3. \A d \in Conn : ~Awaits(wire[d], {"me"})
    BY <1>2, <1>9 DEF IInv, AsksOnce
  <2>4. \A d \in Conn : ~Awaits(wire'[d], {"me"})
    BY <1>6, <2>2, <2>3 DEF SessionOps
  <2>5. ActsForTheUserShown'
    BY <2>2 DEF ActsForTheUserShown
  <2> QED
    BY <1>10, <2>2, <2>4, <2>5, SettledKeeps
<1> QED
  BY <1>7, <1>8, <1>9 DEF SessionOps

\* The browser takes the cookie of an answer.
LEMMA TakeCookieKeeps ==
  ASSUME IInv, NEW c \in Conn, TakeCookie(c)
  PROVE  IInv'
<1> USE HomePageAssumption
<1>1. /\ WireOK /\ TokensOK /\ wire[c] # None /\ IsMessage(wire[c])
      /\ wire[c].op \in {"login", "logout"} /\ wire[c].to = "app" /\ wire[c].state = "ok"
      /\ UNCHANGED <<holder, live, user>>
  BY DEF IInv, WireOK, TakeCookie, server, tab
<1>2. /\ jar' = wire[c].answer
      /\ crossed' = (wire[c].op = "logout" /\ (crossed \/ \E d \in Conn : Taken(d, "login")))
  BY DEF TakeCookie
<1>3. /\ wire' = [d \in Conn |-> wire'[d]] /\ \A d \in Conn \ {c} : wire'[d] = wire[d]
      /\ wire'[c] = [wire[c] EXCEPT !.state = "taken"]
  BY <1>1 DEF TakeCookie, WireOK
<1>4. /\ wire'[c] # None /\ IsMessage(wire'[c])
      /\ wire'[c].op = wire[c].op /\ wire'[c].to = "app" /\ wire'[c].token = wire[c].token
      /\ wire'[c].arg = wire[c].arg /\ wire'[c].answer = wire[c].answer
      /\ wire'[c].state = "taken"
  <2>1. wire'[c] = [op |-> wire[c].op, to |-> "app", token |-> wire[c].token, arg |-> wire[c].arg,
                    state |-> "taken", answer |-> wire[c].answer]
    BY <1>1, <1>3 DEF IsMessage
  <2>2. wire'[c] \in Message
    BY <1>1, <2>1, MessageParts, PartsOfMessage DEF IsMessage, SessionOps
  <2> QED
    BY <1>1, <2>1, <2>2, NoneIsNoRecord DEF IsMessage
<1>5. LoginFits(wire[c]) /\ LogoutFits(wire[c])
  BY DEF IInv
<1>6. WireOK' /\ TokensOK'
  <2>1. WireOK'
    BY <1>1, <1>3, <1>4 DEF WireOK
  <2>2. jar' \in Token \cup {None}
    BY <1>1, <1>2, <1>5 DEF LoginFits, LogoutFits
  <2>3. crossed' \in BOOLEAN
    BY <1>2
  <2> QED
    BY <1>1, <2>1, <2>2, <2>3 DEF TokensOK
<1>7. AsksOnce'
  <2>1. \A d \in Conn, ops \in SUBSET SessionOps : Awaits(wire'[d], ops) => Awaits(wire[d], ops)
    BY <1>1, <1>3, <1>4 DEF Awaits
  <2> QED
    BY <2>1 DEF IInv, AsksOnce, SessionOps
<1>8. ASSUME NEW d \in Conn
      PROVE  MeFits(wire[d])' /\ LoginFits(wire[d])' /\ LogoutFits(wire[d])'
  <2>1. CASE d = c
    BY <1>1, <1>2, <1>4, <1>5, <2>1 DEF MeFits, LoginFits, LogoutFits, Awaits
  <2>2. CASE d # c
    <3>1. MeFits(wire[d])'
      BY <1>1, <1>3, <2>2 DEF IInv, AsksOnce, MeFits, Awaits
    <3>2. LogoutFits(wire[d])'
      BY <1>3, <2>2 DEF IInv, LogoutFits
    <3>3. LoginFits(wire[d])'
      <4>1. wire'[d] = wire[d] /\ LoginFits(wire[d])
        BY <1>3, <2>2 DEF IInv
      <4>2. CASE wire[c].op = "login"
        <5>1. ~Awaits(wire[d], {"login"})
          BY <1>1, <2>2, <4>2 DEF IInv, AsksOnce, Awaits
        <5> QED
          BY <1>1, <4>1, <5>1 DEF LoginFits, Awaits
      <4>3. CASE wire[c].op = "logout"
        <5>1. /\ jar' = None
              /\ wire[d] # None /\ wire[d].op = "login" /\ wire[d].state = "taken" => crossed'
          BY <1>1, <1>2, <1>5, <4>3 DEF LogoutFits, Taken
        <5> QED
          BY <1>1, <4>1, <5>1 DEF LoginFits
      <4> QED
        BY <1>1, <4>2, <4>3
    <3> QED
      BY <3>1, <3>2, <3>3
  <2> QED
    BY <2>1, <2>2
<1>9. ActsForTheUserShown'
  <2>1. CASE wire[c].op = "login"
    BY <1>1, <1>5, <2>1 DEF LoginFits, ActsForTheUserShown
  <2>2. CASE wire[c].op = "logout"
    BY <1>1, <1>2, <1>4, <1>5, <2>2 DEF LogoutFits, ActsForTheUserShown, Taken
  <2> QED
    BY <1>1, <2>1, <2>2
<1> QED
  BY <1>6, <1>7, <1>8, <1>9 DEF IInv

\* A request or its answer is lost.
LEMMA FailKeeps ==
  ASSUME IInv, NEW c \in Conn, Fail(c)
  PROVE  IInv'
<1>1. WireOK /\ TokensOK /\ wire[c] # None /\ UNCHANGED <<holder, live, browser>>
  BY DEF IInv, Fail, server
<1>2. /\ Rest(c) = [d \in Conn |-> Rest(c)[d]]
      /\ \A d \in Conn : d # c => Rest(c)[d] = wire[d]
      /\ \A d \in Conn : Rest(c)[d] # None => IsMessage(Rest(c)[d])
      /\ \A d \in Conn : Kept(wire[d], Rest(c)[d])
  BY <1>1, RestOfWire
<1>3. TokensOK'
  BY <1>1 DEF TokensOK, browser
<1>4. CASE Show(None, route, Rest(c))
  <2>1. user' = None /\ WireOK' /\ \A d \in Conn : Kept(Rest(c)[d], wire'[d])
    BY <1>2, <1>4, Shown
  <2>2. \A d \in Conn : Kept(wire[d], wire'[d])
    BY <1>2, <2>1 DEF Kept
  <2> QED
    BY <1>1, <1>3, <2>1, <2>2, OthersKeep
<1>5. CASE wire' = Rest(c) /\ UNCHANGED tab /\ ~(wire[c].op = "logout" /\ wire[c].to = "app")
  <2>1. user' = user /\ WireOK' /\ \A d \in Conn : Kept(wire[d], wire'[d])
    BY <1>2, <1>5 DEF WireOK, tab
  <2>2. LogoutsStay
    BY <1>1, <1>2, <1>5 DEF IInv, LogoutFits, LogoutsStay, Taken
  <2> QED
    BY <1>1, <1>3, <2>1, <2>2, OthersKeep
<1> QED
  BY <1>4, <1>5 DEF Fail

(***************************************************************************)
(* The other steps, and the theorem.                                       *)
(***************************************************************************)

\* The server carries out a request about decks, or turns it away.
LEMMA CarryKeeps ==
  ASSUME IInv, NEW c \in Conn, Carry(c)
  PROVE  IInv'
<1>1. wire[c] # None /\ wire[c].state = "sent" /\ UNCHANGED <<browser, user>>
  BY DEF Carry, tab
<1>2. CASE wire[c].op \in {"me", "login", "logout"}
  BY <1>1, <1>2, CarryPublicKeeps DEF Carry
<1>3. CASE wire[c].op \notin {"me", "login", "logout"}
  <2>1. UNCHANGED <<holder, live>>
    BY <1>3 DEF Carry
  <2>2. PICK state, answer : Answer(c, state, answer)
    BY <1>3 DEF Carry, CarryFor, NewDeck
  <2>3. WireOK /\ TokensOK
    BY DEF IInv
  <2>4. /\ WireOK' /\ wire'[c].op = wire[c].op
        /\ \A d \in Conn \ {c} : wire'[d] = wire[d]
    BY <1>1, <1>3, <2>2, <2>3, Answered DEF SessionOps
  <2>5. \A d \in Conn : Kept(wire[d], wire'[d])
    BY <1>3, <2>4 DEF Kept, SessionOps
  <2>6. TokensOK'
    BY <1>1, <2>1, <2>3 DEF TokensOK, browser
  <2>7. LogoutsStay
    BY <1>1, <2>4 DEF LogoutsStay, Taken
  <2> QED
    BY <1>1, <2>1, <2>4, <2>5, <2>6, <2>7, OthersKeep
<1> QED
  BY <1>2, <1>3

\* An answer that is heard.
LEMMA HearKeeps ==
  ASSUME IInv, NEW c \in Conn, Hear(c)
  PROVE  IInv'
<1>1. /\ WireOK /\ TokensOK /\ wire[c] # None /\ wire[c].to # "nobody"
      /\ UNCHANGED <<holder, live, browser>>
  BY DEF IInv, Hear, server
<1>2. /\ Rest(c) = [d \in Conn |-> Rest(c)[d]]
      /\ \A d \in Conn : d # c => Rest(c)[d] = wire[d]
      /\ \A d \in Conn : Rest(c)[d] # None => IsMessage(Rest(c)[d])
      /\ \A d \in Conn : Kept(wire[d], Rest(c)[d])
  BY <1>1, RestOfWire
<1>3. TokensOK'
  BY <1>1 DEF TokensOK, browser
<1>4. wire[c].op \notin SessionOps =>
        \A d \in Conn : Taken(d, "logout") => Rest(c)[d] = wire[d]
  BY <1>2 DEF Taken, SessionOps
<1>5. ASSUME NEW u \in {user, None}, NEW r, Show(u, r, Rest(c)),
             u = None \/ wire[c].op \notin SessionOps
      PROVE  IInv'
  <2>1. /\ user' = u /\ WireOK' /\ \A d \in Conn : Kept(Rest(c)[d], wire'[d])
        /\ \A d \in Conn :
             Rest(c)[d] # None /\ Rest(c)[d].op \in SessionOps => wire'[d] = Rest(c)[d]
    BY <1>2, <1>5, Shown
  <2>2. \A d \in Conn : Kept(wire[d], wire'[d])
    BY <1>2, <2>1 DEF Kept
  <2>3. user' # None => LogoutsStay
    BY <1>4, <1>5, <2>1 DEF LogoutsStay, Taken, SessionOps
  <2> QED
    BY <1>1, <1>3, <1>5, <2>1, <2>2, <2>3, OthersKeep
<1>6. CASE Show(None, route, Rest(c))
  BY <1>5, <1>6
<1>7. CASE /\ wire[c].state = IF wire[c].op \in {"login", "logout"} THEN "taken" ELSE "ok"
           /\ wire[c].op \in {"me", "login", "logout"} /\ HearAuth(wire[c], Rest(c))
  BY <1>1, <1>7, HearAuthKeeps DEF SessionOps
<1>8. CASE wire[c].op \in {"create", "save"} /\ Show(user, "deck", Rest(c))
  BY <1>5, <1>8 DEF SessionOps
<1>9. CASE wire[c].op \in {"list", "get", "delete", "preview"} /\ HearPage(wire[c], Rest(c))
  <2>1. wire' = Rest(c) /\ user' = user
    BY <1>9 DEF HearPage
  <2>2. WireOK' /\ LogoutsStay
    BY <1>2, <1>4, <1>9, <2>1 DEF WireOK, LogoutsStay, Taken, SessionOps
  <2> QED
    BY <1>1, <1>2, <1>3, <2>1, <2>2, OthersKeep
<1> QED
  BY <1>6, <1>7, <1>8, <1>9 DEF Hear

\* The invariant holds at first.
LEMMA Begins == Init => IInv
<1> SUFFICES ASSUME Init PROVE IInv
  OBVIOUS
<1> USE HomePageAssumption
<1>1. user = None /\ jar \in Token \cup {None} /\ live = {jar} \ {None}
  BY DEF Init
<1>2. TokensOK
  <2>1. crossed \in BOOLEAN
    BY DEF Init
  <2>2. holder \in [Token -> User \cup {None}]
    BY DEF Init
  <2> QED
    BY <1>1, <2>1, <2>2 DEF TokensOK
<1>3. PICK c \in Conn :
        wire = [d \in Conn |-> IF d = c THEN Request("me", "app", jar, None) ELSE None]
  BY DEF Init
<1>4. /\ IsMessage(wire[c]) /\ wire[c].op = "me" /\ wire[c].to = "app"
      /\ wire[c].token = jar /\ wire[c].state = "sent"
      /\ \A d \in Conn \ {c} : wire[d] = None
  BY <1>1, <1>3, RequestIsMessage
<1>5. WireOK
  BY <1>3, <1>4 DEF WireOK
<1>6. AsksOnce
  BY <1>4 DEF AsksOnce, Awaits
<1>7. \A d \in Conn : MeFits(wire[d]) /\ LoginFits(wire[d]) /\ LogoutFits(wire[d])
  BY <1>1, <1>4 DEF MeFits, LoginFits, LogoutFits, Awaits
<1> QED
  BY <1>1, <1>2, <1>5, <1>6, <1>7 DEF IInv, ActsForTheUserShown

\* A step of the page that sends nothing about the session.
LEMMA PageKeeps ==
  ASSUME IInv,
         \/ Navigate \/ CreateDeck \/ DeleteDeck \/ OpenImport \/ CloseImport \/ EditText
         \/ HandlePreview \/ Back \/ PickArt \/ HandleSave \/ Expire
  PROVE  IInv'
<1>1. WireOK /\ TokensOK
  BY DEF IInv
<1>2. ASSUME UNCHANGED <<holder, browser, user>>, live' \subseteq live, WireOK', LogoutsStay,
             \A c \in Conn : Kept(wire[c], wire'[c])
      PROVE  IInv'
  <2>1. TokensOK'
    BY <1>1, <1>2 DEF TokensOK, browser
  <2> QED
    BY <1>2, <2>1, OthersKeep
<1>3. ASSUME UNCHANGED <<server, browser, user>>, NEW op, NEW to, NEW arg, op \notin SessionOps,
             Send(op, to, arg)
      PROVE  IInv'
  BY <1>1, <1>2, <1>3, OthersSent DEF server
<1>4. ASSUME UNCHANGED <<browser, wire, user, holder>>, live' \subseteq live
      PROVE  IInv'
  BY <1>1, <1>2, <1>4 DEF WireOK, Kept, LogoutsStay, Taken
<1>5. CASE Navigate
  <2>1. PICK r : Show(user, r, wire)
    BY <1>5 DEF Navigate
  <2>2. /\ user' = user /\ WireOK' /\ \A c \in Conn : Kept(wire[c], wire'[c])
        /\ \A c \in Conn : wire[c] # None /\ wire[c].op \in SessionOps => wire'[c] = wire[c]
    BY <1>1, <2>1, Shown DEF WireOK
  <2>3. LogoutsStay
    BY <2>2 DEF LogoutsStay, Taken, SessionOps
  <2> QED
    BY <1>2, <1>5, <2>2, <2>3 DEF Navigate, server
<1>6. CASE CreateDeck
  BY <1>3, <1>6 DEF CreateDeck, SessionOps, tab
<1>7. CASE DeleteDeck
  BY <1>3, <1>7 DEF DeleteDeck, SessionOps, tab
<1>8. CASE OpenImport \/ EditText \/ Back \/ PickArt
  BY <1>4, <1>8 DEF OpenImport, EditText, Back, PickArt, server
<1>9. CASE CloseImport
  <2>1. wire' = [c \in Conn |->
          IF wire[c] # None /\ wire[c].to = "dialog" THEN Orphan(wire[c]) ELSE wire[c]]
    BY <1>9 DEF CloseImport
  <2>2. \A c \in Conn : wire'[c] # None => IsMessage(wire'[c]) /\ Kept(wire[c], wire'[c])
    BY <1>1, <2>1, Orphaned DEF WireOK, Kept
  <2>3. WireOK' /\ \A c \in Conn : Kept(wire[c], wire'[c])
    BY <2>1, <2>2 DEF WireOK, Kept
  <2>4. LogoutsStay
    BY <1>1, <2>1 DEF WireOK, IsMessage, SessionOps, LogoutsStay, Taken
  <2> QED
    BY <1>2, <1>9, <2>3, <2>4 DEF CloseImport, server
<1>10. CASE HandlePreview
  BY <1>3, <1>10 DEF HandlePreview, SessionOps, tab
<1>11. CASE HandleSave
  BY <1>3, <1>11 DEF HandleSave, SessionOps, tab
<1>12. CASE Expire
  BY <1>4, <1>12 DEF Expire, tab
<1> QED
  BY <1>5, <1>6, <1>7, <1>8, <1>9, <1>10, <1>11, <1>12

LEMMA Keeps == IInv /\ [Next]_vars => IInv'
<1> SUFFICES ASSUME IInv, [Next]_vars PROVE IInv'
  OBVIOUS
<1>1. CASE Reload
  BY <1>1, ReloadKeeps
<1>2. CASE Login
  <2>1. PICK u \in User : Send("login", "app", u)
    BY <1>2 DEF Login
  <2> QED
    BY <1>2, <2>1, SessionSent DEF Login, tab
<1>3. CASE Logout
  BY <1>3, SessionSent DEF Logout, tab
<1>4. CASE \/ Navigate \/ CreateDeck \/ DeleteDeck \/ OpenImport \/ CloseImport \/ EditText
           \/ HandlePreview \/ Back \/ PickArt \/ HandleSave \/ Expire
  BY <1>4, PageKeeps
<1>5. ASSUME NEW c \in Conn, Carry(c) \/ TakeCookie(c) \/ Hear(c) \/ Fail(c)
      PROVE  IInv'
  BY <1>5, CarryKeeps, TakeCookieKeeps, HearKeeps, FailKeeps
<1>6. CASE UNCHANGED vars
  <2>1. UNCHANGED <<holder, live, jar, crossed, wire, user>>
    BY <1>6 DEF vars, server, browser, tab
  <2> QED
    BY <2>1 DEF IInv, WireOK, TokensOK, AsksOnce, MeFits, LoginFits, LogoutFits, Awaits,
                IsMessage, Taken, ActsForTheUserShown
<1> QED
  BY <1>1, <1>2, <1>3, <1>4, <1>5, <1>6 DEF Next

\* Whatever the tab asks for is asked for the user it shows (ActsForTheUserShown), however
\* many requests are under way and in whichever order they are answered or lost
\* (useAuth.ts me, login, logout and onUnauthorized).
THEOREM ActsRightly == Spec => []ActsForTheUserShown
<1>1. IInv => ActsForTheUserShown
  BY DEF IInv
<1> QED
  BY <1>1, Begins, Keeps, PTL DEF Spec

--------------------------------------------------------------------------------
(***************************************************************************)
(* The list and the import.                                                *)
(*                                                                         *)
(* A list that is shown, or on its way to the page that is there, differs  *)
(* from the server's only by decks that are untold or the matter of an     *)
(* answer under way.  It is the list of the user shown, since what a page  *)
(* sends carries a cookie of that user and a page lives no longer than its *)
(* user does; it is asked for once a page, so that the untold decks it     *)
(* makes up for are those of no other list; and what is deleted stays so.  *)
(*                                                                         *)
(* The picks of the import are by key, what the user chose by card.  They  *)
(* agree for the keys that were reviewed, unless a card was reviewed under *)
(* both of its keys; a save that is to stand for what was chosen is under  *)
(* way with the art of each card of its text.                              *)
(***************************************************************************)

\* A question of an operation, and its answer.
MessageOK(m) ==
  m # None =>
    /\ m \in Message
    /\ m.op = "delete" => m.arg \in Deck
    /\ m.op = "preview" => m.arg \in Text
    /\ m.op = "save" =>
         m.arg \in [text : Text, art : Seq(Image), meant : [Card -> Image] \cup {None}]
    /\ m.state = "ok" =>
         /\ m.op = "list" => m.answer \in SUBSET Deck
         /\ m.op \in {"create", "save"} => m.answer \in Deck
         /\ m.op = "preview" => m.answer \in SUBSET Card

\* There is a dialog with a decklist in it.
HasText == dialog # None /\ dialog.text # None

\* What a page or a dialog has sent, as long as it is there, and what was deleted.
PageFits(m) ==
  m # None =>
    /\ m.to = "page" => /\ user # None /\ m.token \in Token \cup {None}
                        /\ m.token # None => holder[m.token] = user
    /\ m.op = "list" /\ m.to = "page" => route = "home" /\ list = None
    /\ m.op = "delete" /\ m.to = "page" => list # None
    /\ m.to = "dialog" => HasText /\ m.op \in {"preview", "save"}
    /\ m.op = "delete" /\ m.state = "ok" => m.arg \in born /\ decks[m.arg] = None

\* The art of a save that is to stand for what was chosen.
ReviewFits(m) ==
  m # None /\ m.op = "save" /\ m.arg.meant # None =>
    /\ Len(m.arg.art) = Len(CardsOf[m.arg.text])
    /\ \A i \in DOMAIN m.arg.art : m.arg.art[i] = m.arg.meant[CardsOf[m.arg.text][i]]

\* The answer under way that tells of deck d.
Tells(m, d) ==
  /\ m # None /\ m.state = "ok"
  /\ \/ m.op = "delete" /\ m.arg = d
     \/ m.op \in {"create", "save"} /\ m.answer = d

Excused(d) == d \in untold \/ \E c \in Conn : Tells(wire[c], d)

FollowsServer(decksShown) ==
  \A d \in Deck : Excused(d) \/ (d \in decksShown <=> d \in DecksOf(user))

ListFor(m) == m # None /\ m.op = "list" /\ m.to = "page"

StateOK ==
  /\ decks \in [Deck -> SavedDeck \cup {None}] /\ born \subseteq Deck /\ untold \subseteq Deck
  /\ \A d \in Deck : decks[d] # None => d \in born
  /\ user \in User \cup {None} /\ route \in {"home", "deck"}
  /\ list \in (SUBSET Deck) \cup {None}

WireFits ==
  /\ \A c \in Conn : MessageOK(wire[c]) /\ PageFits(wire[c]) /\ ReviewFits(wire[c])
  /\ \A c, d \in Conn : ListFor(wire[c]) /\ ListFor(wire[d]) => c = d

ListsFollow ==
  /\ list # None => FollowsServer(list)
  /\ \A c \in Conn : ListFor(wire[c]) /\ wire[c].state = "ok" => FollowsServer(wire[c].answer)

DialogOK ==
  dialog # None =>
    /\ dialog \in Dialog
    /\ dialog.preview # None => HasText /\ KeysOf(dialog.preview) \subseteq dialog.keys
    /\ \A k \in Key : <<k[1], ~k[2]>> \notin dialog.keys => dialog.picks[k] = dialog.chosen[k[1]]

PageInv == StateOK /\ WireFits /\ ListsFollow /\ DialogOK /\ PicksStayWithTheirCards

(***************************************************************************)
(* Messages.                                                               *)
(***************************************************************************)

\* What is asked is a message.
LEMMA RequestFits ==
  ASSUME NEW op \in Operations, NEW to \in {"app", "page", "dialog", "nobody"},
         NEW token \in Token \cup {None}, NEW arg \in Args
  PROVE  Request(op, to, token, arg) \in Message /\ Request(op, to, token, arg) # None
<1>1. None \in Answers
  BY DEF Answers
<1>2. Request(op, to, token, arg) \in Message
  BY <1>1, PartsOfMessage DEF Request
<1> QED
  BY <1>2, NoneIsNoRecord

\* A message is an earlier one, perhaps of a page or a dialog that is gone.
Stays(old, new) ==
  new # None =>
    /\ old # None /\ new \in Message /\ new.op = old.op /\ new.token = old.token
    /\ new.arg = old.arg /\ new.state = old.state /\ new.answer = old.answer
    /\ new.to \in {old.to, "app", "nobody"}

\* What is left of it when they are: nobody there waits for it, and only what a deletion did
\* is forgotten.
LEMMA OrphanStays ==
  ASSUME NEW m, m # None => m \in Message
  PROVE  /\ Stays(m, Orphan(m))
         /\ Orphan(m) # None => Orphan(m).to \in {"app", "nobody"}
         /\ \A d : Tells(m, d) /\ m.op # "delete" => Tells(Orphan(m), d)
<1>1. CASE m = None \/ m.to \in {"app", "nobody"}
  <2>1. Orphan(m) = m
    BY <1>1 DEF Orphan
  <2> QED
    BY <1>1, <2>1 DEF Stays
<1>2. CASE m # None /\ m.to \notin {"app", "nobody"}
  <2>1. CASE m.state = "ok" /\ m.op \notin {"create", "save"}
    <3>1. Orphan(m) = None
      BY <1>2, <2>1 DEF Orphan
    <3> QED
      BY <2>1, <3>1 DEF Stays, Tells
  <2>2. CASE ~(m.state = "ok" /\ m.op \notin {"create", "save"})
    <3>1. Orphan(m) = [m EXCEPT !.to = "app"]
      BY <1>2, <2>2 DEF Orphan
    <3>2. Orphan(m) = [op |-> m.op, to |-> "app", token |-> m.token, arg |-> m.arg,
                       state |-> m.state, answer |-> m.answer]
      BY <1>2, <3>1, MessageParts
    <3>3. Orphan(m) \in Message
      BY <1>2, <3>2, MessageParts, PartsOfMessage
    <3> QED
      BY <1>2, <3>2, <3>3, NoneIsNoRecord DEF Stays, Tells
  <2> QED
    BY <2>1, <2>2
<1> QED
  BY <1>1, <1>2

\* The others stay as they are.
LEMMA SameStays ==
  ASSUME NEW m, m # None => m \in Message
  PROVE  Stays(m, m) /\ Stays(m, None)
BY DEF Stays

LEMMA StaysFits ==
  ASSUME NEW old, NEW new, Stays(old, new), MessageOK(old), ReviewFits(old)
  PROVE  MessageOK(new) /\ ReviewFits(new) /\ (ListFor(new) => ListFor(old))
<1>1. MessageOK(new)
  BY DEF Stays, MessageOK
<1>2. ReviewFits(new)
  BY DEF Stays, ReviewFits
<1>3. ListFor(new) => ListFor(old)
  BY DEF Stays, ListFor
<1> QED
  BY <1>1, <1>2, <1>3

(***************************************************************************)
(* Pages that go, and pages that stay.                                     *)
(***************************************************************************)

\* Another page is shown: what the last one and the dialog sent is nobody's, and the list
\* is asked for anew.
LEMMA PageGone ==
  ASSUME IInv', PageInv, NEW u \in User \cup {None}, NEW r \in {"home", "deck"}, NEW rest,
         Show(u, r, rest), \A c \in Conn : rest[c] \in {wire[c], None},
         UNCHANGED <<holder, decks, born>>, untold' \subseteq Deck
  PROVE  PageInv'
<1> DEFINE left == [c \in Conn |-> Orphan(rest[c])]
           load == Request(IF r = "home" THEN "list" ELSE "get", "page", jar', None)
<1>1. /\ user' = u /\ route' = r /\ list' = None /\ dialog' = None
      /\ IF u = None THEN wire' = left
         ELSE \E c \in Conn : left[c] = None /\ wire' = [left EXCEPT ![c] = load]
  BY DEF Show
<1>2. ASSUME NEW c \in Conn
      PROVE  /\ MessageOK(left[c]) /\ ReviewFits(left[c])
             /\ left[c] # None => /\ left[c].to \in {"app", "nobody"}
                                  /\ left[c].op = "delete" /\ left[c].state = "ok" =>
                                       left[c].arg \in born /\ decks[left[c].arg] = None
  <2>1. MessageOK(rest[c]) /\ ReviewFits(rest[c]) /\ (rest[c] # None => PageFits(rest[c]))
    BY DEF PageInv, WireFits, MessageOK, ReviewFits
  <2>2. /\ Stays(rest[c], Orphan(rest[c]))
        /\ Orphan(rest[c]) # None => Orphan(rest[c]).to \in {"app", "nobody"}
    BY <2>1, OrphanStays DEF MessageOK
  <2>3. MessageOK(Orphan(rest[c])) /\ ReviewFits(Orphan(rest[c]))
    BY <2>1, <2>2, StaysFits
  <2>4. left[c] = Orphan(rest[c])
    OBVIOUS
  <2> HIDE DEF left
  <2> QED
    BY <2>1, <2>2, <2>3, <2>4 DEF Stays, PageFits
<1>3. load \in Message /\ load # None
  BY RequestFits DEF IInv, TokensOK, Operations, Args
<1>4. /\ load.op = (IF r = "home" THEN "list" ELSE "get") /\ load.to = "page" /\ load.token = jar'
      /\ load.state = "sent"
  BY DEF Request
<1>5. u # None => jar' \in Token \cup {None} /\ (jar' # None => holder[jar'] = u)
  BY <1>1 DEF IInv, ActsForTheUserShown, TokensOK
<1>6. ASSUME NEW c \in Conn
      PROVE  \/ wire'[c] = left[c]
             \/ wire'[c] = load /\ u # None
  BY <1>1
<1>7. \A c, d \in Conn : wire'[c] = load /\ wire'[c] # left[c] /\ wire'[d] = load
                        /\ wire'[d] # left[d] => c = d
  BY <1>1
<1> HIDE DEF load, left
<1>8. ASSUME NEW c \in Conn
      PROVE  MessageOK(wire'[c]) /\ PageFits(wire[c])' /\ ReviewFits(wire'[c])
  <2>1. CASE wire'[c] = left[c]
    BY <1>2, <2>1 DEF PageFits
  <2>2. CASE wire'[c] = load /\ u # None
    <3>1. MessageOK(load) /\ ReviewFits(load)
      BY <1>3, <1>4 DEF MessageOK, ReviewFits
    <3>2. PageFits(wire[c])'
      BY <1>1, <1>4, <1>5, <2>2 DEF PageFits
    <3> QED
      BY <2>2, <3>1, <3>2
  <2> QED
    BY <1>6, <2>1, <2>2
<1>9. \A c \in Conn : ListFor(wire'[c]) => wire'[c] = load /\ wire'[c] # left[c]
  BY <1>2, <1>6 DEF ListFor
<1>10. WireFits'
  <2>1. \A c, d \in Conn : ListFor(wire[c])' /\ ListFor(wire[d])' => c = d
    BY <1>7, <1>9 DEF ListFor
  <2>2. \A c \in Conn : MessageOK(wire[c])' /\ ReviewFits(wire[c])'
    BY <1>8 DEF MessageOK, ReviewFits
  <2> QED
    BY <1>8, <2>1, <2>2 DEF WireFits
<1>11. ListsFollow'
  BY <1>1, <1>4, <1>9 DEF ListsFollow, ListFor
<1>12. StateOK' /\ DialogOK'
  BY <1>1 DEF PageInv, StateOK, DialogOK
<1>13. PicksStayWithTheirCards'
  BY DEF PageInv, PicksStayWithTheirCards
<1> QED
  BY <1>10, <1>11, <1>12, <1>13 DEF PageInv

\* The page stays, what is under way gets less, and what it told of is known to be untold.
LEMMA PageStays ==
  ASSUME PageInv, UNCHANGED <<holder, decks, born, user, route, list>>, untold' \subseteq Deck,
         \A c \in Conn : Stays(wire[c], wire'[c]),
         \A c \in Conn : wire'[c] # None /\ wire'[c].to = "dialog" => HasText',
         \A d \in Deck : Excused(d) => Excused(d)', DialogOK'
  PROVE  PageInv'
<1>1. StateOK'
  BY DEF PageInv, StateOK
<1>2. ASSUME NEW c \in Conn
      PROVE  /\ MessageOK(wire[c])' /\ ReviewFits(wire[c])' /\ PageFits(wire[c])'
             /\ ListFor(wire[c])' => ListFor(wire[c])
  <2>1. /\ MessageOK(wire'[c]) /\ ReviewFits(wire'[c])
        /\ ListFor(wire'[c]) => ListFor(wire[c])
    BY StaysFits DEF PageInv, WireFits
  <2>2. PageFits(wire[c])'
    BY DEF PageInv, WireFits, PageFits, Stays
  <2> QED
    BY <2>1, <2>2 DEF MessageOK, ReviewFits, ListFor
<1>3. WireFits'
  BY <1>2 DEF PageInv, WireFits
<1>4. DecksOf(user)' = DecksOf(user)
  BY DEF DecksOf
<1>5. list' # None => FollowsServer(list)'
  BY <1>4 DEF PageInv, ListsFollow, FollowsServer
<1>6. ASSUME NEW c \in Conn, ListFor(wire[c])', wire'[c].state = "ok"
      PROVE  FollowsServer(wire[c].answer)'
  <2>1. ListFor(wire[c]) /\ wire[c].state = "ok" /\ wire'[c].answer = wire[c].answer
    BY <1>2, <1>6 DEF ListFor, Stays
  <2> QED
    BY <1>4, <2>1 DEF PageInv, ListsFollow, FollowsServer
<1>7. PicksStayWithTheirCards'
  BY DEF PageInv, PicksStayWithTheirCards
<1> QED
  BY <1>1, <1>3, <1>5, <1>6, <1>7 DEF PageInv, ListsFollow

\* Something else than the list is asked for.
LEMMA OneSent ==
  ASSUME IInv, PageInv, UNCHANGED <<holder, decks, born, user, route, list, dialog, untold>>,
         NEW op \in Operations \ {"list"}, NEW to \in {"app", "page", "dialog"},
         NEW arg \in Args, Send(op, to, arg),
         to = "page" => user # None,
         to = "dialog" => HasText /\ op \in {"preview", "save"},
         op = "delete" => arg \in Deck /\ list # None,
         op = "preview" => arg \in Text,
         op = "save" =>
           /\ arg \in [text : Text, art : Seq(Image), meant : [Card -> Image] \cup {None}]
           /\ arg.meant # None =>
                /\ Len(arg.art) = Len(CardsOf[arg.text])
                /\ \A i \in DOMAIN arg.art : arg.art[i] = arg.meant[CardsOf[arg.text][i]]
  PROVE  PageInv'
<1> DEFINE m == Request(op, to, jar, arg)
<1>1. PICK c \in Conn : wire[c] = None /\ wire' = [wire EXCEPT ![c] = m]
  BY DEF Send
<1>2. m \in Message /\ m # None
  BY RequestFits DEF IInv, TokensOK
<1>3. m.op = op /\ m.to = to /\ m.token = jar /\ m.arg = arg /\ m.state = "sent"
  BY DEF Request
<1>4. wire'[c] = m /\ \A d \in Conn \ {c} : wire'[d] = wire[d]
  BY <1>1 DEF IInv, WireOK
<1> HIDE DEF m
<1>5. MessageOK(m) /\ ReviewFits(m) /\ ~ListFor(m)
  BY <1>2, <1>3 DEF MessageOK, ReviewFits, ListFor
<1>6. PageFits(wire[c])'
  BY <1>3, <1>4 DEF PageFits, IInv, ActsForTheUserShown, TokensOK, HasText
<1>7. WireFits'
  <2>1. ASSUME NEW d \in Conn
        PROVE  MessageOK(wire[d])' /\ ReviewFits(wire[d])' /\ PageFits(wire[d])'
    <3>1. CASE d = c
      BY <1>4, <1>5, <1>6, <3>1 DEF MessageOK, ReviewFits
    <3>2. CASE d # c
      BY <1>4, <3>2 DEF PageInv, WireFits, MessageOK, ReviewFits, PageFits, HasText
    <3> QED
      BY <3>1, <3>2
  <2>2. \A d, e \in Conn : ListFor(wire[d])' /\ ListFor(wire[e])' => d = e
    BY <1>4, <1>5 DEF PageInv, WireFits, ListFor
  <2> QED
    BY <2>1, <2>2 DEF WireFits
<1>8. \A d \in Deck : Excused(d) => Excused(d)'
  BY <1>1, <1>4 DEF Excused, Tells
<1>9. DecksOf(user)' = DecksOf(user)
  BY DEF DecksOf
<1>10. ListsFollow'
  <2>1. list' # None => FollowsServer(list)'
    BY <1>8, <1>9 DEF PageInv, ListsFollow, FollowsServer
  <2>2. ASSUME NEW d \in Conn, ListFor(wire[d])', wire'[d].state = "ok"
        PROVE  FollowsServer(wire[d].answer)'
    <3>1. d # c /\ wire'[d] = wire[d]
      BY <1>3, <1>4, <2>2
    <3> QED
      BY <1>8, <1>9, <2>2, <3>1 DEF PageInv, ListsFollow, FollowsServer, ListFor
  <2> QED
    BY <2>1, <2>2 DEF ListsFollow
<1>11. StateOK' /\ PicksStayWithTheirCards' /\ DialogOK'
  BY DEF PageInv, StateOK, PicksStayWithTheirCards, DialogOK, HasText
<1> QED
  BY <1>7, <1>10, <1>11 DEF PageInv

(***************************************************************************)
(* What the server carries out.                                            *)
(***************************************************************************)

\* The question on c is answered; what it was about is the same.
LEMMA AnswerFits ==
  ASSUME IInv, PageInv, NEW c \in Conn, wire[c] # None, NEW state \in {"ok", "refused"},
         NEW answer \in Answers, Answer(c, state, answer)
  PROVE  /\ wire'[c] \in Message /\ wire'[c] # None
         /\ wire'[c].op = wire[c].op /\ wire'[c].to = wire[c].to
         /\ wire'[c].token = wire[c].token /\ wire'[c].arg = wire[c].arg
         /\ wire'[c].state = state /\ wire'[c].answer = answer
         /\ \A d \in Conn \ {c} : wire'[d] = wire[d]
<1>1. /\ wire'[c] = [wire[c] EXCEPT !.state = state, !.answer = answer]
      /\ \A d \in Conn \ {c} : wire'[d] = wire[d]
  BY DEF Answer, IInv, WireOK
<1>2. wire[c] \in Message
  BY DEF PageInv, WireFits, MessageOK
<1>3. wire'[c] = [op |-> wire[c].op, to |-> wire[c].to, token |-> wire[c].token,
                  arg |-> wire[c].arg, state |-> state, answer |-> answer]
  BY <1>1, <1>2, MessageParts
<1>4. wire'[c] \in Message
  BY <1>2, <1>3, MessageParts, PartsOfMessage
<1> QED
  BY <1>1, <1>3, <1>4, NoneIsNoRecord

\* Whatever the server does, ids stay given, sessions stay with their users, and what is
\* deleted stays so.
LEMMA CarriedFits ==
  ASSUME IInv, PageInv, UNCHANGED <<user, route, list, dialog>>, StateOK',
         \A t \in Token : holder[t] # None => holder'[t] = holder[t],
         born \subseteq born', \A d \in born : decks[d] = None => decks'[d] = None,
         NEW c \in Conn, wire[c] # None, wire[c].state = "sent", NEW state \in {"ok", "refused"},
         NEW answer \in Answers, Answer(c, state, answer), MessageOK(wire'[c]),
         wire[c].op = "delete" /\ state = "ok" => wire[c].arg \in born /\ decks'[wire[c].arg] = None
  PROVE  /\ WireFits' /\ DialogOK'
         /\ \A d \in Deck : Excused(d) => Excused(d)' \/ d \in untold
         /\ \A d \in Conn : ListFor(wire[d])' => /\ ListFor(wire[d])
                                                 /\ d # c => wire'[d] = wire[d]
<1>1. /\ wire'[c] # None
      /\ wire'[c].op = wire[c].op /\ wire'[c].to = wire[c].to
      /\ wire'[c].token = wire[c].token /\ wire'[c].arg = wire[c].arg
      /\ wire'[c].state = state /\ wire'[c].answer = answer
      /\ \A d \in Conn \ {c} : wire'[d] = wire[d]
  BY AnswerFits
<1>2. ASSUME NEW d \in Conn
      PROVE  MessageOK(wire[d])' /\ ReviewFits(wire[d])' /\ PageFits(wire[d])'
  <2>1. CASE d = c
    <3>1. ReviewFits(wire[c])'
      BY <1>1 DEF PageInv, WireFits, ReviewFits
    <3>2. PageFits(wire[c])'
      <4>1. PageFits(wire[c])
        BY DEF PageInv, WireFits
      <4>2. user \in User \cup {None}
        BY DEF PageInv, StateOK
      <4> QED
        BY <1>1, <4>1, <4>2 DEF PageFits, HasText
    <3> QED
      BY <2>1, <3>1, <3>2 DEF MessageOK
  <2>2. CASE d # c
    <3>1. wire'[d] = wire[d] /\ MessageOK(wire[d]) /\ ReviewFits(wire[d]) /\ PageFits(wire[d])
      BY <1>1, <2>2 DEF PageInv, WireFits
    <3>2. PageFits(wire[d])'
      BY <3>1 DEF PageFits, HasText
    <3> QED
      BY <3>1, <3>2 DEF MessageOK, ReviewFits
  <2> QED
    BY <2>1, <2>2
<1>3. \A d \in Conn : ListFor(wire[d])' => ListFor(wire[d]) /\ (d # c => wire'[d] = wire[d])
  BY <1>1 DEF ListFor
<1>4. WireFits'
  BY <1>2, <1>3 DEF PageInv, WireFits
<1>5. \A d \in Deck : Excused(d) => Excused(d)' \/ d \in untold
  BY <1>1 DEF Excused, Tells
<1>6. DialogOK'
  BY DEF PageInv, DialogOK, HasText
<1> QED
  BY <1>3, <1>4, <1>5, <1>6

\* A list stays as good as it was, if the decks that change are spoken of.
LEMMA ListsStay ==
  ASSUME PageInv, UNCHANGED <<user, list>>,
         \A d \in Deck : Excused(d) => Excused(d)',
         \A d \in Deck : Excused(d)' \/ decks'[d] = decks[d],
         \A d \in Conn : ListFor(wire[d])' /\ wire'[d].state = "ok" =>
           ListFor(wire[d]) /\ wire'[d] = wire[d]
  PROVE  ListsFollow'
<1>1. \A d \in Deck : Excused(d)' \/ (d \in DecksOf(user)' <=> d \in DecksOf(user))
  BY DEF DecksOf
<1>2. list' # None => FollowsServer(list)'
  BY <1>1 DEF PageInv, ListsFollow, FollowsServer
<1>3. ASSUME NEW d \in Conn, ListFor(wire[d])', wire'[d].state = "ok"
      PROVE  FollowsServer(wire[d].answer)'
  <2>1. ListFor(wire[d]) /\ wire'[d] = wire[d] /\ wire[d].state = "ok"
    BY <1>3
  <2> QED
    BY <1>1, <2>1 DEF PageInv, ListsFollow, FollowsServer
<1> QED
  BY <1>2, <1>3 DEF ListsFollow

\* The answers about sessions, and the 401.
LEMMA CarryNoDeck ==
  ASSUME IInv, PageInv, NEW c \in Conn, wire[c] # None, wire[c].state = "sent",
         NEW state \in {"ok", "refused"}, NEW answer \in Answers, Answer(c, state, answer),
         state = "ok" => wire[c].op \in SessionOps \cup {"get", "preview"},
         state = "ok" /\ wire[c].op = "preview" => answer \in SUBSET Card,
         UNCHANGED <<user, route, list, dialog, decks, born, untold>>,
         \A t \in Token : holder[t] # None => holder'[t] = holder[t]
  PROVE  PageInv'
<1>1. /\ wire'[c] \in Message /\ wire'[c] # None
      /\ wire'[c].op = wire[c].op /\ wire'[c].to = wire[c].to
      /\ wire'[c].token = wire[c].token /\ wire'[c].arg = wire[c].arg
      /\ wire'[c].state = state /\ wire'[c].answer = answer
      /\ \A d \in Conn \ {c} : wire'[d] = wire[d]
  BY AnswerFits
<1>2. MessageOK(wire[c])
  BY DEF PageInv, WireFits
<1>3. MessageOK(wire'[c])
  BY <1>1, <1>2 DEF MessageOK, SessionOps
<1>4. StateOK'
  BY DEF PageInv, StateOK
<1>5. state = "ok" => wire[c].op # "delete" /\ wire[c].op # "list"
  BY DEF SessionOps
<1>6. /\ WireFits' /\ DialogOK'
      /\ \A d \in Deck : Excused(d) => Excused(d)' \/ d \in untold
      /\ \A d \in Conn : ListFor(wire[d])' => /\ ListFor(wire[d])
                                              /\ d # c => wire'[d] = wire[d]
  BY <1>3, <1>4, <1>5, CarriedFits
<1>7. \A d \in Deck : Excused(d) => Excused(d)'
  BY <1>6 DEF Excused
<1>8. \A d \in Conn : ListFor(wire[d])' /\ wire'[d].state = "ok" =>
        ListFor(wire[d]) /\ wire'[d] = wire[d]
  BY <1>1, <1>5, <1>6 DEF ListFor
<1>9. ListsFollow'
  BY <1>7, <1>8, ListsStay
<1>10. PicksStayWithTheirCards'
  BY DEF PageInv, PicksStayWithTheirCards
<1> QED
  BY <1>4, <1>6, <1>9, <1>10 DEF PageInv

\* The list of the user who asks for it, which makes up for what was untold.
LEMMA CarryList ==
  ASSUME IInv, PageInv, NEW c \in Conn, wire[c] # None, wire[c].state = "sent",
         wire[c].op = "list", NEW u, u = SessionUser(wire[c].token), u # None,
         Answer(c, "ok", DecksOf(u)), untold' = IF wire[c].to = "page" THEN {} ELSE untold,
         UNCHANGED <<user, route, list, dialog, decks, born, holder>>
  PROVE  PageInv'
<1>1. DecksOf(u) \in SUBSET Deck /\ DecksOf(u) \in Answers
  BY DEF DecksOf, Answers
<1>2. /\ wire'[c] \in Message /\ wire'[c] # None
      /\ wire'[c].op = wire[c].op /\ wire'[c].to = wire[c].to
      /\ wire'[c].token = wire[c].token /\ wire'[c].arg = wire[c].arg
      /\ wire'[c].state = "ok" /\ wire'[c].answer = DecksOf(u)
      /\ \A d \in Conn \ {c} : wire'[d] = wire[d]
  BY <1>1, AnswerFits
<1>3. MessageOK(wire'[c])
  BY <1>1, <1>2 DEF MessageOK
<1>4. StateOK'
  BY DEF PageInv, StateOK
<1>5. /\ WireFits' /\ DialogOK'
      /\ \A d \in Deck : Excused(d) => Excused(d)' \/ d \in untold
      /\ \A d \in Conn : ListFor(wire[d])' => /\ ListFor(wire[d])
                                              /\ d # c => wire'[d] = wire[d]
  BY <1>1, <1>3, <1>4, CarriedFits
<1>6. ListsFollow'
  <2>1. CASE wire[c].to = "page"
    <3>1. u = user /\ list = None
      <4>1. PageFits(wire[c]) /\ u = holder[wire[c].token] /\ wire[c].token \in Token
        BY DEF PageInv, WireFits, SessionUser, IInv, TokensOK
      <4> QED
        BY <2>1, <4>1, HomePageAssumption DEF PageFits
    <3>2. \A d \in Conn : ListFor(wire[d])' => d = c
      BY <1>2, <1>5, <2>1 DEF PageInv, WireFits, ListFor
    <3>3. DecksOf(user)' = DecksOf(u)
      BY <3>1 DEF DecksOf
    <3> QED
      BY <1>2, <3>1, <3>2, <3>3 DEF ListsFollow, FollowsServer
  <2>2. CASE wire[c].to # "page"
    <3>1. \A d \in Deck : Excused(d) => Excused(d)'
      BY <1>5, <2>2 DEF Excused
    <3>2. \A d \in Conn : ListFor(wire[d])' => d # c
      BY <1>2, <2>2 DEF ListFor
    <3> QED
      BY <1>5, <3>1, <3>2, ListsStay
  <2> QED
    BY <2>1, <2>2
<1>7. PicksStayWithTheirCards'
  BY DEF PageInv, PicksStayWithTheirCards
<1> QED
  BY <1>4, <1>5, <1>6, <1>7 DEF PageInv

LEMMA CarryDelete ==
  ASSUME IInv, PageInv, NEW c \in Conn, wire[c] # None, wire[c].state = "sent",
         wire[c].op = "delete", NEW u, wire[c].arg \in DecksOf(u),
         decks' = [decks EXCEPT ![wire[c].arg] = None], Answer(c, "ok", wire[c].arg),
         UNCHANGED <<user, route, list, dialog, born, holder, untold>>
  PROVE  PageInv'
<1>0. PICK e : e = wire[c].arg
  OBVIOUS
<1>1. e \in Deck /\ decks[e] # None /\ e \in Answers
  BY <1>0 DEF DecksOf, Answers
<1>2. /\ wire'[c] \in Message /\ wire'[c] # None
      /\ wire'[c].op = wire[c].op /\ wire'[c].to = wire[c].to
      /\ wire'[c].token = wire[c].token /\ wire'[c].arg = wire[c].arg
      /\ wire'[c].state = "ok" /\ wire'[c].answer = e
      /\ \A d \in Conn \ {c} : wire'[d] = wire[d]
  BY <1>0, <1>1, AnswerFits
<1>3. MessageOK(wire'[c])
  BY <1>0, <1>1, <1>2 DEF MessageOK
<1>4. StateOK' /\ e \in born /\ decks'[e] = None /\ \A d \in Deck \ {e} : decks'[d] = decks[d]
  BY <1>0, <1>1 DEF PageInv, StateOK
<1>5. /\ WireFits' /\ DialogOK'
      /\ \A d \in Deck : Excused(d) => Excused(d)' \/ d \in untold
      /\ \A d \in Conn : ListFor(wire[d])' => /\ ListFor(wire[d])
                                              /\ d # c => wire'[d] = wire[d]
  <2>1. \A d \in born : decks[d] = None => decks'[d] = None
    BY <1>4 DEF PageInv, StateOK
  <2> QED
    BY <1>0, <1>1, <1>3, <1>4, <2>1, CarriedFits
<1>6. ListsFollow'
  <2>1. \A d \in Deck : Excused(d) => Excused(d)'
    BY <1>5 DEF Excused
  <2>2. Excused(e)'
    BY <1>0, <1>2 DEF Excused, Tells
  <2>3. \A d \in Conn : ListFor(wire[d])' => d # c
    BY <1>2 DEF ListFor
  <2> QED
    BY <1>4, <1>5, <2>1, <2>2, <2>3, ListsStay
<1>7. PicksStayWithTheirCards'
  BY <1>4 DEF PageInv, PicksStayWithTheirCards
<1> QED
  BY <1>4, <1>5, <1>6, <1>7 DEF PageInv

\* A deck that is made is told of by the answer; its art is what the save had for its cards.
LEMMA CarryNewDeck ==
  ASSUME IInv, PageInv, NEW c \in Conn, wire[c] # None, wire[c].state = "sent",
         wire[c].op \in {"create", "save"}, NEW row \in SavedDeck, NewDeck(c, row),
         row.meant # None =>
           \A i \in DOMAIN row.art : row.art[i] = row.meant[CardsOf[row.text][i]],
         UNCHANGED <<user, route, list, dialog, holder>>
  PROVE  PageInv'
<1>1. PICK e \in Deck \ born :
        /\ decks' = [decks EXCEPT ![e] = row] /\ born' = born \cup {e}
        /\ Answer(c, "ok", e) /\ untold' = untold
  BY DEF NewDeck
<1>2. e \in Answers
  BY DEF Answers
<1>3. /\ wire'[c] \in Message /\ wire'[c] # None
      /\ wire'[c].op = wire[c].op /\ wire'[c].to = wire[c].to
      /\ wire'[c].token = wire[c].token /\ wire'[c].arg = wire[c].arg
      /\ wire'[c].state = "ok" /\ wire'[c].answer = e
      /\ \A d \in Conn \ {c} : wire'[d] = wire[d]
  BY <1>1, <1>2, AnswerFits
<1>4. MessageOK(wire[c])
  BY DEF PageInv, WireFits
<1>5. MessageOK(wire'[c])
  BY <1>3, <1>4 DEF MessageOK
<1>6. decks'[e] = row /\ \A d \in Deck \ {e} : decks'[d] = decks[d]
  BY <1>1 DEF PageInv, StateOK
<1>7. StateOK'
  BY <1>1, <1>6 DEF PageInv, StateOK
<1>8. /\ WireFits' /\ DialogOK'
      /\ \A d \in Deck : Excused(d) => Excused(d)' \/ d \in untold
      /\ \A d \in Conn : ListFor(wire[d])' => /\ ListFor(wire[d])
                                              /\ d # c => wire'[d] = wire[d]
  <2>1. \A d \in born : decks[d] = None => decks'[d] = None
    BY <1>1, <1>6 DEF PageInv, StateOK
  <2> QED
    BY <1>1, <1>2, <1>5, <1>7, <2>1, CarriedFits
<1>9. ListsFollow'
  <2>1. \A d \in Deck : Excused(d) => Excused(d)'
    BY <1>1, <1>8 DEF Excused
  <2>2. Excused(e)'
    BY <1>3 DEF Excused, Tells
  <2>3. \A d \in Conn : ListFor(wire[d])' => d # c
    BY <1>3 DEF ListFor
  <2> QED
    BY <1>6, <1>8, <2>1, <2>2, <2>3, ListsStay
<1>10. PicksStayWithTheirCards'
  BY <1>6 DEF PageInv, PicksStayWithTheirCards
<1> QED
  BY <1>7, <1>8, <1>9, <1>10 DEF PageInv

\* The deck of an import.
LEMMA ImportedFits ==
  ASSUME PageInv, NEW c \in Conn, wire[c] # None, wire[c].op = "save", NEW u \in User
  PROVE  LET row == Imported(u, wire[c].arg) IN
         /\ row \in SavedDeck
         /\ row.meant # None =>
              \A i \in DOMAIN row.art : row.art[i] = row.meant[CardsOf[row.text][i]]
<1> USE HomePageAssumption
<1> DEFINE arg == wire[c].arg
           cards == CardsOf[arg.text]
           art == [i \in DOMAIN cards |-> IF i <= Len(arg.art) THEN arg.art[i] ELSE None]
<1>1. arg \in [text : Text, art : Seq(Image), meant : [Card -> Image] \cup {None}]
  BY DEF PageInv, WireFits, MessageOK
<1>2. cards \in Seq(Card) /\ Len(cards) \in Nat /\ DOMAIN cards = 1 .. Len(cards)
  BY <1>1
<1>3. arg.art \in Seq(Image) /\ Len(arg.art) \in Nat /\ DOMAIN arg.art = 1 .. Len(arg.art)
      /\ \A i \in 1 .. Len(arg.art) : arg.art[i] \in Image
  BY <1>1
<1>4. arg.meant # None =>
        /\ Len(arg.art) = Len(cards)
        /\ \A i \in DOMAIN arg.art : arg.art[i] = arg.meant[cards[i]]
  BY DEF PageInv, WireFits, ReviewFits
<1> HIDE DEF cards
<1>5. art = [i \in 1 .. Len(cards) |-> IF i <= Len(arg.art) THEN arg.art[i] ELSE None]
  BY <1>2
<1> HIDE DEF art
<1>6. \A i \in 1 .. Len(cards) : art[i] = IF i <= Len(arg.art) THEN arg.art[i] ELSE None
  BY <1>5
<1>7. \A i \in 1 .. Len(cards) : art[i] \in Image
  BY <1>3, <1>6 DEF Image
<1>8. art \in Seq(Image)
  BY <1>2, <1>5, <1>7
<1>9. Imported(u, arg) = [owner |-> u, text |-> arg.text, meant |-> arg.meant, art |-> art]
  BY DEF Imported, cards, art
<1>10. Imported(u, arg) \in SavedDeck
  BY <1>1, <1>8, <1>9 DEF SavedDeck
<1>11. arg.meant # None => \A i \in 1 .. Len(cards) : art[i] = arg.meant[cards[i]]
  BY <1>2, <1>3, <1>4, <1>6
<1>12. DOMAIN art = 1 .. Len(cards)
  BY <1>5
<1> QED
  BY <1>9, <1>10, <1>11, <1>12 DEF cards

LEMMA CarryPage ==
  ASSUME IInv, PageInv, NEW c \in Conn, Carry(c)
  PROVE  PageInv'
<1> USE HomePageAssumption
<1>1. /\ wire[c] # None /\ wire[c].state = "sent"
      /\ UNCHANGED <<user, route, list, dialog>>
  BY DEF Carry, tab
<1>2. TokensOK /\ MessageOK(wire[c]) /\ None \in Answers
  BY DEF IInv, PageInv, WireFits, Answers
<1>3. SessionUser(wire[c].token) \in User \cup {None}
  BY <1>2 DEF SessionUser, TokensOK
<1>4. CASE wire[c].op \in SessionOps
  <2>1. CarryPublic(c, wire[c]) /\ UNCHANGED <<decks, born, untold>>
    BY <1>4 DEF Carry, SessionOps
  <2>2. CASE wire[c].op = "me"
    <3>1. PICK u \in {SessionUser(wire[c].token), None} : Answer(c, "ok", u)
      BY <2>1, <2>2 DEF CarryPublic
    <3>2. u \in Answers /\ holder' = holder
      BY <1>3, <2>1, <2>2 DEF CarryPublic, Answers
    <3> QED
      BY <1>1, <1>4, <2>1, <2>2, <3>1, <3>2, CarryNoDeck
  <2>3. CASE wire[c].op = "login"
    <3>1. PICK t \in {s \in Token : holder[s] = None} :
            holder' = [holder EXCEPT ![t] = wire[c].arg] /\ Answer(c, "ok", t)
      BY <2>1, <2>3 DEF CarryPublic
    <3>2. t \in Answers /\ \A s \in Token : holder[s] # None => holder'[s] = holder[s]
      BY <1>2, <3>1 DEF Answers, TokensOK
    <3> QED
      BY <1>1, <1>4, <2>1, <2>3, <3>1, <3>2, CarryNoDeck
  <2>4. CASE wire[c].op = "logout"
    <3>1. Answer(c, "ok", None) /\ holder' = holder
      BY <2>1, <2>4 DEF CarryPublic
    <3> QED
      BY <1>1, <1>2, <1>4, <2>1, <2>4, <3>1, CarryNoDeck
  <2> QED
    BY <1>4, <2>2, <2>3, <2>4 DEF SessionOps
<1>5. CASE wire[c].op \notin SessionOps
  <2>1. holder' = holder
    BY <1>5 DEF Carry, SessionOps
  <2>2. CASE Answer(c, "refused", None) /\ UNCHANGED <<decks, born, untold>>
    BY <1>1, <1>2, <2>1, <2>2, CarryNoDeck
  <2>3. PICK u : u = SessionUser(wire[c].token)
    OBVIOUS
  <2>4. CASE u # None /\ CarryFor(c, wire[c], u)
    <3>1. u \in User
      BY <1>3, <2>3, <2>4
    <3>2. CASE /\ wire[c].op = "list" /\ Answer(c, "ok", DecksOf(u))
               /\ untold' = (IF wire[c].to = "page" THEN {} ELSE untold)
               /\ UNCHANGED <<decks, born>>
      BY <1>1, <2>1, <2>3, <2>4, <3>2, CarryList
    <3>3. CASE /\ wire[c].op = "get" /\ Answer(c, "ok", None)
               /\ UNCHANGED <<decks, born, untold>>
      BY <1>1, <1>2, <2>1, <3>3, CarryNoDeck
    <3>4. CASE /\ wire[c].op = "create"
               /\ NewDeck(c, [owner |-> u, text |-> None, art |-> <<>>, meant |-> None])
      <4>1. [owner |-> u, text |-> None, art |-> <<>>, meant |-> None] \in SavedDeck
        <5>1. <<>> \in Seq(Image)
          OBVIOUS
        <5> QED
          BY <3>1, <5>1 DEF SavedDeck
      <4> QED
        BY <1>1, <2>1, <3>4, <4>1, CarryNewDeck
    <3>5. CASE /\ wire[c].op = "delete" /\ wire[c].arg \in DecksOf(u)
               /\ decks' = [decks EXCEPT ![wire[c].arg] = None]
               /\ Answer(c, "ok", wire[c].arg) /\ UNCHANGED <<born, untold>>
      BY <1>1, <2>1, <3>5, CarryDelete
    <3>6. CASE /\ wire[c].op = "preview"
               /\ \E found \in SUBSET ToSet(CardsOf[wire[c].arg]) : Answer(c, "ok", found)
               /\ UNCHANGED <<decks, born, untold>>
      <4>1. PICK found \in SUBSET ToSet(CardsOf[wire[c].arg]) : Answer(c, "ok", found)
        BY <3>6
      <4>2. CardsOf[wire[c].arg] \in Seq(Card)
        BY <1>1, <1>2, <3>6 DEF MessageOK
      <4>3. ToSet(CardsOf[wire[c].arg]) \subseteq Card
        BY <4>2 DEF ToSet
      <4>4. found \in SUBSET Card /\ found \in Answers
        BY <4>1, <4>3 DEF Answers
      <4> QED
        BY <1>1, <2>1, <3>6, <4>1, <4>4, CarryNoDeck
    <3>7. CASE wire[c].op = "save" /\ NewDeck(c, Imported(u, wire[c].arg))
      <4>1. PICK row : row = Imported(u, wire[c].arg)
        OBVIOUS
      <4>2. /\ row \in SavedDeck
            /\ row.meant # None =>
                 \A i \in DOMAIN row.art : row.art[i] = row.meant[CardsOf[row.text][i]]
        BY <1>1, <3>1, <3>7, <4>1, ImportedFits
      <4> QED
        BY <1>1, <2>1, <3>7, <4>1, <4>2, CarryNewDeck
    <3> QED
      BY <2>4, <3>2, <3>3, <3>4, <3>5, <3>6, <3>7 DEF CarryFor
  <2> QED
    BY <1>5, <2>2, <2>3, <2>4 DEF Carry, SessionOps
<1> QED
  BY <1>4, <1>5

(***************************************************************************)
(* The import dialog.                                                      *)
(***************************************************************************)

LEMMA DialogParts ==
  ASSUME NEW d \in Dialog
  PROVE  /\ d = [text |-> d.text, preview |-> d.preview, picks |-> d.picks,
                 chosen |-> d.chosen, keys |-> d.keys]
         /\ d.text \in Text \cup {None}
         /\ d.preview # None => d.preview.text \in Text /\ d.preview.found \in SUBSET Card
         /\ d.preview \in [text : Text, found : SUBSET Card] \cup {None}
         /\ d.picks \in [Key -> Image] /\ d.chosen \in [Card -> Image] /\ d.keys \in SUBSET Key
BY DEF Dialog

LEMMA PartsOfDialog ==
  ASSUME NEW text \in Text \cup {None},
         NEW preview \in [text : Text, found : SUBSET Card] \cup {None},
         NEW picks \in [Key -> Image], NEW chosen \in [Card -> Image], NEW keys \in SUBSET Key
  PROVE  [text |-> text, preview |-> preview, picks |-> picks, chosen |-> chosen,
          keys |-> keys] \in Dialog
BY DEF Dialog

\* The keys of a reading are keys of its cards.
LEMMA KeysOfReading ==
  ASSUME NEW reading \in [text : Text, found : SUBSET Card]
  PROVE  /\ \A i \in DOMAIN CardsOf[reading.text] :
              /\ ImageKey(reading, i) \in KeysOf(reading) /\ ImageKey(reading, i) \in Key
              /\ ImageKey(reading, i)[1] = CardsOf[reading.text][i]
              /\ CardsOf[reading.text][i] \in Card
         /\ KeysOf(reading) \in SUBSET Key
<1> USE HomePageAssumption
<1>1. CardsOf[reading.text] \in Seq(Card)
  OBVIOUS
<1>2. \A i \in DOMAIN CardsOf[reading.text] : CardsOf[reading.text][i] \in Card
  BY <1>1
<1>3. ASSUME NEW i \in DOMAIN CardsOf[reading.text]
      PROVE  \E there \in BOOLEAN : ImageKey(reading, i) = <<CardsOf[reading.text][i], there>>
  <2>1. PICK card : card = CardsOf[reading.text][i]
    OBVIOUS
  <2>2. CASE card \in reading.found
    <3>1. (card \in reading.found) = TRUE
      BY <2>2
    <3> QED
      BY <2>1, <3>1 DEF ImageKey
  <2>3. CASE card \notin reading.found
    <3>1. (card \in reading.found) = FALSE
      BY <2>3
    <3> QED
      BY <2>1, <3>1 DEF ImageKey
  <2> QED
    BY <2>2, <2>3
<1>4. \A i \in DOMAIN CardsOf[reading.text] :
        ImageKey(reading, i) \in Key /\ ImageKey(reading, i)[1] = CardsOf[reading.text][i]
  BY <1>2, <1>3 DEF Key
<1> QED
  BY <1>2, <1>4 DEF KeysOf

LEMMA PickArtKeeps ==
  ASSUME PageInv, PickArt
  PROVE  DialogOK' /\ (HasText => HasText')
<1>1. PICK i \in DOMAIN CardsOf[dialog.preview.text], art \in Art :
        dialog' = [dialog EXCEPT
          !.picks = [dialog.picks EXCEPT ![ImageKey(dialog.preview, i)] = art],
          !.chosen = [dialog.chosen EXCEPT ![CardsOf[dialog.preview.text][i]] = art]]
  BY DEF PickArt
<1>2. /\ dialog # None /\ dialog.preview # None /\ dialog \in Dialog
      /\ KeysOf(dialog.preview) \subseteq dialog.keys
  BY DEF PickArt, PageInv, DialogOK
<1>3. dialog.preview \in [text : Text, found : SUBSET Card]
  BY <1>2, DialogParts
<1>4. PICK key, card : key = ImageKey(dialog.preview, i) /\ card = CardsOf[dialog.preview.text][i]
  OBVIOUS
<1>5. key \in dialog.keys /\ key \in Key /\ key[1] = card /\ card \in Card
  BY <1>2, <1>3, <1>4, KeysOfReading
<1>6. PICK picks, chosen, half :
        /\ picks = [dialog.picks EXCEPT ![key] = art]
        /\ chosen = [dialog.chosen EXCEPT ![card] = art]
        /\ half = [dialog EXCEPT !.picks = picks]
        /\ dialog' = [half EXCEPT !.chosen = chosen]
  BY <1>1, <1>4
<1>6a. half = [text |-> dialog.text, preview |-> dialog.preview, picks |-> picks,
               chosen |-> dialog.chosen, keys |-> dialog.keys]
  BY <1>2, <1>6, DialogParts
<1>6b. dialog' = [text |-> dialog.text, preview |-> dialog.preview, picks |-> picks,
                  chosen |-> chosen, keys |-> dialog.keys]
  BY <1>6, <1>6a
<1>7. art \in Image
  BY DEF Image
<1>8. picks \in [Key -> Image] /\ chosen \in [Card -> Image]
  BY <1>2, <1>6, <1>7, DialogParts
<1>9. dialog' \in Dialog
  BY <1>2, <1>6b, <1>8, DialogParts, PartsOfDialog
<1>10. ASSUME NEW k \in Key, <<k[1], ~k[2]>> \notin dialog.keys
       PROVE  picks[k] = chosen[k[1]]
  <2>1. dialog.picks[k] = dialog.chosen[k[1]]
    BY <1>2, <1>10 DEF PageInv, DialogOK
  <2>2. CASE k[1] # card
    <3>1. k # key /\ k[1] \in Card
      BY <1>5, <2>2 DEF Key
    <3> QED
      BY <1>2, <1>6, <2>1, <2>2, <3>1, DialogParts
  <2>3. CASE k[1] = card
    <3>1. k = key
      <4>1. k = <<k[1], k[2]>> /\ key = <<key[1], key[2]>> /\ k[2] \in BOOLEAN /\ key[2] \in BOOLEAN
        BY <1>5 DEF Key
      <4>2. k[2] = key[2] \/ key[2] = ~k[2]
        BY <4>1
      <4>3. key[2] # ~k[2]
        BY <1>5, <1>10, <2>3, <4>1
      <4> QED
        BY <1>5, <2>3, <4>1, <4>2, <4>3
    <3> QED
      BY <1>2, <1>5, <1>6, <2>3, <3>1, DialogParts
  <2> QED
    BY <2>2, <2>3
<1>11. /\ dialog'.preview = dialog.preview /\ dialog'.keys = dialog.keys
       /\ dialog'.picks = picks /\ dialog'.chosen = chosen /\ dialog'.text = dialog.text
  BY <1>6b
<1>12. HasText /\ HasText'
  BY <1>2, <1>9, <1>11, NoneIsNoRecord DEF PageInv, DialogOK, HasText
<1> QED
  BY <1>2, <1>9, <1>10, <1>11, <1>12 DEF DialogOK, KeysOf, ImageKey

\* The text or the reading of the dialog is another one, and the picks are the same.
LEMMA DialogChanged ==
  ASSUME PageInv, dialog # None, NEW text \in Text \cup {None},
         NEW preview \in [text : Text, found : SUBSET Card] \cup {None},
         NEW keys \in SUBSET Key, dialog.keys \subseteq keys,
         preview # None => text # None /\ KeysOf(preview) \subseteq keys,
         dialog' = [text |-> text, preview |-> preview, picks |-> dialog.picks,
                    chosen |-> dialog.chosen, keys |-> keys]
  PROVE  DialogOK' /\ (text # None => HasText')
<1>1. dialog \in Dialog
  BY DEF PageInv, DialogOK
<1>2. dialog' \in Dialog
  BY <1>1, DialogParts, PartsOfDialog
<1>3. /\ dialog'.preview = preview /\ dialog'.keys = keys /\ dialog'.text = text
      /\ dialog'.picks = dialog.picks /\ dialog'.chosen = dialog.chosen
  OBVIOUS
<1>4. text # None => HasText'
  BY <1>2, <1>3, NoneIsNoRecord DEF HasText
<1> QED
  BY <1>2, <1>3, <1>4 DEF PageInv, DialogOK, KeysOf, ImageKey

\* The dialog opens, its text changes, or the user goes back to it.
LEMMA DialogKeeps ==
  ASSUME PageInv, OpenImport \/ EditText \/ Back \/ PickArt
  PROVE  DialogOK' /\ (HasText => HasText')
<1>1. CASE OpenImport
  <2>1. dialog' = [text |-> None, preview |-> None, picks |-> [k \in Key |-> None],
                   chosen |-> [c \in Card |-> None], keys |-> {}] /\ dialog = None
    BY <1>1 DEF OpenImport
  <2>2. [k \in Key |-> None] \in [Key -> Image] /\ [c \in Card |-> None] \in [Card -> Image]
    BY DEF Image
  <2>3. dialog' \in Dialog
    BY <2>1, <2>2, PartsOfDialog
  <2>4. /\ dialog'.preview = None /\ dialog'.picks = [k \in Key |-> None]
        /\ dialog'.chosen = [c \in Card |-> None]
    BY <2>1
  <2>5. \A k \in Key : k[1] \in Card
    BY DEF Key
  <2>6. \A k \in Key : dialog'.picks[k] = None /\ dialog'.chosen[k[1]] = None
    BY <2>4, <2>5
  <2> QED
    BY <2>1, <2>3, <2>4, <2>6 DEF DialogOK, HasText
<1>2. dialog # None => dialog \in Dialog
  BY DEF PageInv, DialogOK
<1>3. CASE EditText
  <2>1. PICK text \in Text : dialog' = [dialog EXCEPT !.text = text]
    BY <1>3 DEF EditText
  <2>2. dialog # None /\ dialog.preview = None
    BY <1>3 DEF EditText
  <2>3. dialog' = [text |-> text, preview |-> None, picks |-> dialog.picks,
                   chosen |-> dialog.chosen, keys |-> dialog.keys]
    BY <1>2, <2>1, <2>2, DialogParts
  <2>4. dialog.keys \in SUBSET Key
    BY <1>2, <2>2, DialogParts
  <2> QED
    BY <2>2, <2>3, <2>4, DialogChanged, HomePageAssumption
<1>4. CASE Back
  <2>1. dialog # None /\ dialog' = [dialog EXCEPT !.preview = None]
    BY <1>4 DEF Back
  <2>2. dialog' = [text |-> dialog.text, preview |-> None, picks |-> dialog.picks,
                   chosen |-> dialog.chosen, keys |-> dialog.keys]
    BY <1>2, <2>1, DialogParts
  <2>3. dialog.keys \in SUBSET Key /\ dialog.text \in Text \cup {None}
    BY <1>2, <2>1, DialogParts
  <2> QED
    BY <2>1, <2>2, <2>3, DialogChanged DEF HasText
<1>5. CASE PickArt
  BY <1>5, PickArtKeeps
<1> QED
  BY <1>1, <1>3, <1>4, <1>5

\* The reading that was asked for comes, with its keys.
LEMMA PreviewedKeeps ==
  ASSUME PageInv, NEW c \in Conn, wire[c] # None, wire[c].state = "ok",
         dialog' = Previewed(wire[c])
  PROVE  DialogOK' /\ (HasText => HasText')
<1> DEFINE m == wire[c]
           reading == [text |-> m.arg, found |-> m.answer]
<1>1. CASE m.op = "preview" /\ m.to = "dialog" /\ CardsOf[m.arg] # <<>>
  <2>1. /\ dialog # None /\ dialog \in Dialog
        /\ reading \in [text : Text, found : SUBSET Card] /\ dialog.text # None
    BY <1>1 DEF PageInv, WireFits, MessageOK, PageFits, DialogOK, HasText
  <2>2. KeysOf(reading) \in SUBSET Key
    BY <2>1, KeysOfReading
  <2>3. PICK keys, half : /\ keys = dialog.keys \cup KeysOf(reading)
                          /\ half = [dialog EXCEPT !.preview = reading]
                          /\ dialog' = [half EXCEPT !.keys = half.keys \cup KeysOf(reading)]
    BY <1>1 DEF Previewed
  <2> HIDE DEF reading
  <2>4. half = [text |-> dialog.text, preview |-> reading, picks |-> dialog.picks,
                chosen |-> dialog.chosen, keys |-> dialog.keys]
    BY <2>1, <2>3, DialogParts
  <2>5. dialog' = [text |-> dialog.text, preview |-> reading, picks |-> dialog.picks,
                   chosen |-> dialog.chosen, keys |-> keys]
    BY <2>3, <2>4
  <2>6. /\ keys \in SUBSET Key /\ dialog.keys \subseteq keys /\ KeysOf(reading) \subseteq keys
        /\ dialog.text \in Text \cup {None}
    BY <2>1, <2>2, <2>3, DialogParts
  <2> QED
    BY <2>1, <2>5, <2>6, DialogChanged
<1>2. CASE ~(m.op = "preview" /\ m.to = "dialog" /\ CardsOf[m.arg] # <<>>)
  <2>1. dialog' = dialog
    BY <1>2 DEF Previewed
  <2> QED
    BY <2>1 DEF PageInv, DialogOK, KeysOf, ImageKey, HasText
<1> QED
  BY <1>1, <1>2

(***************************************************************************)
(* The answers.                                                            *)
(***************************************************************************)

LEMMA RestStays ==
  ASSUME IInv, PageInv, NEW c \in Conn
  PROVE  /\ Rest(c)[c] = None
         /\ \A d \in Conn \ {c} : Rest(c)[d] = wire[d]
         /\ \A d \in Conn : Rest(c)[d] \in {wire[d], None} /\ Stays(wire[d], Rest(c)[d])
<1>1. Rest(c)[c] = None /\ \A d \in Conn \ {c} : Rest(c)[d] = wire[d]
  BY RestOfWire DEF IInv
<1>2. \A d \in Conn : wire[d] # None => wire[d] \in Message
  BY DEF PageInv, WireFits, MessageOK
<1>3. \A d \in Conn : Stays(wire[d], wire[d]) /\ Stays(wire[d], None)
  BY <1>2, SameStays
<1>4. \A d \in Conn : Rest(c)[d] \in {wire[d], None}
  BY <1>1
<1> QED
  BY <1>1, <1>3, <1>4

\* The page stays, and what the answer that is gone told of is untold or was no news.
LEMMA RestKeeps ==
  ASSUME IInv, PageInv, NEW c \in Conn, wire' = Rest(c),
         UNCHANGED <<holder, decks, born, user, route, list>>,
         untold \subseteq untold', untold' \subseteq Deck,
         \A d \in Deck : Tells(wire[c], d) => d \in untold',
         DialogOK', HasText => HasText'
  PROVE  PageInv'
<1>1. \A d \in Conn : Stays(wire[d], wire'[d]) /\ wire'[d] \in {wire[d], None}
  BY RestStays
<1>2. \A d \in Conn : wire'[d] # None /\ wire'[d].to = "dialog" => HasText'
  BY <1>1 DEF PageInv, WireFits, PageFits
<1>3. \A d \in Conn \ {c} : wire'[d] = wire[d]
  BY RestStays
<1>4. \A d \in Deck : Excused(d) => Excused(d)'
  BY <1>3 DEF Excused
<1> QED
  BY <1>1, <1>2, <1>4, PageStays

\* The list the page has asked for.
LEMMA HearList ==
  ASSUME IInv, PageInv, NEW c \in Conn, ListFor(wire[c]), wire[c].state = "ok",
         wire' = Rest(c), list' = wire[c].answer,
         UNCHANGED <<holder, decks, born, user, route, dialog, untold>>
  PROVE  PageInv'
<1>1. /\ wire'[c] = None
      /\ \A d \in Conn \ {c} : wire'[d] = wire[d]
  BY RestStays
<1>2. list' \in SUBSET Deck /\ list' # None
  BY HomePageAssumption DEF PageInv, WireFits, MessageOK, ListFor
<1>3. StateOK'
  BY <1>2 DEF PageInv, StateOK
<1>4. \A d \in Conn \ {c} : ~ListFor(wire[d])
  BY DEF PageInv, WireFits
<1>5. ASSUME NEW d \in Conn
      PROVE  MessageOK(wire[d])' /\ ReviewFits(wire[d])' /\ PageFits(wire[d])' /\ ~ListFor(wire[d])'
  <2>1. CASE d = c
    BY <1>1, <2>1 DEF MessageOK, ReviewFits, PageFits, ListFor
  <2>2. CASE d # c
    <3>1. /\ wire'[d] = wire[d] /\ MessageOK(wire[d]) /\ ReviewFits(wire[d]) /\ PageFits(wire[d])
          /\ ~ListFor(wire[d])
      BY <1>1, <1>4, <2>2 DEF PageInv, WireFits
    <3>2. PageFits(wire[d])'
      BY <1>2, <3>1 DEF PageFits, ListFor, HasText
    <3> QED
      BY <3>1, <3>2 DEF MessageOK, ReviewFits, ListFor
  <2> QED
    BY <2>1, <2>2
<1>6. WireFits'
  BY <1>5 DEF WireFits
<1>7. \A d \in Deck : Excused(d) => Excused(d)'
  BY <1>1 DEF Excused, Tells, ListFor
<1>8. DecksOf(user)' = DecksOf(user)
  BY DEF DecksOf
<1>9. ListsFollow'
  <2>1. FollowsServer(wire[c].answer)
    BY DEF PageInv, ListsFollow
  <2>2. FollowsServer(list)'
    BY <1>7, <1>8, <2>1 DEF FollowsServer
  <2> QED
    BY <1>5, <2>2 DEF ListsFollow
<1>10. DialogOK' /\ PicksStayWithTheirCards'
  BY DEF PageInv, DialogOK, PicksStayWithTheirCards, HasText
<1> QED
  BY <1>3, <1>6, <1>9, <1>10 DEF PageInv

\* The deck the page has deleted leaves its list.
LEMMA HearDelete ==
  ASSUME IInv, PageInv, NEW c \in Conn, wire[c] # None, wire[c].op = "delete",
         wire[c].to = "page", wire[c].state = "ok",
         wire' = Rest(c), list' = list \ {wire[c].arg},
         UNCHANGED <<holder, decks, born, user, route, dialog, untold>>
  PROVE  PageInv'
<1>0. PICK e : e = wire[c].arg
  OBVIOUS
<1>1. /\ wire'[c] = None
      /\ \A d \in Conn \ {c} : wire'[d] = wire[d]
  BY RestStays
<1>2. list # None /\ e \in Deck /\ decks[e] = None
  BY <1>0 DEF PageInv, WireFits, PageFits, MessageOK
<1>3. list \in SUBSET Deck /\ list' = list \ {e}
  BY <1>0, <1>2 DEF PageInv, StateOK
<1>4. list' \in SUBSET Deck /\ list' # None
  BY <1>3, HomePageAssumption
<1>5. StateOK'
  BY <1>4 DEF PageInv, StateOK
<1>6. \A d \in Conn : ~ListFor(wire[d])
  BY <1>2 DEF PageInv, WireFits, PageFits, ListFor
<1>7. ASSUME NEW d \in Conn
      PROVE  MessageOK(wire[d])' /\ ReviewFits(wire[d])' /\ PageFits(wire[d])' /\ ~ListFor(wire[d])'
  <2>1. CASE d = c
    BY <1>1, <2>1 DEF MessageOK, ReviewFits, PageFits, ListFor
  <2>2. CASE d # c
    <3>1. /\ wire'[d] = wire[d] /\ MessageOK(wire[d]) /\ ReviewFits(wire[d]) /\ PageFits(wire[d])
          /\ ~ListFor(wire[d])
      BY <1>1, <1>6, <2>2 DEF PageInv, WireFits
    <3>2. PageFits(wire[d])'
      BY <1>4, <3>1 DEF PageFits, ListFor, HasText
    <3> QED
      BY <3>1, <3>2 DEF MessageOK, ReviewFits, ListFor
  <2> QED
    BY <2>1, <2>2
<1>8. WireFits'
  BY <1>7 DEF WireFits
<1>9. \A d \in Deck \ {e} : Excused(d) => Excused(d)'
  BY <1>0, <1>1 DEF Excused, Tells
<1>10. DecksOf(user)' = DecksOf(user) /\ e \notin DecksOf(user)
  BY <1>2 DEF DecksOf
<1>11. ListsFollow'
  <2>1. FollowsServer(list)
    BY <1>2 DEF PageInv, ListsFollow
  <2>2. FollowsServer(list)'
    BY <1>3, <1>9, <1>10, <2>1 DEF FollowsServer
  <2> QED
    BY <1>7, <2>2 DEF ListsFollow
<1>12. DialogOK' /\ PicksStayWithTheirCards'
  BY DEF PageInv, DialogOK, PicksStayWithTheirCards, HasText
<1> QED
  BY <1>5, <1>8, <1>11, <1>12 DEF PageInv

LEMMA HearPageOfTab ==
  ASSUME IInv, PageInv, IInv', NEW c \in Conn, Hear(c)
  PROVE  PageInv'
<1>1. /\ wire[c] # None /\ wire[c].state # "sent" /\ wire[c].to # "nobody"
      /\ UNCHANGED <<holder, decks, born>>
      /\ untold' = IF wire[c].op = "delete" /\ wire[c].state = "ok" /\ wire[c].to # "page"
                   THEN untold \cup {wire[c].arg} ELSE untold
  BY DEF Hear, server
<1>2. MessageOK(wire[c]) /\ PageFits(wire[c]) /\ MeFits(wire[c]) /\ LoginFits(wire[c])
      /\ IsMessage(wire[c])
  BY <1>1 DEF PageInv, WireFits, IInv, WireOK
<1>3. untold \subseteq untold' /\ untold' \subseteq Deck
  BY <1>1, <1>2 DEF PageInv, StateOK, MessageOK
<1>4. user \in User \cup {None} /\ route \in {"home", "deck"}
  BY DEF PageInv, StateOK
<1>5. \A d \in Conn : Rest(c)[d] \in {wire[d], None}
  BY RestStays
<1>6. ASSUME NEW u \in User \cup {None}, NEW r \in {"home", "deck"}, Show(u, r, Rest(c))
      PROVE  PageInv'
  BY <1>1, <1>3, <1>5, <1>6, PageGone
<1>7. CASE wire[c].state = "refused" /\ Show(None, route, Rest(c))
  BY <1>4, <1>6, <1>7
<1>8. CASE /\ wire[c].state = IF wire[c].op \in {"login", "logout"} THEN "taken" ELSE "ok"
           /\ wire[c].op \in SessionOps /\ HearAuth(wire[c], Rest(c))
  <2>1. CASE wire[c].op = "me"
    <3>1. wire[c].to = "app"
      BY <1>1, <1>2, <1>8 DEF IsMessage
    <3>2. wire[c].answer \in User \cup {None}
      BY <1>1, <1>2, <1>8, <2>1, <3>1 DEF MeFits, Awaits, IInv, TokensOK
    <3> QED
      BY <1>4, <1>6, <1>8, <2>1, <3>2 DEF HearAuth
  <2>2. CASE wire[c].op = "login"
    <3>1. wire[c].arg \in User
      BY <1>1, <1>2, <2>2 DEF LoginFits
    <3> QED
      BY <1>4, <1>6, <1>8, <2>2, <3>1 DEF HearAuth
  <2>3. CASE wire[c].op = "logout"
    <3>1. CASE Show(None, route, Rest(c))
      BY <1>4, <1>6, <3>1
    <3>2. CASE wire' = Rest(c) /\ UNCHANGED tab
      <4>1. UNCHANGED <<user, route, list, dialog>>
        BY <3>2 DEF tab
      <4>2. DialogOK' /\ (HasText => HasText')
        BY <4>1 DEF PageInv, DialogOK, HasText
      <4>3. \A d \in Deck : ~Tells(wire[c], d)
        BY <2>3 DEF Tells
      <4> QED
        BY <1>1, <1>3, <3>2, <4>1, <4>2, <4>3, RestKeeps
    <3> QED
      BY <1>8, <2>3, <3>1, <3>2 DEF HearAuth, AfterLogout
  <2> QED
    BY <1>8, <2>1, <2>2, <2>3 DEF SessionOps
<1>9. CASE wire[c].state = "ok" /\ wire[c].op \in {"create", "save"} /\ Show(user, "deck", Rest(c))
  BY <1>4, <1>6, <1>9
<1>10. CASE /\ wire[c].state = "ok" /\ wire[c].op \in {"list", "get", "delete", "preview"}
            /\ HearPage(wire[c], Rest(c))
  <2>1. /\ dialog' = Previewed(wire[c]) /\ wire' = Rest(c) /\ UNCHANGED <<user, route>>
        /\ list' = CASE ForThisPage(wire[c]) -> wire[c].answer
                     [] wire[c].op = "delete" /\ wire[c].to = "page" -> list \ {wire[c].arg}
                     [] OTHER -> list
    BY <1>10 DEF HearPage
  <2>2. DialogOK' /\ (HasText => HasText')
    BY <1>1, <1>10, <2>1, PreviewedKeeps
  <2>3. CASE ForThisPage(wire[c])
    <3>1. list' = wire[c].answer /\ dialog' = dialog /\ untold' = untold
      BY <1>1, <2>1, <2>3 DEF ForThisPage, Previewed
    <3>2. ListFor(wire[c])
      BY <1>1, <2>3 DEF ForThisPage, ListFor
    <3> QED
      BY <1>1, <1>10, <2>1, <3>1, <3>2, HearList
  <2>4. CASE wire[c].op = "delete" /\ wire[c].to = "page"
    <3>1. list' = list \ {wire[c].arg} /\ dialog' = dialog /\ untold' = untold
      BY <1>1, <2>1, <2>4 DEF ForThisPage, Previewed
    <3> QED
      BY <1>1, <1>10, <2>1, <2>4, <3>1, HearDelete
  <2>5. CASE ~ForThisPage(wire[c]) /\ ~(wire[c].op = "delete" /\ wire[c].to = "page")
    <3>1. list' = list
      BY <2>1, <2>5
    <3>2. \A d \in Deck : Tells(wire[c], d) => d \in untold'
      BY <1>1, <1>10, <2>5 DEF Tells
    <3> QED
      BY <1>1, <1>3, <2>1, <2>2, <3>1, <3>2, RestKeeps
  <2> QED
    BY <2>3, <2>4, <2>5
<1> QED
  BY <1>7, <1>8, <1>9, <1>10 DEF Hear, SessionOps

\* A cookie is nothing to the page.
LEMMA TakeCookiePage ==
  ASSUME IInv, PageInv, NEW c \in Conn, TakeCookie(c)
  PROVE  PageInv'
<1>1. /\ wire[c] # None /\ wire[c].op \in {"login", "logout"} /\ wire[c].to = "app"
      /\ UNCHANGED <<holder, decks, born, user, route, list, dialog, untold>>
  BY DEF TakeCookie, server, tab
<1>2. wire[c] \in Message
  BY <1>1 DEF PageInv, WireFits, MessageOK
<1>3. /\ wire'[c] = [wire[c] EXCEPT !.state = "taken"]
      /\ \A d \in Conn \ {c} : wire'[d] = wire[d]
  BY DEF TakeCookie, IInv, WireOK
<1>4. /\ wire'[c] \in Message /\ wire'[c].op \in {"login", "logout"}
      /\ wire'[c].to = "app" /\ wire'[c].state = "taken"
  <2>1. wire'[c] = [op |-> wire[c].op, to |-> wire[c].to, token |-> wire[c].token,
                    arg |-> wire[c].arg, state |-> "taken", answer |-> wire[c].answer]
    BY <1>2, <1>3, MessageParts
  <2>2. wire'[c] \in Message
    BY <1>2, <2>1, MessageParts, PartsOfMessage
  <2> QED
    BY <1>1, <2>1, <2>2
<1>5. ASSUME NEW d \in Conn
      PROVE  /\ MessageOK(wire[d])' /\ ReviewFits(wire[d])' /\ PageFits(wire[d])'
             /\ ListFor(wire[d])' => ListFor(wire[d]) /\ wire'[d] = wire[d]
  <2>1. CASE d = c
    BY <1>4, <2>1 DEF MessageOK, ReviewFits, PageFits, ListFor
  <2>2. CASE d # c
    <3>1. wire'[d] = wire[d] /\ MessageOK(wire[d]) /\ ReviewFits(wire[d]) /\ PageFits(wire[d])
      BY <1>3, <2>2 DEF PageInv, WireFits
    <3> QED
      BY <1>1, <3>1 DEF MessageOK, ReviewFits, PageFits, ListFor, HasText
  <2> QED
    BY <2>1, <2>2
<1>6. WireFits'
  BY <1>5 DEF PageInv, WireFits
<1>7. \A d \in Deck : Excused(d) => Excused(d)'
  <2>1. \A d \in Deck, e \in Conn : Tells(wire[e], d) => e # c
    BY <1>1 DEF Tells
  <2> QED
    BY <1>1, <1>3, <2>1 DEF Excused, Tells
<1>8. \A shown : FollowsServer(shown) => FollowsServer(shown)'
  BY <1>1, <1>7 DEF FollowsServer, DecksOf
<1>9. ListsFollow'
  BY <1>1, <1>5, <1>8 DEF PageInv, ListsFollow
<1>10. StateOK' /\ DialogOK' /\ PicksStayWithTheirCards'
  BY <1>1 DEF PageInv, StateOK, DialogOK, PicksStayWithTheirCards, HasText
<1> QED
  BY <1>6, <1>9, <1>10 DEF PageInv

\* What an answer that is lost would have told is untold.
LEMMA FailPage ==
  ASSUME IInv, PageInv, IInv', NEW c \in Conn, Fail(c)
  PROVE  PageInv'
<1>1. /\ wire[c] # None /\ UNCHANGED <<holder, decks, born>>
      /\ untold' = CASE wire[c].state = "ok" /\ wire[c].op = "delete" -> untold \cup {wire[c].arg}
                     [] wire[c].state = "ok" /\ wire[c].op \in {"create", "save"} ->
                          untold \cup {wire[c].answer}
                     [] OTHER -> untold
  BY DEF Fail, server
<1>2. MessageOK(wire[c])
  BY DEF PageInv, WireFits
<1>3. untold \subseteq untold' /\ untold' \subseteq Deck
  BY <1>1, <1>2 DEF PageInv, StateOK, MessageOK
<1>4. \A d \in Deck : Tells(wire[c], d) => d \in untold'
  BY <1>1 DEF Tells
<1>5. CASE Show(None, route, Rest(c))
  <2>1. route \in {"home", "deck"}
    BY DEF PageInv, StateOK
  <2>2. \A d \in Conn : Rest(c)[d] \in {wire[d], None}
    BY RestStays
  <2> QED
    BY <1>1, <1>3, <1>5, <2>1, <2>2, PageGone
<1>6. CASE wire' = Rest(c) /\ UNCHANGED tab
  <2>1. UNCHANGED <<user, route, list, dialog>>
    BY <1>6 DEF tab
  <2>2. DialogOK' /\ (HasText => HasText')
    BY <2>1 DEF PageInv, DialogOK, HasText
  <2> QED
    BY <1>1, <1>3, <1>4, <1>6, <2>1, <2>2, RestKeeps
<1> QED
  BY <1>5, <1>6 DEF Fail

(***************************************************************************)
(* What the user does.                                                     *)
(***************************************************************************)

\* Nothing that is still under way is anybody's any more.
LEMMA ReloadPage ==
  ASSUME IInv, PageInv, IInv', Reload
  PROVE  PageInv'
<1>1. PICK c \in Conn :
        wire' = [d \in Conn |->
            IF d = c THEN Request("me", "app", jar, None)
            ELSE IF wire[d] # None /\ wire[d].state = "sent" THEN [wire[d] EXCEPT !.to = "nobody"]
            ELSE None]
  BY DEF Reload
<1>2. /\ user' = None /\ list' = None /\ dialog' = None
      /\ UNCHANGED <<holder, decks, born, route, untold>>
  BY DEF Reload, server
<1>3. /\ Request("me", "app", jar, None) \in Message
      /\ Request("me", "app", jar, None).op = "me" /\ Request("me", "app", jar, None).to = "app"
      /\ Request("me", "app", jar, None).state = "sent"
  BY RequestFits DEF IInv, TokensOK, Operations, Args, Request
<1>4. ASSUME NEW d \in Conn
      PROVE  /\ MessageOK(wire'[d]) /\ ReviewFits(wire'[d])
             /\ wire'[d] # None => wire'[d].to \in {"app", "nobody"} /\ wire'[d].state = "sent"
  <2>1. MessageOK(wire[d]) /\ ReviewFits(wire[d])
    BY DEF PageInv, WireFits
  <2>2. CASE d = c
    <3>1. wire'[d] = Request("me", "app", jar, None)
      BY <1>1, <2>2
    <3> QED
      BY <1>3, <3>1 DEF MessageOK, ReviewFits
  <2>3. CASE d # c /\ wire[d] # None /\ wire[d].state = "sent"
    <3>1. wire'[d] = [wire[d] EXCEPT !.to = "nobody"]
      BY <1>1, <2>3
    <3>2. wire[d] \in Message
      BY <2>1, <2>3 DEF MessageOK
    <3>3. wire'[d] = [op |-> wire[d].op, to |-> "nobody", token |-> wire[d].token,
                      arg |-> wire[d].arg, state |-> wire[d].state, answer |-> wire[d].answer]
      BY <3>1, <3>2, MessageParts
    <3>4. wire'[d] \in Message
      BY <3>2, <3>3, MessageParts, PartsOfMessage
    <3>5. Stays(wire[d], wire'[d])
      BY <2>3, <3>3, <3>4 DEF Stays
    <3> QED
      BY <2>1, <2>3, <3>3, <3>5, StaysFits
  <2>4. CASE d # c /\ ~(wire[d] # None /\ wire[d].state = "sent")
    <3>1. wire'[d] = None
      BY <1>1, <2>4
    <3> QED
      BY <3>1 DEF MessageOK, ReviewFits
  <2> QED
    BY <2>2, <2>3, <2>4
<1>5. \A d \in Conn : MessageOK(wire[d])' /\ ReviewFits(wire[d])' /\ PageFits(wire[d])'
                      /\ ~ListFor(wire[d])'
  BY <1>4 DEF MessageOK, ReviewFits, PageFits, ListFor
<1>6. WireFits' /\ ListsFollow'
  BY <1>2, <1>5 DEF WireFits, ListsFollow
<1>7. StateOK' /\ DialogOK' /\ PicksStayWithTheirCards'
  BY <1>2 DEF PageInv, StateOK, DialogOK, PicksStayWithTheirCards
<1> QED
  BY <1>6, <1>7 DEF PageInv

LEMMA NavigatePage ==
  ASSUME IInv, PageInv, IInv', Navigate
  PROVE  PageInv'
<1>1. PICK r \in {"home", "deck"} : Show(user, r, wire)
  BY DEF Navigate
<1>2. UNCHANGED <<holder, decks, born, untold>>
  BY DEF Navigate, server
<1>3. user \in User \cup {None} /\ untold \subseteq Deck
  BY DEF PageInv, StateOK
<1> QED
  BY <1>1, <1>2, <1>3, PageGone

\* Nothing is under way that was not, and the dialog is still right.
LEMMA DialogPage ==
  ASSUME PageInv, UNCHANGED <<holder, decks, born, wire, user, route, list, untold>>, DialogOK',
         HasText => HasText'
  PROVE  PageInv'
<1>1. \A c \in Conn : wire[c] # None => wire[c] \in Message
  BY DEF PageInv, WireFits, MessageOK
<1>2. \A c \in Conn : Stays(wire[c], wire'[c])
  BY <1>1, SameStays
<1>3. \A c \in Conn : wire'[c] # None /\ wire'[c].to = "dialog" => HasText'
  BY DEF PageInv, WireFits, PageFits
<1>4. \A d \in Deck : Excused(d) => Excused(d)'
  BY DEF Excused
<1>5. untold' \subseteq Deck
  BY DEF PageInv, StateOK
<1> QED
  BY <1>2, <1>3, <1>4, <1>5, PageStays

LEMMA CloseImportPage ==
  ASSUME PageInv, CloseImport
  PROVE  PageInv'
<1>1. /\ dialog' = None /\ UNCHANGED <<holder, decks, born, user, route, list, untold>>
      /\ wire' = [c \in Conn |->
           IF wire[c] # None /\ wire[c].to = "dialog" THEN Orphan(wire[c]) ELSE wire[c]]
  BY DEF CloseImport, server
<1>2. ASSUME NEW c \in Conn
      PROVE  /\ Stays(wire[c], wire'[c])
             /\ wire'[c] # None => wire'[c].to # "dialog"
             /\ \A d \in Deck : Tells(wire[c], d) => Tells(wire'[c], d)
  <2>1. MessageOK(wire[c]) /\ PageFits(wire[c])
    BY DEF PageInv, WireFits
  <2>2. wire[c] # None => wire[c] \in Message
    BY <2>1 DEF MessageOK
  <2>3. CASE wire[c] # None /\ wire[c].to = "dialog"
    <3>1. wire'[c] = Orphan(wire[c])
      BY <1>1, <2>3
    <3>2. wire[c].op # "delete"
      BY <2>1, <2>3 DEF PageFits
    <3> QED
      BY <2>2, <3>1, <3>2, OrphanStays
  <2>4. CASE ~(wire[c] # None /\ wire[c].to = "dialog")
    <3>1. wire'[c] = wire[c]
      BY <1>1, <2>4
    <3> QED
      BY <2>2, <2>4, <3>1, SameStays
  <2> QED
    BY <2>3, <2>4
<1>3. \A d \in Deck : Excused(d) => Excused(d)'
  BY <1>1, <1>2 DEF Excused
<1>4. DialogOK' /\ untold' \subseteq Deck
  BY <1>1 DEF DialogOK, PageInv, StateOK
<1> QED
  BY <1>1, <1>2, <1>3, <1>4, PageStays

\* The art that is sent is that of the entries of the reading, and if the text is still
\* the one that was read and no card was reviewed under another key, what was chosen.
LEMMA HandleSavePage ==
  ASSUME IInv, PageInv, HandleSave
  PROVE  PageInv'
<1> USE HomePageAssumption
<1> DEFINE reading == dialog.preview
           cards == CardsOf[reading.text]
           art == [i \in DOMAIN cards |-> dialog.picks[ImageKey(reading, i)]]
           same == /\ reading.text = dialog.text
                   /\ \A k \in KeysOf(reading) : <<k[1], ~k[2]>> \notin dialog.keys
           arg == [text |-> dialog.text, art |-> art,
                   meant |-> IF same THEN dialog.chosen ELSE None]
<1>1. /\ dialog # None /\ reading # None /\ Send("save", "dialog", arg)
      /\ UNCHANGED <<holder, decks, born, user, route, list, dialog, untold>>
  BY DEF HandleSave, server, tab
<1>2. dialog \in Dialog /\ HasText /\ KeysOf(reading) \subseteq dialog.keys
  BY <1>1 DEF PageInv, DialogOK
<1>3. /\ dialog.text \in Text /\ reading \in [text : Text, found : SUBSET Card]
      /\ dialog.picks \in [Key -> Image] /\ dialog.chosen \in [Card -> Image]
  BY <1>1, <1>2, DialogParts DEF HasText
<1>4. cards \in Seq(Card) /\ Len(cards) \in Nat /\ DOMAIN cards = 1 .. Len(cards)
  BY <1>3
<1>5. \A i \in DOMAIN cards :
        /\ ImageKey(reading, i) \in KeysOf(reading) /\ ImageKey(reading, i) \in Key
        /\ ImageKey(reading, i)[1] = cards[i]
  BY <1>3, KeysOfReading
<1>6. \A i \in DOMAIN cards : dialog.picks[ImageKey(reading, i)] \in Image
  BY <1>3, <1>5
<1> HIDE DEF cards
<1>7. art = [i \in 1 .. Len(cards) |-> dialog.picks[ImageKey(reading, i)]]
  BY <1>4
<1>8. art \in Seq(Image) /\ Len(art) = Len(cards) /\ DOMAIN art = DOMAIN cards
  BY <1>4, <1>6, <1>7
<1>9. \A i \in DOMAIN cards : art[i] = dialog.picks[ImageKey(reading, i)]
  OBVIOUS
<1>10. ASSUME same, NEW i \in DOMAIN cards
       PROVE  art[i] = dialog.chosen[cards[i]]
  <2>1. \A k \in Key : <<k[1], ~k[2]>> \notin dialog.keys => dialog.picks[k] = dialog.chosen[k[1]]
    BY <1>1 DEF PageInv, DialogOK
  <2>2. PICK k \in Key : k = ImageKey(reading, i)
    BY <1>5
  <2>3. <<k[1], ~k[2]>> \notin dialog.keys /\ k[1] = cards[i]
    BY <1>5, <1>10, <2>2
  <2> QED
    BY <1>9, <2>1, <2>2, <2>3
<1> HIDE DEF art
<1>11. arg \in [text : Text, art : Seq(Image), meant : [Card -> Image] \cup {None}]
  BY <1>3, <1>8
<1>12. arg.meant # None =>
         /\ Len(arg.art) = Len(CardsOf[arg.text])
         /\ \A i \in DOMAIN arg.art : arg.art[i] = arg.meant[CardsOf[arg.text][i]]
  <2>1. CASE same
    <3>1. arg.meant = dialog.chosen /\ arg.art = art /\ arg.text = reading.text
      BY <2>1
    <3>2. CardsOf[arg.text] = cards
      BY <3>1 DEF cards
    <3>3. \A i \in DOMAIN art : art[i] = dialog.chosen[cards[i]]
      BY <1>8, <1>10, <2>1
    <3> HIDE DEF arg
    <3> QED
      BY <1>8, <3>1, <3>2, <3>3
  <2>2. CASE ~same
    BY <2>2
  <2> QED
    BY <2>1, <2>2
<1>13. PICK e : e = arg
  OBVIOUS
<1> HIDE DEF arg
<1>14. e \in Args /\ Send("save", "dialog", e)
  BY <1>1, <1>11, <1>13 DEF Args
<1> QED
  BY <1>1, <1>2, <1>11, <1>12, <1>13, <1>14, OneSent DEF Operations

LEMMA SendsPage ==
  ASSUME IInv, PageInv,
         Login \/ Logout \/ CreateDeck \/ DeleteDeck \/ HandlePreview \/ HandleSave
  PROVE  PageInv'
<1>1. UNCHANGED <<holder, decks, born, user, route, list, dialog, untold>>
  BY DEF Login, Logout, CreateDeck, DeleteDeck, HandlePreview, HandleSave, server, tab
<1>2. CASE Login
  <2>1. PICK u \in User : Send("login", "app", u)
    BY <1>2 DEF Login
  <2> QED
    BY <1>1, <2>1, OneSent DEF Operations, Args
<1>3. CASE Logout
  <2>1. Send("logout", "app", None)
    BY <1>3 DEF Logout
  <2> QED
    BY <1>1, <2>1, OneSent DEF Operations, Args
<1>4. CASE CreateDeck
  <2>1. Send("create", "page", None) /\ user # None
    BY <1>4 DEF CreateDeck, AtHome
  <2> QED
    BY <1>1, <2>1, OneSent DEF Operations, Args
<1>5. CASE DeleteDeck
  <2>1. PICK d \in list : Send("delete", "page", d)
    BY <1>5 DEF DeleteDeck
  <2>2. user # None /\ list # None /\ d \in Deck
    BY <1>5 DEF DeleteDeck, AtHome, PageInv, StateOK
  <2> QED
    BY <1>1, <2>1, <2>2, OneSent DEF Operations, Args
<1>6. CASE HandlePreview
  <2>1. Send("preview", "dialog", dialog.text) /\ dialog # None /\ dialog.text # None
    BY <1>6 DEF HandlePreview
  <2>2. dialog.text \in Text
    BY <2>1, DialogParts DEF PageInv, DialogOK
  <2> QED
    BY <1>1, <2>1, <2>2, OneSent DEF Operations, Args, HasText
<1>7. CASE HandleSave
  BY <1>7, HandleSavePage
<1> QED
  BY <1>2, <1>3, <1>4, <1>5, <1>6, <1>7

(***************************************************************************)
(* The theorems.                                                           *)
(***************************************************************************)

LEMMA PageBegins == Init => PageInv
<1> SUFFICES ASSUME Init
             PROVE  PageInv
  OBVIOUS
<1>1. PICK c \in Conn :
        wire = [d \in Conn |-> IF d = c THEN Request("me", "app", jar, None) ELSE None]
  BY DEF Init
<1>2. /\ jar \in Token \cup {None} /\ decks = [d \in Deck |-> None] /\ born = {}
      /\ user = None /\ route = "home" /\ list = None /\ dialog = None /\ untold = {}
  BY DEF Init
<1>3. /\ Request("me", "app", jar, None) \in Message
      /\ Request("me", "app", jar, None).op = "me" /\ Request("me", "app", jar, None).to = "app"
      /\ Request("me", "app", jar, None).state = "sent"
  BY <1>2, RequestFits DEF Operations, Args, Request
<1>4. ASSUME NEW d \in Conn
      PROVE  /\ MessageOK(wire[d]) /\ PageFits(wire[d]) /\ ReviewFits(wire[d])
             /\ ~ListFor(wire[d])
  <2>1. wire[d] = Request("me", "app", jar, None) \/ wire[d] = None
    BY <1>1
  <2> QED
    BY <1>3, <2>1 DEF MessageOK, PageFits, ReviewFits, ListFor
<1>5. WireFits /\ ListsFollow
  BY <1>2, <1>4 DEF WireFits, ListsFollow
<1>6. StateOK /\ DialogOK /\ PicksStayWithTheirCards
  BY <1>2 DEF StateOK, DialogOK, PicksStayWithTheirCards
<1> QED
  BY <1>5, <1>6 DEF PageInv

LEMMA PageInvKeeps == IInv /\ IInv' /\ PageInv /\ [Next]_vars => PageInv'
<1> SUFFICES ASSUME IInv, IInv', PageInv, [Next]_vars
             PROVE  PageInv'
  OBVIOUS
<1>1. CASE Reload
  BY <1>1, ReloadPage
<1>2. CASE Navigate
  BY <1>2, NavigatePage
<1>3. CASE Login \/ Logout \/ CreateDeck \/ DeleteDeck \/ HandlePreview \/ HandleSave
  BY <1>3, SendsPage
<1>4. CASE OpenImport \/ EditText \/ Back \/ PickArt
  <2>1. UNCHANGED <<holder, decks, born, wire, user, route, list, untold>>
    BY <1>4 DEF OpenImport, EditText, Back, PickArt, server
  <2> QED
    BY <1>4, <2>1, DialogKeeps, DialogPage
<1>5. CASE CloseImport
  BY <1>5, CloseImportPage
<1>6. CASE Expire \/ UNCHANGED vars
  <2>1. UNCHANGED <<holder, decks, born, wire, user, route, list, dialog, untold>>
    BY <1>6 DEF Expire, vars, server, tab
  <2>2. DialogOK' /\ (HasText => HasText')
    BY <2>1 DEF PageInv, DialogOK, HasText
  <2> QED
    BY <2>1, <2>2, DialogPage
<1>7. ASSUME NEW c \in Conn, Carry(c) \/ TakeCookie(c) \/ Hear(c) \/ Fail(c)
      PROVE  PageInv'
  BY <1>7, CarryPage, TakeCookiePage, HearPageOfTab, FailPage
<1> QED
  BY <1>1, <1>2, <1>3, <1>4, <1>5, <1>6, <1>7 DEF Next

LEMMA PageInvariance == Spec => [](IInv /\ PageInv)
<1>1. Init => IInv /\ PageInv
  BY Begins, PageBegins
<1>2. IInv /\ PageInv /\ [Next]_vars => IInv' /\ PageInv'
  BY Keeps, PageInvKeeps
<1> QED
  BY <1>1, <1>2, PTL DEF Spec

\* Every variable has its type.
THEOREM TypeCorrect == Spec => []TypeOK
<1>1. IInv /\ PageInv => TypeOK
  <2> SUFFICES ASSUME IInv, PageInv
               PROVE  TypeOK
    OBVIOUS
  <2>1. wire \in [Conn -> Message \cup {None}]
    <3>1. wire = [c \in Conn |-> wire[c]] /\ \A c \in Conn : wire[c] \in Message \cup {None}
      BY DEF IInv, WireOK, PageInv, WireFits, MessageOK
    <3> QED
      BY <3>1
  <2> QED
    BY <2>1 DEF IInv, TokensOK, PageInv, StateOK, DialogOK, TypeOK
<1> QED
  BY <1>1, PageInvariance, PTL

\* The list a page shows is that of its user's decks on the server, but for requests under
\* way and answers that were lost (ListFollowsServer), whichever lists of other users and
\* earlier visits arrive, for any number of requests (useDecks.ts load, deleteDeck).
THEOREM ListStaysWithServer == Spec => []ListFollowsServer
<1>1. PageInv => ListFollowsServer
  BY DEF PageInv, ListsFollow, FollowsServer, Excused, Tells, ListFollowsServer
<1> QED
  BY <1>1, PageInvariance, PTL

\* An imported deck has for each card the art that was last picked for it
\* (PicksStayWithTheirCards), for any decklists, however often the list is edited and read
\* anew (ImportDeckModal.tsx imageKey, handlePreview, handleSave).
THEOREM PicksStay == Spec => []PicksStayWithTheirCards
<1>1. PageInv => PicksStayWithTheirCards
  BY DEF PageInv
<1> QED
  BY <1>1, PageInvariance, PTL
=================================================================================
