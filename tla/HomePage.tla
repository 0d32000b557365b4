------------------------------- MODULE HomePage -------------------------------
(***************************************************************************)
(* One tab of the frontend: who is logged in (hooks/useAuth.ts, App.tsx,   *)
(* pages/LoginPage.tsx), the list of decks (pages/HomePage.tsx,            *)
(* hooks/useDecks.ts) and the import of a decklist in two steps            *)
(* (deck/ImportDeckModal.tsx).                                             *)
(*                                                                         *)
(* A request carries the cookie of the moment it is sent; the session of   *)
(* that cookie may end before the server carries it out, and the user who  *)
(* sent it, the page or the dialog may be gone when the answer comes.      *)
(* Requests and answers overtake each other, fail or are lost.  The server *)
(* is at the grain of the operations of DeckService and AuthService; the   *)
(* deck page only loads here, the rest of it is in EditorCards and         *)
(* DeckEditor.                                                             *)
(***************************************************************************)
EXTENDS Naturals, SequencesExt

CONSTANTS
  User,
  Token,     \* session tokens
  Deck,      \* ids the server may give to decks
  Text,      \* decklists, each with the format it is read in
  Card,
  CardsOf,   \* what the server reads in a decklist
  Art,
  Conn,      \* bound on the requests under way
  None

ASSUME HomePageAssumption ==
  /\ CardsOf \in [Text -> Seq(Card)]
  /\ None \notin User \cup Token \cup Deck \cup Text \cup Art
  /\ \A S \in SUBSET Deck : S # None

Image == Art \cup {None}

\* What the gallery tells cards apart by: the id if the server found the card, the set and
\* number if it did not.
Key == Card \X BOOLEAN

VARIABLES
  holder,  \* the user a token was made for
  live,    \* tokens of sessions that have not ended
  decks,   \* the decks on the server
  born,    \* ids ever given
  jar,     \* the session cookie
  crossed, \* a logout took it while a login that had set it was not heard; not in the code
  wire,    \* requests under way
  user,    \* useAuth's user
  route,   \* "home" or "deck"
  list,    \* useDecks' decks, or None before they are loaded
  dialog,  \* the import dialog
  untold   \* decks changed without an answer to this page, which the code does not know

server == <<holder, live, decks, born>>
browser == <<jar, crossed>>
tab == <<user, route, list, dialog>>
vars == <<server, browser, wire, tab, untold>>

\* meant: what the user chose for each card, if the deck is the one that was reviewed.
SavedDeck ==
  [owner : User, text : Text \cup {None}, art : Seq(Image), meant : [Card -> Image] \cup {None}]

Operations ==
  {"me", "login", "logout", "list", "get", "create", "delete", "preview", "save"}

\* to: who hears the answer: the app, the page or dialog that sent it, or nobody after a
\* reload.  state: the server has yet to carry it out, did, or answered 401; "taken" once the
\* browser has the cookie of the answer to a login or logout, which the app has yet to hear.
Message ==
  [op : Operations, to : {"app", "page", "dialog", "nobody"}, token : Token \cup {None},
   arg : User \cup Deck \cup Text \cup {None}
           \cup [text : Text, art : Seq(Image), meant : [Card -> Image] \cup {None}],
   state : {"sent", "ok", "taken", "refused"},
   answer : {None} \cup User \cup Token \cup Deck \cup (SUBSET Deck) \cup (SUBSET Card)]

\* preview: the reading under review; picks are by key.  The code knows neither chosen, the
\* art last picked for each card, nor keys, those the readings so far had.
Dialog ==
  [text : Text \cup {None}, preview : [text : Text, found : SUBSET Card] \cup {None},
   picks : [Key -> Image], chosen : [Card -> Image], keys : SUBSET Key]

ASSUME NoneIsNoRecord == None \notin Message /\ None \notin Dialog

TypeOK ==
  /\ holder \in [Token -> User \cup {None}] /\ live \subseteq Token
  /\ decks \in [Deck -> SavedDeck \cup {None}] /\ born \subseteq Deck
  /\ jar \in Token \cup {None} /\ crossed \in BOOLEAN
  /\ wire \in [Conn -> Message \cup {None}]
  /\ user \in User \cup {None} /\ route \in {"home", "deck"}
  /\ list \in {None} \cup SUBSET Deck /\ dialog \in Dialog \cup {None}
  /\ untold \subseteq Deck

Request(op, to, token, arg) ==
  [op |-> op, to |-> to, token |-> token, arg |-> arg, state |-> "sent", answer |-> None]

Send(op, to, arg) ==
  \E c \in Conn : wire[c] = None /\ wire' = [wire EXCEPT ![c] = Request(op, to, jar, arg)]

\* Whether a request is under way that someone waits for: the disabled buttons.
Waiting(ops, to) ==
  \E c \in Conn : wire[c] # None /\ wire[c].op \in ops /\ wire[c].to = to

\* The tab is opened, by a user who was logged in or not: useAuth asks which.
Init ==
  /\ jar \in Token \cup {None}
  /\ live = {jar} \ {None}
  /\ \E u \in User : holder = [t \in Token |-> IF t = jar THEN u ELSE None]
  /\ decks = [d \in Deck |-> None] /\ born = {}
  /\ \E c \in Conn :
       wire = [d \in Conn |-> IF d = c THEN Request("me", "app", jar, None) ELSE None]
  /\ user = None /\ route = "home" /\ list = None /\ dialog = None
  /\ untold = {} /\ crossed = FALSE

(***************************************************************************)
(* What the app shows.                                                     *)
(***************************************************************************)

\* What is left of a request whose page or dialog is gone: a new deck is still gone to, and
\* a 401 still logs out.
Orphan(m) ==
  IF m = None \/ m.to \in {"app", "nobody"} THEN m
  ELSE IF m.state = "ok" /\ m.op \notin {"create", "save"} THEN None
  ELSE [m EXCEPT !.to = "app"]

\* The login page for None, or the page at r anew, which loads what it shows.
Show(u, r, rest) ==
  /\ user' = u /\ route' = r /\ list' = None /\ dialog' = None
  /\ LET left == [c \in Conn |-> Orphan(rest[c])]
         load == Request(IF r = "home" THEN "list" ELSE "get", "page", jar', None)
     IN IF u = None THEN wire' = left
        ELSE \E c \in Conn : left[c] = None /\ wire' = [left EXCEPT ![c] = load]

Reload ==
  /\ user' = None /\ list' = None /\ dialog' = None
  /\ \E c \in Conn :
       /\ wire[c] # None => wire[c].state # "sent"
       /\ wire' = [d \in Conn |->
            IF d = c THEN Request("me", "app", jar, None)
            ELSE IF wire[d] # None /\ wire[d].state = "sent" THEN [wire[d] EXCEPT !.to = "nobody"]
            ELSE None]
  /\ UNCHANGED <<server, browser, route, untold>>

\* LoginPage's submit, with the right password, or of a new user.
Login ==
  /\ user = None /\ ~Waiting({"me", "login"}, "app")
  /\ \E u \in User : Send("login", "app", u)
  /\ UNCHANGED <<server, browser, tab, untold>>

Logout ==
  /\ user # None
  /\ Send("logout", "app", None)
  /\ UNCHANGED <<server, browser, tab, untold>>

(***************************************************************************)
(* HomePage.                                                               *)
(***************************************************************************)
AtHome == user # None /\ route = "home"

\* A tile, or the link to the decks.
Navigate ==
  /\ user # None
  /\ UNCHANGED browser
  /\ IF AtHome THEN list \notin {None, {}} /\ Show(user, "deck", wire)
     ELSE Show(user, "home", wire)
  /\ UNCHANGED <<server, untold>>

CreateDeck ==
  /\ AtHome /\ ~Waiting({"create"}, "page")
  /\ Send("create", "page", None)
  /\ UNCHANGED <<server, browser, tab, untold>>

DeleteDeck ==
  /\ AtHome /\ list # None
  /\ \E d \in list : Send("delete", "page", d)
  /\ UNCHANGED <<server, browser, tab, untold>>

(***************************************************************************)
(* ImportDeckModal.                                                        *)
(***************************************************************************)
Busy == Waiting({"preview", "save"}, "dialog")

OpenImport ==
  /\ AtHome /\ dialog = None
  /\ dialog' = [text |-> None, preview |-> None, picks |-> [k \in Key |-> None],
                chosen |-> [c \in Card |-> None], keys |-> {}]
  /\ UNCHANGED <<server, browser, wire, user, route, list, untold>>

\* requestClose asks, but does not wait for a request.
CloseImport ==
  /\ dialog # None
  /\ dialog' = None
  /\ wire' = [c \in Conn |->
       IF wire[c] # None /\ wire[c].to = "dialog" THEN Orphan(wire[c]) ELSE wire[c]]
  /\ UNCHANGED <<server, browser, user, route, list, untold>>

\* The text and the format can be changed while a preview of them is read.
EditText ==
  /\ dialog # None /\ dialog.preview = None
  /\ \E text \in Text \ {dialog.text} : dialog' = [dialog EXCEPT !.text = text]
  /\ UNCHANGED <<server, browser, wire, user, route, list, untold>>

HandlePreview ==
  /\ dialog # None /\ dialog.preview = None /\ dialog.text # None /\ ~Busy
  /\ Send("preview", "dialog", dialog.text)
  /\ UNCHANGED <<server, browser, tab, untold>>

Back ==
  /\ dialog # None /\ dialog.preview # None /\ ~Busy
  /\ dialog' = [dialog EXCEPT !.preview = None]
  /\ UNCHANGED <<server, browser, wire, user, route, list, untold>>

\* (with a bug: picks are kept by their place in the list)
ImagePlace(reading, i) == <<SetToSeq(Card)[i], TRUE>>

\* imageKey of an entry of the reading.
ImageKey(reading, i) ==
  LET card == CardsOf[reading.text][i] IN <<card, card \in reading.found>>

KeysOf(reading) == {ImageKey(reading, i) : i \in DOMAIN CardsOf[reading.text]}

PickArt ==
  /\ dialog # None /\ dialog.preview # None
  /\ \E i \in DOMAIN CardsOf[dialog.preview.text], art \in Art :
       dialog' = [dialog EXCEPT
         !.picks = [dialog.picks EXCEPT ![ImageKey(dialog.preview, i)] = art],
         !.chosen = [dialog.chosen EXCEPT ![CardsOf[dialog.preview.text][i]] = art]]
  /\ UNCHANGED <<server, browser, wire, user, route, list, untold>>

\* The text goes as it is now, the art as the entries of the reading have it.
HandleSave ==
  /\ dialog # None /\ dialog.preview # None /\ ~Busy
  /\ LET reading == dialog.preview
         art == [i \in DOMAIN CardsOf[reading.text] |-> dialog.picks[ImageKey(reading, i)]]
         same == /\ reading.text = dialog.text
                 /\ \A k \in KeysOf(reading) : <<k[1], ~k[2]>> \notin dialog.keys
     IN Send("save", "dialog", [text |-> dialog.text, art |-> art,
                                meant |-> IF same THEN dialog.chosen ELSE None])
  /\ UNCHANGED <<server, browser, tab, untold>>

(***************************************************************************)
(* The server.                                                             *)
(***************************************************************************)
SessionUser(token) == IF token \in live THEN holder[token] ELSE None

DecksOf(u) == {d \in Deck : decks[d] # None /\ decks[d].owner = u}

Answer(c, state, answer) == wire' = [wire EXCEPT ![c].state = state, ![c].answer = answer]

\* Art is by index; more of it than entries is turned down, for which Fail stands.
Imported(u, arg) ==
  LET cards == CardsOf[arg.text] IN
  [owner |-> u, text |-> arg.text, meant |-> arg.meant,
   art |-> [i \in DOMAIN cards |-> IF i <= Len(arg.art) THEN arg.art[i] ELSE None]]

NewDeck(c, row) ==
  \E d \in Deck \ born :
    /\ decks' = [decks EXCEPT ![d] = row] /\ born' = born \cup {d}
    /\ Answer(c, "ok", d)
    /\ UNCHANGED untold

\* The routes anyone may use.  When the database fails, me finds no session, and logout
\* answers as if it had ended one.
CarryPublic(c, m) ==
  \/ /\ m.op = "me"
     /\ \E u \in {SessionUser(m.token), None} : Answer(c, "ok", u)
     /\ UNCHANGED <<holder, live>>
  \/ /\ m.op = "login"
     /\ \E t \in {s \in Token : holder[s] = None} :
          /\ holder' = [holder EXCEPT ![t] = m.arg] /\ live' = live \cup {t}
          /\ Answer(c, "ok", t)
  \/ /\ m.op = "logout"
     /\ live' \in {live, live \ {m.token}}
     /\ Answer(c, "ok", None)
     /\ UNCHANGED holder

\* The routes behind RequireAuth, for the user of the session.
CarryFor(c, m, u) ==
  \/ /\ m.op = "list"
     /\ Answer(c, "ok", DecksOf(u))
     /\ untold' = IF m.to = "page" THEN {} ELSE untold
     /\ UNCHANGED <<decks, born>>
  \/ /\ m.op = "get"
     /\ Answer(c, "ok", None)
     /\ UNCHANGED <<decks, born, untold>>
  \/ /\ m.op = "create"
     /\ NewDeck(c, [owner |-> u, text |-> None, art |-> <<>>, meant |-> None])
  \/ /\ m.op = "delete" /\ m.arg \in DecksOf(u)
     /\ decks' = [decks EXCEPT ![m.arg] = None]
     /\ Answer(c, "ok", m.arg)
     /\ UNCHANGED <<born, untold>>
  \/ /\ m.op = "preview"
     /\ \E found \in SUBSET ToSet(CardsOf[m.arg]) : Answer(c, "ok", found)
     /\ UNCHANGED <<decks, born, untold>>
  \/ /\ m.op = "save" /\ Len(m.arg.art) <= Len(CardsOf[m.arg.text])
     /\ NewDeck(c, Imported(u, m.arg))

\* RequireAuth turns away who has no session, and anyone when the database fails.
Carry(c) ==
  /\ wire[c] # None /\ wire[c].state = "sent"
  /\ IF wire[c].op \in {"me", "login", "logout"}
     THEN CarryPublic(c, wire[c]) /\ UNCHANGED <<decks, born, untold>>
     ELSE /\ \/ Answer(c, "refused", None) /\ UNCHANGED <<decks, born, untold>>
             \/ /\ SessionUser(wire[c].token) # None
                /\ CarryFor(c, wire[c], SessionUser(wire[c].token))
          /\ UNCHANGED <<holder, live>>
  /\ UNCHANGED <<browser, tab>>

\* A session runs out.
Expire ==
  /\ \E t \in live : live' = live \ {t}
  /\ UNCHANGED <<holder, decks, born, browser, wire, tab, untold>>

(***************************************************************************)
(* The answers.                                                            *)
(***************************************************************************)
Rest(c) == [wire EXCEPT ![c] = None]

\* (with a bug: only the user who asked for it is logged out)
ThatUser(m) == IF m.token # None /\ user = holder[m.token] THEN None ELSE user

\* Who is logged in when logout has been answered or has failed: nobody.
AfterLogout(m) == None

HearAuth(m, rest) ==
  \/ /\ m.op = "me"
     /\ Show(m.answer, route, rest)
  \/ /\ m.op = "login"
     /\ Show(m.arg, route, rest)
  \/ /\ m.op = "logout"
     /\ IF AfterLogout(m) = user THEN wire' = rest /\ UNCHANGED tab
        ELSE Show(AfterLogout(m), route, rest)

\* (with a bug: a page hears what an earlier one asked for, too)
AnyPage(m) == m.op = "list" /\ AtHome

\* Whether the list is for the page that is there.
ForThisPage(m) == m.op = "list" /\ m.to = "page"

\* setPreview, if there are cards.
Previewed(m) ==
  LET reading == [text |-> m.arg, found |-> m.answer] IN
  IF m.op = "preview" /\ m.to = "dialog" /\ CardsOf[m.arg] # <<>>
  THEN [dialog EXCEPT !.preview = reading, !.keys = @ \cup KeysOf(reading)]
  ELSE dialog

\* load, deleteDeck and handlePreview go on.
HearPage(m, rest) ==
  /\ m.op \notin {"create", "save"}
  /\ list' = CASE ForThisPage(m) -> m.answer
               [] m.op = "delete" /\ m.to = "page" -> list \ {m.arg}
               [] OTHER -> list
  /\ dialog' = Previewed(m)
  /\ wire' = rest
  /\ UNCHANGED <<user, route>>

Taken(c, op) == wire[c] # None /\ wire[c].op = op /\ wire[c].state = "taken"

\* The head of the answer to a login or logout comes, with its Set-Cookie: the await in
\* useAuth goes on only when the body has been read, too.
TakeCookie(c) ==
  LET m == wire[c] IN
  /\ m # None /\ m.state = "ok" /\ m.op \in {"login", "logout"} /\ m.to = "app"
  /\ jar' = m.answer
  /\ crossed' = (m.op = "logout" /\ (crossed \/ \E d \in Conn : Taken(d, "login")))
  /\ wire' = [wire EXCEPT ![c].state = "taken"]
  /\ UNCHANGED <<server, tab, untold>>

\* The answer to a request whose sender is still there, or the 401 to any.
Hear(c) ==
  LET m == wire[c] IN
  /\ m # None /\ m.state # "sent" /\ m.to # "nobody"
  /\ UNCHANGED browser
  /\ \/ /\ m.state = "refused"
        /\ Show(None, route, Rest(c))
     \/ /\ m.state = IF m.op \in {"login", "logout"} THEN "taken" ELSE "ok"
        /\ m.op \in {"me", "login", "logout"}
        /\ HearAuth(m, Rest(c))
     \/ /\ m.state = "ok" /\ m.op \in {"create", "save"}
        /\ Show(user, "deck", Rest(c))
     \/ /\ m.state = "ok" /\ m.op \in {"list", "get", "delete", "preview"}
        /\ HearPage(m, Rest(c))
  /\ untold' = IF m.op = "delete" /\ m.state = "ok" /\ m.to # "page"
               THEN untold \cup {m.arg} ELSE untold
  /\ UNCHANGED server

\* A request does not get to the server or is turned down, or its answer is lost, with its
\* cookie or without.
Fail(c) ==
  LET m == wire[c] IN
  /\ m # None
  /\ UNCHANGED browser
  /\ IF m.op = "logout" /\ m.to = "app" THEN Show(None, route, Rest(c))
     ELSE wire' = Rest(c) /\ UNCHANGED tab
  /\ untold' = CASE m.state = "ok" /\ m.op = "delete" -> untold \cup {m.arg}
                 [] m.state = "ok" /\ m.op \in {"create", "save"} -> untold \cup {m.answer}
                 [] OTHER -> untold
  /\ UNCHANGED server

Next ==
  \/ Reload \/ Login \/ Logout \/ Navigate \/ CreateDeck \/ DeleteDeck
  \/ OpenImport \/ CloseImport \/ EditText \/ HandlePreview \/ Back \/ PickArt \/ HandleSave
  \/ Expire
  \/ \E c \in Conn : Carry(c) \/ TakeCookie(c) \/ Hear(c) \/ Fail(c)

Spec == Init /\ [][Next]_vars

(***************************************************************************)
(* Properties.                                                             *)
(***************************************************************************)

\* Whatever the tab asks for is asked for the user it shows, and never in the name of
\* another: the cookie is that user's, also when a logout is answered after the next login.
\* There is no cookie only while the answer to a logout is read, or if it took the one a
\* login had brought and was heard before it (useAuth.ts login, logout).
ActsForTheUserShown ==
  user # None =>
    IF jar = None THEN crossed \/ \E c \in Conn : Taken(c, "logout")
    ELSE holder[jar] = user

\* The decks listed are those the user has on the server, but for requests under way and
\* answers that were lost, although lists of other users and of earlier visits still arrive
\* (useDecks.ts load, deleteDeck).
ListFollowsServer ==
  AtHome /\ list # None =>
    \A d \in Deck \ untold :
      \/ d \in list <=> d \in DecksOf(user)
      \/ \E c \in Conn : wire[c] # None /\ d \in {wire[c].arg, wire[c].answer}

\* An imported deck has for each card the art that was last picked for it, however the list
\* was edited and read anew in between, unless it was edited while it was read or the
\* cards were found in one reading and not in another (ImportDeckModal.tsx:25, "Kept
\* across Back so re-previewing keeps the picks").
PicksStayWithTheirCards ==
  \A d \in Deck : decks[d] # None /\ decks[d].meant # None =>
    \A i \in DOMAIN decks[d].art : decks[d].art[i] = decks[d].meant[CardsOf[decks[d].text][i]]
===============================================================================
