-------------------------- MODULE DeckServiceProofs ----------------------------
(***************************************************************************)
(* Proofs about DeckService, for any number of users, decks, entries and   *)
(* requests.                                                               *)
(*                                                                         *)
(* The properties are not inductive: what a request may do when it writes  *)
(* depends on what it checked some steps before.  The strengthening says   *)
(* of every request that what it remembers of the tables is still true, or *)
(* the row it is about is gone (Remembers).  That survives the steps of    *)
(* all other requests because ids are never used twice and a live row      *)
(* never changes owner or deck (RowsKeepTheirPlace).                       *)
(*                                                                         *)
(* The last part shows that DeckService implements DeckLibrary: each write *)
(* is one whole operation on a deck by its owner at the moment it commits, *)
(* and no other step changes a deck.                                       *)
(***************************************************************************)
EXTENDS DeckServiceRefinement, FiniteSetTheorems, TLAPS

(***************************************************************************)
(* The inductive invariant.                                                *)
(***************************************************************************)
UsedIds ==
  /\ \A d \in Deck : Live(d) => d \in used
  /\ \A e \in Entry : entries[e] # None => e \in used

TablesOK ==
  /\ decks \in [Deck -> DeckRow \cup {None}]
  /\ entries \in [Entry -> EntryRow \cup {None}]
  /\ covers \in [Deck -> [Slot -> Entry \cup {None}]]
  /\ used \subseteq Deck \cup Entry

\* Which calls can be at which stage, and the deck they are about.
WellFormed(q) ==
  /\ q.at \notin {"idle", "done"} => q.call \in Call /\ q.user \in User
  /\ q.at \in {"row", "entries", "covers", "write"} => q.deck = AddressedDeck(q.call)
  /\ q.at \in {"row", "entries", "covers"} => q.call.op \notin {"create", "delete", "import"}
  /\ q.at = "entries" => q.call.op # "list"
  /\ q.at = "write" => q.call.op \notin {"list", "get"}
  /\ q.at \in {"entries", "covers", "write"} /\ q.call.op = "update" => q.view.format \in Format
  /\ q.at = "fill" => q.call.op = "import" /\ q.deck \in Deck

\* The rows of a view are u's, as far as they still exist.
ViewTrue(u, v) ==
  /\ \A d \in v.decks : /\ d \in used
                        /\ Live(d) => Owns(u, d)
  /\ \A e \in v.entries : /\ e \in used
                          /\ entries[e] # None => entries[e].deck \in v.decks
  /\ \A c \in v.covers : /\ c[1] \in v.decks
                         /\ c[3] \in used
                         /\ entries[c[3]] # None => InDeck(c[3], c[1])

\* What a request has seen of the tables is still so, or its row is gone.
Remembers(q) ==
  /\ Checked(q) => /\ q.deck \in used
                   /\ Live(q.deck) => Owns(q.user, q.deck)
  /\ ViewTrue(q.user, q.view)
  /\ q.at \in {"entries", "covers"} /\ KeepsView(q.call) => q.view.decks = {q.deck}
  /\ q.at = "write" /\ q.call.op = "setCovers" =>
       /\ \A i \in DOMAIN q.call.ids :
            /\ q.call.ids[i] \in used
            /\ entries[q.call.ids[i]] # None => InDeck(q.call.ids[i], q.deck)
       /\ \A i, j \in DOMAIN q.call.ids : i # j => q.call.ids[i] # q.call.ids[j]

RequestsOK == \A r \in Req : req[r] \in Request /\ WellFormed(req[r]) /\ Remembers(req[r])

IInv ==
  /\ TablesOK
  /\ req \in [Req -> Request]
  /\ UsedIds
  /\ EntriesHaveDecks
  /\ CoversAreOwnEntries
  /\ RequestsOK

\* What a step may do to the tables: a row appears only under a fresh id, and a
\* row that stays keeps its owner, or the deck it is in.
RowsKeepTheirPlace ==
  /\ used \subseteq used'
  /\ \A d \in Deck : decks'[d] # None =>
       \/ d \notin used
       \/ decks[d] # None /\ decks'[d].owner = decks[d].owner
  /\ \A e \in Entry : entries'[e] # None =>
       \/ e \notin used
       \/ entries[e] # None /\ entries'[e].deck = entries[e].deck

--------------------------------------------------------------------------------
(***************************************************************************)
(* Calls and requests.                                                     *)
(***************************************************************************)

\* What a call carries, by its operation.
LEMMA CallFields ==
  ASSUME NEW c \in Call
  PROVE  /\ c.op \notin {"list", "create", "import"} => c.deck \in Deck
         /\ c.op \in {"create", "update", "import"} =>
              c.name \in Name \cup {None} /\ c.format \in Format \cup {None}
         /\ c.op = "addEntry" => c.line \in Line
         /\ c.op \in {"updateEntry", "updateEntryArt", "deleteEntry"} => c.entry \in Entry
         /\ c.op = "updateEntry" => c.count \in Count \cup {None}
         /\ c.op = "updateEntryArt" => c.art \in Art \cup {None}
         /\ c.op = "setCovers" => c.ids \in CoverList
         /\ c.op = "import" => c.lines \in Decklist
  BY DEF Call

\* The deck a call is about is one of the ids, or none.
LEMMA AddressedDeckType ==
  ASSUME NEW c \in Call
  PROVE  /\ AddressedDeck(c) \in Deck \cup {None}
         /\ c.op \notin {"list", "create", "import"} => AddressedDeck(c) \in Deck
  BY CallFields DEF AddressedDeck

\* An idle request, and a view of nothing, are of their types.
LEMMA IdleType == Idle \in Request /\ NoView \in View
  BY DEF Idle, NoView, Request, View, Stage

--------------------------------------------------------------------------------
(***************************************************************************)
(* Every step keeps rows in their place.                                   *)
(***************************************************************************)

\* No step moves a row to another owner or deck, and none brings a used id back.
LEMMA StepKeepsPlace == IInv /\ [Next]_vars => RowsKeepTheirPlace
  <1> SUFFICES ASSUME IInv, [Next]_vars
               PROVE  RowsKeepTheirPlace
    OBVIOUS
  <1> USE DEF IInv, TablesOK, RowsKeepTheirPlace, UsedIds, Live
  <1>1. CASE UNCHANGED tables
    BY <1>1 DEF tables
  <1>2. ASSUME NEW r \in Req, CreateDeck(r)
        PROVE  RowsKeepTheirPlace
    BY <1>2 DEF CreateDeck, DeckRow
  <1>3. ASSUME NEW r \in Req, UpdateDeck(r)
        PROVE  RowsKeepTheirPlace
    <2>1. CASE ~Owns(req[r].user, req[r].deck)
      BY <2>1, <1>3, <1>1 DEF UpdateDeck, tables
    <2>2. CASE Owns(req[r].user, req[r].deck)
      <3>1. PICK n, f : decks' = [decks EXCEPT ![req[r].deck] =
                                    [owner |-> req[r].user, name |-> n, format |-> f]]
        BY <2>2, <1>3 DEF UpdateDeck
      <3>2. entries' = entries /\ used' = used
        BY <1>3 DEF UpdateDeck
      <3> QED
        BY <2>2, <3>1, <3>2 DEF Owns
    <2>3. QED
      BY <2>1, <2>2
  <1>4. ASSUME NEW r \in Req, DeleteDeck(r)
        PROVE  RowsKeepTheirPlace
    <2>1. CASE UNCHANGED tables
      BY <2>1, <1>1
    <2>2. CASE Owns(req[r].user, req[r].deck)
      BY <1>4, <2>2 DEF DeleteDeck, EntriesOf
    <2>3. QED
      BY <2>1, <2>2, <1>4 DEF DeleteDeck, tables
  <1>5. ASSUME NEW r \in Req, AddEntry(r)
        PROVE  RowsKeepTheirPlace
    BY <1>5 DEF AddEntry
  <1>6. ASSUME NEW r \in Req, UpdateEntryCount(r)
        PROVE  RowsKeepTheirPlace
    BY <1>6 DEF UpdateEntryCount, InDeck, EntryRow
  <1>7. ASSUME NEW r \in Req, UpdateEntryImageUrl(r)
        PROVE  RowsKeepTheirPlace
    BY <1>7 DEF UpdateEntryImageUrl, InDeck, EntryRow
  <1>8. ASSUME NEW r \in Req, DeleteEntry(r)
        PROVE  RowsKeepTheirPlace
    BY <1>8 DEF DeleteEntry, DeleteEntries
  <1>9. ASSUME NEW r \in Req, SetCovers(r)
        PROVE  RowsKeepTheirPlace
    BY <1>9 DEF SetCovers
  <1>10. ASSUME NEW r \in Req, ReplaceEntries(r)
         PROVE  RowsKeepTheirPlace
    <2>1. CASE UNCHANGED tables
      BY <2>1, <1>1
    <2>2. CASE ~UNCHANGED tables
      <3> DEFINE d == req[r].deck
                 lines == req[r].call.lines
      <3>1. PICK id \in [DOMAIN lines -> Entry \ used] :
              LET new == {id[i] : i \in DOMAIN lines}
              IN /\ used' = used \cup new
                 /\ entries' = [e \in Entry |->
                      IF e \in new THEN RowOf(d, lines[CHOOSE i \in DOMAIN lines : id[i] = e])
                      ELSE IF e \in EntriesOf(d) THEN None ELSE entries[e]]
        BY <1>10, <2>2 DEF ReplaceEntries, DeleteEntriesByDeck, tables
      <3>2. \A i \in DOMAIN lines : id[i] \notin used
        OBVIOUS
      <3>3. decks' = decks
        BY <1>10 DEF ReplaceEntries
      <3> QED
        BY <3>1, <3>2, <3>3
    <2>3. QED
      BY <2>1, <2>2
  <1>11. QED
    BY <1>1, <1>2, <1>3, <1>4, <1>5, <1>6, <1>7, <1>8, <1>9, <1>10
    DEF Next, vars, tables, Read, Write, Arrive, Fail, Leave, Restart, GetDeckRow,
        ListEntriesByDeck, ListCoversByDeck, ListDecks, ListCoversByUser

--------------------------------------------------------------------------------
(***************************************************************************)
(* Requests keep their invariant.                                          *)
(***************************************************************************)

\* What a view shows stays true while others write.
LEMMA ViewsStayTrue ==
  ASSUME TablesOK, RowsKeepTheirPlace, NEW u \in User \cup {None}, NEW v \in View,
         ViewTrue(u, v)
  PROVE  ViewTrue(u, v)'
  <1> USE DEF Owns, Live, InDeck, RowsKeepTheirPlace
  <1>1. v.decks \subseteq Deck /\ v.entries \subseteq Entry
          /\ v.covers \subseteq (Deck \X Slot \X Entry)
    BY DEF View
  <1>2. \A d \in v.decks : d \in used' /\ (decks'[d] # None => decks'[d].owner = u)
    BY <1>1 DEF ViewTrue
  <1>3. \A e \in v.entries : e \in used' /\ (entries'[e] # None => entries'[e].deck \in v.decks)
    BY <1>1 DEF ViewTrue
  <1>4. \A c \in v.covers : /\ c[1] \in v.decks
                           /\ c[3] \in used'
                           /\ entries'[c[3]] # None => entries'[c[3]].deck = c[1]
    BY <1>1 DEF ViewTrue
  <1>5. QED
    BY <1>2, <1>3, <1>4 DEF ViewTrue

\* What a request saw stays true while others write.
LEMMA OthersRemember ==
  ASSUME TablesOK, RowsKeepTheirPlace,
         NEW r \in Req, req[r] \in Request, req'[r] = req[r], Remembers(req[r]),
         WellFormed(req[r])
  PROVE  Remembers(req[r])' /\ WellFormed(req[r])'
  <1> DEFINE q == req[r]
  <1> USE DEF Owns, Live, InDeck, RowsKeepTheirPlace
  <1>1. PICK u \in User \cup {None}, v \in View : u = q.user /\ v = q.view
    BY DEF Request
  <1>2. ViewTrue(u, v)'
    BY <1>1, ViewsStayTrue DEF Remembers
  <1>3. ViewTrue(q.user, q.view)'
    BY <1>1, <1>2 DEF ViewTrue
  <1>4. Checked(q) => q.deck \in used' /\ (decks'[q.deck] # None => decks'[q.deck].owner = q.user)
    <2> SUFFICES ASSUME Checked(q)
                 PROVE  q.deck \in used' /\ (decks'[q.deck] # None => decks'[q.deck].owner = q.user)
      OBVIOUS
    <2>1. q.deck \in Deck
      BY DEF Checked, Request
    <2>2. QED
      BY <2>1 DEF Remembers
  <1>5. q.at = "write" /\ q.call.op = "setCovers" =>
          \A i \in DOMAIN q.call.ids :
            /\ q.call.ids[i] \in used'
            /\ entries'[q.call.ids[i]] # None => entries'[q.call.ids[i]].deck = q.deck
    <2> SUFFICES ASSUME q.at = "write", q.call.op = "setCovers", NEW i \in DOMAIN q.call.ids
                 PROVE  /\ q.call.ids[i] \in used'
                        /\ entries'[q.call.ids[i]] # None => entries'[q.call.ids[i]].deck = q.deck
      OBVIOUS
    <2>1. q.call.ids[i] \in Entry
      BY CallFields DEF WellFormed, CoverList
    <2>2. QED
      BY <2>1 DEF Remembers
  <1>6. Remembers(q)'
    BY <1>3, <1>4, <1>5 DEF Remembers, Checked
  <1>7. QED
    BY <1>6 DEF WellFormed

\* One request moves, to a record that is in order in the new state.
Moves(r) ==
  /\ req' \in [Req -> Request]
  /\ \A s \in Req : s # r => req'[s] = req[s]
  /\ WellFormed(req[r])'
  /\ Remembers(req[r])'

\* It is enough to look at the request a step is of.
LEMMA OneMoves ==
  ASSUME IInv, RowsKeepTheirPlace, NEW r \in Req, Moves(r)
  PROVE  RequestsOK'
  <1> SUFFICES ASSUME NEW s \in Req
               PROVE  (req[s] \in Request /\ WellFormed(req[s]) /\ Remembers(req[s]))'
    BY DEF RequestsOK
  <1>1. CASE s = r
    BY <1>1 DEF Moves
  <1>2. CASE s # r
    BY <1>2, OthersRemember DEF Moves, IInv, RequestsOK
  <1>3. QED
    BY <1>1, <1>2

\* An answer is in order when what it shows is true.
LEMMA AnswerMoves ==
  ASSUME IInv, NEW r \in Req, req[r].user \in User, NEW st \in Status, NEW v \in View,
         Answer(r, st, v), ViewTrue(req[r].user, v)'
  PROVE  Moves(r)
  <1> DEFINE q == [at |-> "done", user |-> req[r].user, call |-> None, deck |-> None,
                   view |-> v, status |-> st]
  <1>1. req' = [req EXCEPT ![r] = q]
    BY DEF Answer, Answered
  <1>2. q \in Request
    BY DEF Request, Stage
  <1>3. req' \in [Req -> Request] /\ req'[r] = q
    BY <1>1, <1>2 DEF IInv
  <1>4. \A s \in Req : s # r => req'[s] = req[s]
    BY <1>1 DEF IInv
  <1>5. WellFormed(req[r])'
    BY <1>3 DEF WellFormed
  <1>6. Remembers(req[r])'
    BY <1>3 DEF Remembers, Checked, ViewTrue
  <1>7. QED
    BY <1>3, <1>4, <1>5, <1>6 DEF Moves

\* Going on with the same call changes the stage and the view only.
LEMMA ProceedFields ==
  ASSUME IInv, NEW r \in Req, NEW stage \in Stage, NEW v \in View, Proceed(r, stage, v)
  PROVE  /\ req' \in [Req -> Request]
         /\ \A s \in Req : s # r => req'[s] = req[s]
         /\ req'[r].at = stage /\ req'[r].view = v
         /\ req'[r].user = req[r].user /\ req'[r].call = req[r].call
         /\ req'[r].deck = req[r].deck
  BY DEF Proceed, IInv, Request

\* The same for a step that writes nothing.
LEMMA AnswerKeepsView ==
  ASSUME IInv, NEW r \in Req, req[r].user \in User, NEW st \in Status, NEW v \in View,
         Answer(r, st, v), UNCHANGED tables, ViewTrue(req[r].user, v)
  PROVE  Moves(r)
  <1>1. req'[r].user = req[r].user
    BY DEF Answer, Answered, IInv
  <1>2. ViewTrue(req[r].user, v)'
    BY <1>1 DEF ViewTrue, tables, Owns, Live, InDeck
  <1>3. QED
    BY <1>2, AnswerMoves

\* A view of nothing is true of anyone.
LEMMA NoViewTrue == \A u : ViewTrue(u, NoView)
  BY DEF ViewTrue, NoView

\* A failed call, an answer without content.
LEMMA BlankAnswerMoves ==
  ASSUME IInv, NEW r \in Req, req[r].at \notin {"idle", "done"}, NEW st \in Status,
         Answer(r, st, NoView)
  PROVE  Moves(r)
  <1>1. req[r].user \in User
    BY DEF IInv, RequestsOK, WellFormed
  <1>2. ViewTrue(req[r].user, NoView)'
    BY DEF ViewTrue, NoView
  <1>3. QED
    BY <1>1, <1>2, AnswerMoves, IdleType

\* A request that comes in is in order.
LEMMA ArriveMoves ==
  ASSUME IInv, NEW r \in Req, NEW u \in User, NEW c \in Call, Arrive(r, u, c)
  PROVE  Moves(r)
  <1> DEFINE q == [at |-> FirstStage(c), user |-> u, call |-> c, deck |-> AddressedDeck(c),
                   view |-> NoView, status |-> None]
             a == [at |-> "done", user |-> u, call |-> None, deck |-> None,
                   view |-> NoView, status |-> "failed"]
  <1>1. q \in Request /\ a \in Request
    BY AddressedDeckType, IdleType DEF Request, FirstStage, Stage, Status
  <1>2. req' = [req EXCEPT ![r] = IF TurnedDown(c) THEN a ELSE q]
    BY DEF Arrive, Answered
  <1>3. req' \in [Req -> Request] /\ \A s \in Req : s # r => req'[s] = req[s]
    BY <1>1, <1>2 DEF IInv
  <1>4. CASE TurnedDown(c)
    <2>1. req'[r] = a
      BY <1>2, <1>4 DEF IInv
    <2>2. QED
      BY <2>1, <1>3 DEF Moves, WellFormed, Remembers, Checked, ViewTrue, NoView
  <1>5. CASE ~TurnedDown(c)
    <2>1. req'[r] = q
      BY <1>2, <1>5 DEF IInv
    <2>2. WellFormed(req[r])'
      BY <2>1 DEF WellFormed, FirstStage
    <2>3. FirstStage(c) = "write" => c.op \in {"create", "delete", "import"}
      BY DEF FirstStage
    <2>4. Remembers(req[r])'
      BY <2>1, <2>3 DEF Remembers, Checked, ViewTrue, NoView, FirstStage, AddressedDeck
    <2>5. QED
      BY <1>3, <2>2, <2>4 DEF Moves
  <1>6. QED
    BY <1>4, <1>5

\* The reads.
LEMMA GetDeckRowMoves ==
  ASSUME IInv, NEW r \in Req, GetDeckRow(r)
  PROVE  Moves(r)
  <1> DEFINE q == req[r]
             d == q.deck
             v == IF KeepsView(q.call)
                  THEN [NoView EXCEPT !.decks = {d}, !.name = decks[d].name,
                                      !.format = decks[d].format]
                  ELSE NoView
  <1>1. q.at = "row" /\ q.call.op # "list" /\ UNCHANGED tables
    BY DEF GetDeckRow
  <1>2. CASE ~Owns(q.user, d)
    BY <1>1, <1>2, BlankAnswerMoves DEF GetDeckRow, Status
  <1>3. CASE Owns(q.user, d)
    <2>1. d \in Deck /\ q.call \in Call /\ q.user \in User
      BY <1>1, AddressedDeckType DEF IInv, RequestsOK, WellFormed
    <2>2. decks[d] \in DeckRow /\ decks[d].owner = q.user /\ d \in used
      BY <1>3, <2>1 DEF IInv, TablesOK, UsedIds, Owns, Live
    <2>3. v \in View /\ v.decks = (IF KeepsView(q.call) THEN {d} ELSE {})
            /\ v.entries = {} /\ v.covers = {}
            /\ (q.call.op = "update" => v.format \in Format)
      BY <2>1, <2>2 DEF NoView, View, DeckRow, KeepsView
    <2>4. Proceed(r, "entries", v)
      BY <1>3 DEF GetDeckRow
    <2>5. /\ req' \in [Req -> Request]
          /\ \A s \in Req : s # r => req'[s] = req[s]
          /\ req'[r].at = "entries" /\ req'[r].view = v
          /\ req'[r].user = q.user /\ req'[r].call = q.call /\ req'[r].deck = d
      BY <2>3, <2>4, ProceedFields DEF Stage
    <2>6. WellFormed(req[r])'
      BY <1>1, <2>3, <2>5 DEF WellFormed, IInv, RequestsOK
    <2>7. Remembers(req[r])'
      BY <1>1, <1>3, <2>2, <2>3, <2>5 DEF Remembers, Checked, ViewTrue, Owns, Live, tables
    <2>8. QED
      BY <2>5, <2>6, <2>7 DEF Moves
  <1>4. QED
    BY <1>2, <1>3

\* Having read the entries, a request knows which are its deck's.
LEMMA ListEntriesMoves ==
  ASSUME IInv, NEW r \in Req, ListEntriesByDeck(r)
  PROVE  Moves(r)
  <1> DEFINE q == req[r]
             v == IF KeepsView(q.call) THEN [q.view EXCEPT !.entries = EntriesOf(q.deck)]
                                       ELSE q.view
  <1>1. q.at = "entries" /\ Proceed(r, "covers", v) /\ UNCHANGED tables
    BY DEF ListEntriesByDeck
  <1>2. q \in Request /\ WellFormed(q) /\ Remembers(q)
    BY DEF IInv, RequestsOK
  <1>3. q.deck \in Deck /\ q.deck # None /\ q.call.op # "delete"
    BY <1>1, <1>2, AddressedDeckType, DeckServiceAssumption DEF WellFormed
  <1>4. EntriesOf(q.deck) \subseteq Entry
    BY DEF EntriesOf
  <1>5. v \in View /\ v.decks = q.view.decks /\ v.covers = q.view.covers
          /\ (KeepsView(q.call) => v.entries = EntriesOf(q.deck))
          /\ (~KeepsView(q.call) => v.entries = q.view.entries)
    BY <1>2, <1>4 DEF Request, View
  <1>6. /\ req' \in [Req -> Request]
        /\ \A s \in Req : s # r => req'[s] = req[s]
        /\ req'[r].at = "covers" /\ req'[r].view = v
        /\ req'[r].user = q.user /\ req'[r].call = q.call /\ req'[r].deck = q.deck
    BY <1>1, <1>5, ProceedFields DEF Stage
  <1>7. WellFormed(req[r])'
    BY <1>1, <1>2, <1>6 DEF WellFormed
  <1>8. Remembers(req[r])'
    <2>1. ViewTrue(q.user, v)
      BY <1>1, <1>2, <1>3, <1>5 DEF Remembers, ViewTrue, EntriesOf, IInv, UsedIds
    <2> HIDE DEF v
    <2>2. ViewTrue(req[r].user, req[r].view)'
      BY <1>1, <1>6, <2>1 DEF ViewTrue, tables, Owns, Live, InDeck
    <2>3. KeepsView(q.call) => v.decks = {q.deck}
      BY <1>1, <1>2, <1>5 DEF Remembers
    <2>4. q.deck \in used /\ (Live(q.deck) => Owns(q.user, q.deck))
      BY <1>1, <1>2, <1>3 DEF Remembers, Checked
    <2>5. QED
      BY <1>1, <1>6, <2>2, <2>3, <2>4 DEF Remembers, Checked, tables, Owns, Live
  <1>9. QED
    BY <1>6, <1>7, <1>8 DEF Moves

\* The covers of a deck that are read are its own entries.
LEMMA CoverRowsTrue ==
  ASSUME IInv, NEW D \in SUBSET Deck
  PROVE  /\ CoverRows(D) \subseteq Deck \X Slot \X Entry
         /\ \A c \in CoverRows(D) : c[1] \in D /\ c[3] \in used /\ InDeck(c[3], c[1])
  <1>1. CoverRows(D) \subseteq Deck \X Slot \X Entry
    BY DEF CoverRows
  <1>2. ASSUME NEW c \in CoverRows(D)
        PROVE  c[1] \in D /\ c[3] \in used /\ InDeck(c[3], c[1])
    <2>1. c[1] \in D /\ c[2] \in Slot /\ c[3] \in Entry /\ covers[c[1]][c[2]] = c[3]
            /\ entries[c[3]] # None
      BY <1>2 DEF CoverRows
    <2>2. covers[c[1]][c[2]] # None
      BY <2>1, DeckServiceAssumption
    <2>3. InDeck(c[3], c[1])
      BY <2>1, <2>2 DEF IInv, CoversAreOwnEntries
    <2>4. QED
      BY <2>1, <2>3 DEF IInv, UsedIds
  <1>3. QED
    BY <1>1, <1>2

\* The last read of repo.Get: an answer, a refusal, or on to the write.
LEMMA ListCoversMoves ==
  ASSUME IInv, NEW r \in Req, ListCoversByDeck(r)
  PROVE  Moves(r)
  <1> DEFINE q == req[r]
             v == IF KeepsView(q.call) THEN [q.view EXCEPT !.covers = CoverRows({q.deck})]
                                       ELSE q.view
             w == IF q.call.op = "update" THEN v ELSE NoView
  <1>1. q.at = "covers" /\ q.call.op # "list" /\ UNCHANGED tables
    BY DEF ListCoversByDeck
  <1>2. q \in Request /\ WellFormed(q) /\ Remembers(q)
    BY DEF IInv, RequestsOK
  <1>3. q.deck \in Deck /\ q.deck # None /\ q.call.op # "delete" /\ q.user \in User
    BY <1>1, <1>2, AddressedDeckType, DeckServiceAssumption DEF WellFormed
  <1>4. CoverRows({q.deck}) \subseteq Deck \X Slot \X Entry
    BY <1>3, CoverRowsTrue
  <1>5. v \in View /\ v.decks = q.view.decks /\ v.entries = q.view.entries
          /\ (KeepsView(q.call) => v.covers = CoverRows({q.deck}))
          /\ (~KeepsView(q.call) => v.covers = q.view.covers)
    BY <1>2, <1>4 DEF Request, View
  <1>6. ViewTrue(q.user, v)
    <2>1. KeepsView(q.call) => v.decks = {q.deck}
      BY <1>1, <1>2, <1>5 DEF Remembers
    <2>2. \A c \in CoverRows({q.deck}) : c[1] = q.deck /\ c[3] \in used /\ InDeck(c[3], c[1])
      BY <1>3, CoverRowsTrue
    <2>3. QED
      BY <1>2, <1>5, <2>1, <2>2 DEF Remembers, ViewTrue
  <1>7. CASE q.call.op = "get"
    <2>1. Answer(r, "ok", v)
      BY <1>7 DEF ListCoversByDeck
    <2>2. PICK shown \in View : shown = v
      BY <1>5
    <2>3. Answer(r, "ok", shown) /\ ViewTrue(q.user, shown)
      BY <1>6, <2>1, <2>2
    <2>4. QED
      BY <2>3, <1>1, <1>3, AnswerKeepsView DEF Status
  <1>8. CASE q.call.op # "get" /\ ~Acceptable(q.call, v)
    BY <1>1, <1>8, BlankAnswerMoves DEF ListCoversByDeck, Status
  <1>9. CASE q.call.op # "get" /\ Acceptable(q.call, v)
    <2>1. Proceed(r, "write", w)
      BY <1>9 DEF ListCoversByDeck
    <2>2. w \in View /\ ViewTrue(q.user, w)
            /\ (q.call.op = "update" => w.format \in Format)
      <3>1. w \in View /\ ViewTrue(q.user, w)
        BY <1>5, <1>6, IdleType, NoViewTrue
      <3>2. q.call.op = "update" => w.format = q.view.format
        BY <1>2 DEF Request, View
      <3>3. QED
        BY <1>1, <1>2, <3>1, <3>2 DEF WellFormed
    <2>3. q.call.op = "setCovers" =>
            /\ \A i \in DOMAIN q.call.ids :
                 /\ q.call.ids[i] \in used
                 /\ entries[q.call.ids[i]] # None => InDeck(q.call.ids[i], q.deck)
            /\ \A i, j \in DOMAIN q.call.ids : i # j => q.call.ids[i] # q.call.ids[j]
      <3>1. q.call.op = "setCovers" => v.decks = {q.deck}
        BY <1>1, <1>2, <1>5 DEF Remembers, KeepsView
      <3>2. QED
        BY <1>6, <1>9, <3>1 DEF Acceptable, ViewTrue, InDeck
    <2> HIDE DEF v, w
    <2>4. /\ req' \in [Req -> Request]
          /\ \A s \in Req : s # r => req'[s] = req[s]
          /\ req'[r].at = "write" /\ req'[r].view = w
          /\ req'[r].user = q.user /\ req'[r].call = q.call /\ req'[r].deck = q.deck
      BY <2>1, <2>2, ProceedFields DEF Stage
    <2>5. WellFormed(req[r])'
      BY <1>1, <1>2, <1>9, <2>2, <2>4 DEF WellFormed
    <2>6. ViewTrue(req[r].user, req[r].view)'
      BY <1>1, <2>2, <2>4 DEF ViewTrue, tables, Owns, Live, InDeck
    <2>7. q.deck \in used /\ (Live(q.deck) => Owns(q.user, q.deck))
      BY <1>1, <1>2, <1>3 DEF Remembers, Checked
    <2>8. Remembers(req[r])'
      BY <1>1, <2>3, <2>4, <2>6, <2>7 DEF Remembers, Checked, tables, Owns, Live, InDeck
    <2>9. QED
      BY <2>4, <2>5, <2>8 DEF Moves
  <1>10. QED
    BY <1>7, <1>8, <1>9

\* A list request has read the user's decks.
LEMMA ListDecksMoves ==
  ASSUME IInv, NEW r \in Req, ListDecks(r)
  PROVE  Moves(r)
  <1> DEFINE q == req[r]
             mine == {d \in Deck : Owns(q.user, d)}
             v == [NoView EXCEPT !.decks = mine]
  <1>1. q.at = "row" /\ q.call.op = "list" /\ Proceed(r, "covers", v) /\ UNCHANGED tables
    BY DEF ListDecks
  <1>2. v \in View /\ v.decks = mine /\ v.entries = {} /\ v.covers = {}
    BY DEF NoView, View
  <1>3. ViewTrue(q.user, v)
    BY <1>2 DEF ViewTrue, Owns, IInv, UsedIds
  <1> HIDE DEF v
  <1>4. /\ req' \in [Req -> Request]
        /\ \A s \in Req : s # r => req'[s] = req[s]
        /\ req'[r].at = "covers" /\ req'[r].view = v
        /\ req'[r].user = q.user /\ req'[r].call = q.call /\ req'[r].deck = q.deck
    BY <1>1, <1>2, ProceedFields DEF Stage
  <1>5. WellFormed(req[r])'
    BY <1>1, <1>4 DEF WellFormed, IInv, RequestsOK
  <1>6. req'[r].deck = None
    BY <1>1, <1>4 DEF IInv, RequestsOK, WellFormed, AddressedDeck
  <1>7. Remembers(req[r])'
    <2>1. ViewTrue(req[r].user, req[r].view)'
      BY <1>1, <1>3, <1>4 DEF ViewTrue, tables, Owns, Live, InDeck
    <2>2. QED
      BY <1>1, <1>4, <1>6, <2>1 DEF Remembers, Checked, KeepsView
  <1>8. QED
    BY <1>4, <1>5, <1>7 DEF Moves

\* The answer of a list request.
LEMMA ListCoversByUserMoves ==
  ASSUME IInv, NEW r \in Req, ListCoversByUser(r)
  PROVE  Moves(r)
  <1> DEFINE q == req[r]
             D == {d \in Deck : Owns(q.user, d)} \cap q.view.decks
             v == [q.view EXCEPT !.covers = CoverRows(D)]
  <1>1. q.at = "covers" /\ Answer(r, "ok", v) /\ UNCHANGED tables
    BY DEF ListCoversByUser
  <1>2. q \in Request /\ q.user \in User /\ Remembers(q)
    BY <1>1 DEF IInv, RequestsOK, WellFormed
  <1>3. CoverRows(D) \subseteq Deck \X Slot \X Entry
          /\ \A c \in CoverRows(D) : c[1] \in D /\ c[3] \in used /\ InDeck(c[3], c[1])
    BY CoverRowsTrue
  <1>4. v \in View /\ v.decks = q.view.decks /\ v.entries = q.view.entries
          /\ v.covers = CoverRows(D)
    BY <1>2, <1>3 DEF Request, View
  <1>5. ViewTrue(q.user, v)
    BY <1>2, <1>3, <1>4 DEF Remembers, ViewTrue
  <1>6. PICK shown \in View : shown = v
    BY <1>4
  <1>7. Answer(r, "ok", shown) /\ ViewTrue(q.user, shown)
    BY <1>1, <1>5, <1>6
  <1>8. QED
    BY <1>1, <1>2, <1>7, AnswerKeepsView DEF Status

\* The writes that are answered without content.
LEMMA BlankWritesMove ==
  ASSUME IInv, NEW r \in Req,
         DeleteDeck(r) \/ AddEntry(r) \/ UpdateEntryCount(r) \/ UpdateEntryImageUrl(r)
           \/ DeleteEntry(r) \/ SetCovers(r)
  PROVE  Moves(r)
  <1>1. req[r].at = "write" /\ \E st \in Status : Answer(r, st, NoView)
    BY DEF DeleteDeck, AddEntry, UpdateEntryCount, UpdateEntryImageUrl, DeleteEntry, SetCovers,
           Writing, Status
  <1>2. QED
    BY <1>1, BlankAnswerMoves

\* The answer of an update shows the deck that was read.
LEMMA UpdateDeckMoves ==
  ASSUME IInv, RowsKeepTheirPlace, NEW r \in Req, UpdateDeck(r)
  PROVE  Moves(r)
  <1> DEFINE q == req[r]
             name == OrBlank(q.call.name, q.view.name)
             format == OrBlank(q.call.format, q.view.format)
             v == [q.view EXCEPT !.name = name, !.format = format]
  <1>1. q.at = "write" /\ q.call.op = "update"
    BY DEF UpdateDeck, Writing
  <1>2. CASE ~Owns(q.user, q.deck)
    BY <1>1, <1>2, BlankAnswerMoves DEF UpdateDeck, Status
  <1>3. CASE Owns(q.user, q.deck)
    <2>1. q \in Request /\ q.call \in Call /\ q.user \in User /\ Remembers(q)
      BY <1>1 DEF IInv, RequestsOK, WellFormed
    <2>2. name \in Name \cup {None} /\ format \in Format \cup {None}
      BY <1>1, <2>1, CallFields DEF OrBlank, Request, View
    <2>3. v \in View /\ v.decks = q.view.decks /\ v.entries = q.view.entries
            /\ v.covers = q.view.covers
      BY <2>1, <2>2 DEF Request, View
    <2>4. PICK shown \in View, u \in User : shown = v /\ u = q.user
      BY <2>1, <2>3
    <2>5. Answer(r, "ok", shown)
      BY <1>3, <2>4 DEF UpdateDeck
    <2>6. ViewTrue(u, shown)
      BY <2>1, <2>3, <2>4 DEF Remembers, ViewTrue
    <2>7. ViewTrue(u, shown)'
      BY <2>6, ViewsStayTrue DEF IInv
    <2>8. req'[r].user = u
      BY <2>4, <2>5 DEF Answer, Answered, IInv
    <2>9. ViewTrue(req[r].user, shown)'
      BY <2>7, <2>8 DEF ViewTrue
    <2>10. QED
      BY <2>1, <2>5, <2>9, AnswerMoves DEF Status
  <1>4. QED
    BY <1>2, <1>3

\* A new deck is shown, or goes on to be filled, under a fresh id.
LEMMA CreateDeckMoves ==
  ASSUME IInv, NEW r \in Req, CreateDeck(r)
  PROVE  Moves(r)
  <1> DEFINE q == req[r]
  <1>1. q.at = "write" /\ q.call.op \in {"create", "import"}
    BY DEF CreateDeck
  <1>2. q \in Request /\ q.call \in Call /\ q.user \in User /\ WellFormed(q) /\ Remembers(q)
    BY <1>1 DEF IInv, RequestsOK, WellFormed
  <1>3. PICK d \in Deck \ used :
          /\ used' = used \cup {d}
          /\ decks' = [decks EXCEPT ![d] = [owner |-> q.user, name |-> q.call.name,
                                            format |-> OrBlank(q.call.format, DefaultFormat)]]
          /\ entries' = entries
          /\ IF q.call.op = "create"
             THEN Answer(r, "ok", [NoView EXCEPT !.decks = {d}])
             ELSE req' = [req EXCEPT ![r].at = "fill", ![r].deck = d]
    BY DEF CreateDeck
  <1>4. d \in used' /\ decks'[d].owner = q.user
    BY <1>3 DEF IInv, TablesOK
  <1>5. CASE q.call.op = "create"
    <2>1. PICK v \in View : v = [NoView EXCEPT !.decks = {d}]
      BY DEF View, NoView
    <2>2. v.decks = {d} /\ v.entries = {} /\ v.covers = {}
      BY <2>1 DEF NoView
    <2>3. Answer(r, "ok", v)
      BY <1>3, <1>5, <2>1
    <2>4. req'[r].user = q.user
      BY <2>3 DEF Answer, Answered, IInv
    <2>5. ViewTrue(req[r].user, v)'
      BY <1>4, <2>2, <2>4 DEF ViewTrue, Owns, Live
    <2>6. QED
      BY <1>2, <2>3, <2>5, AnswerMoves DEF Status
  <1>6. CASE q.call.op = "import"
    <2>1. /\ req' \in [Req -> Request]
          /\ \A s \in Req : s # r => req'[s] = req[s]
          /\ req'[r].at = "fill" /\ req'[r].deck = d /\ req'[r].call = q.call
          /\ req'[r].user = q.user /\ req'[r].view = q.view
      BY <1>2, <1>3, <1>6 DEF IInv, Request, Stage
    <2>2. WellFormed(req[r])'
      BY <1>2, <1>3, <1>6, <2>1 DEF WellFormed
    <2>3. \A x \in q.view.decks : x # d
      BY <1>2, <1>3 DEF Remembers, ViewTrue
    <2>4. ViewTrue(req[r].user, req[r].view)'
      BY <1>2, <1>3, <2>1, <2>3 DEF Remembers, ViewTrue, Owns, Live, InDeck, IInv, TablesOK,
                                    Request, View
    <2>5. Remembers(req[r])'
      BY <1>4, <2>1, <2>4 DEF Remembers, Checked, Owns, Live
    <2>6. QED
      BY <2>1, <2>2, <2>5 DEF Moves
  <1>7. QED
    BY <1>1, <1>5, <1>6

\* The answer of an import shows its own new entries.
LEMMA ReplaceEntriesMoves ==
  ASSUME IInv, NEW r \in Req, ReplaceEntries(r)
  PROVE  Moves(r)
  <1> DEFINE q == req[r]
             d == q.deck
             lines == q.call.lines
  <1>1. q.at = "fill"
    BY DEF ReplaceEntries
  <1>2. CASE Answer(r, "failed", NoView)
    BY <1>1, <1>2, BlankAnswerMoves DEF Status
  <1>3. CASE ~Answer(r, "failed", NoView)
    <2>1. q.user \in User /\ d \in Deck /\ d # None /\ q.call.op = "import" /\ Remembers(q)
      BY <1>1, DeckServiceAssumption DEF IInv, RequestsOK, WellFormed
    <2>2. d \in used /\ (Live(d) => decks[d].owner = q.user)
      BY <1>1, <2>1 DEF Remembers, Checked, Owns
    <2>3. PICK id \in [DOMAIN lines -> Entry \ used] :
            LET new == {id[i] : i \in DOMAIN lines}
            IN /\ used' = used \cup new
               /\ entries' = [e \in Entry |->
                    IF e \in new THEN RowOf(d, lines[CHOOSE i \in DOMAIN lines : id[i] = e])
                    ELSE IF e \in EntriesOf(d) THEN None ELSE entries[e]]
               /\ Answer(r, "ok", [NoView EXCEPT !.decks = {d}, !.entries = new])
      BY <1>3 DEF ReplaceEntries, DeleteEntriesByDeck
    <2>4. PICK new \in SUBSET Entry : new = {id[i] : i \in DOMAIN lines}
      OBVIOUS
    <2>5. PICK v \in View : v = [NoView EXCEPT !.decks = {d}, !.entries = new]
      BY <2>1, <2>4 DEF View, NoView
    <2>6. v.decks = {d} /\ v.entries = new /\ v.covers = {}
      BY <2>5 DEF NoView
    <2>7. Answer(r, "ok", v)
      BY <2>3, <2>4, <2>5
    <2>8. req'[r].user = q.user /\ decks' = decks
      BY <2>7 DEF Answer, Answered, IInv, ReplaceEntries
    <2>9. used' = used \cup new /\ \A e \in new : entries'[e].deck = d
      BY <2>3, <2>4 DEF RowOf
    <2>10. ViewTrue(req[r].user, v)'
      BY <2>2, <2>6, <2>8, <2>9 DEF ViewTrue, Owns, Live
    <2>11. QED
      BY <2>1, <2>7, <2>10, AnswerMoves DEF Status
  <1>4. QED
    BY <1>2, <1>3

--------------------------------------------------------------------------------
(***************************************************************************)
(* The tables keep theirs.                                                 *)
(***************************************************************************)
TablesInv == TablesOK /\ UsedIds /\ EntriesHaveDecks /\ CoversAreOwnEntries

\* Nothing is lost where nothing is written.
LEMMA UnchangedTables == IInv /\ UNCHANGED tables => TablesInv'
  BY DEF IInv, TablesInv, tables, TablesOK, UsedIds, EntriesHaveDecks, CoversAreOwnEntries,
         Live, InDeck

\* INSERT INTO decks puts a row of the user's under an id nothing refers to.
LEMMA CreatedRow ==
  ASSUME IInv, NEW r \in Req, CreateDeck(r)
  PROVE  \E d \in Deck \ used, row \in DeckRow :
           /\ row.owner = req[r].user
           /\ used' = used \cup {d}
           /\ decks' = [decks EXCEPT ![d] = row]
  <1> DEFINE q == req[r]
  <1>1. q.call \in Call /\ q.user \in User /\ q.call.op \in {"create", "import"}
    BY DEF CreateDeck, IInv, RequestsOK, WellFormed
  <1>2. q.call.name \in Name \cup {None} /\ OrBlank(q.call.format, DefaultFormat) \in Format
    BY <1>1, CallFields, DeckServiceAssumption DEF OrBlank
  <1>3. [owner |-> q.user, name |-> q.call.name,
         format |-> OrBlank(q.call.format, DefaultFormat)] \in DeckRow
    BY <1>1, <1>2 DEF DeckRow
  <1>4. QED
    BY <1>3 DEF CreateDeck

\* A new deck is empty.
LEMMA CreateDeckTables ==
  ASSUME IInv, NEW r \in Req, CreateDeck(r)
  PROVE  TablesInv'
  <1>2. PICK d \in Deck \ used, row \in DeckRow :
          used' = used \cup {d} /\ decks' = [decks EXCEPT ![d] = row]
    BY CreatedRow
  <1>3. entries' = entries /\ covers' = covers
    BY DEF CreateDeck
  <1>4. row # None
    BY <1>2, NoneIsNoRow
  <1>5. TablesOK' /\ UsedIds'
    BY <1>2, <1>3 DEF IInv, TablesOK, UsedIds, Live
  <1>6. EntriesHaveDecks' /\ CoversAreOwnEntries'
    BY <1>2, <1>3, <1>4 DEF IInv, TablesOK, EntriesHaveDecks, CoversAreOwnEntries, Live, InDeck
  <1>7. QED
    BY <1>5, <1>6 DEF TablesInv

\* UPDATE decks keeps the owner.
LEMMA UpdateDeckTables ==
  ASSUME IInv, NEW r \in Req, UpdateDeck(r)
  PROVE  TablesInv'
  <1> DEFINE q == req[r]
             d == q.deck
  <1>1. q \in Request /\ q.call \in Call /\ q.user \in User /\ q.call.op = "update"
          /\ q.view.format \in Format
    BY DEF UpdateDeck, Writing, IInv, RequestsOK, WellFormed
  <1>2. entries' = entries /\ covers' = covers /\ used' = used
    BY DEF UpdateDeck
  <1>3. CASE ~Owns(q.user, d)
    BY <1>2, <1>3, UnchangedTables DEF UpdateDeck, tables
  <1>4. CASE Owns(q.user, d)
    <2>1. d \in Deck /\ Live(d)
      BY <1>1, <1>4, AddressedDeckType DEF Owns, UpdateDeck, Writing, IInv, RequestsOK, WellFormed
    <2>2. PICK n, f : decks' = [decks EXCEPT ![d] = [owner |-> q.user, name |-> n, format |-> f]]
                        /\ n = OrBlank(q.call.name, q.view.name)
                        /\ f = OrBlank(q.call.format, q.view.format)
      BY <1>4 DEF UpdateDeck
    <2>3. n \in Name \cup {None} /\ f \in Format
      BY <1>1, <2>2, CallFields DEF OrBlank, Request, View
    <2>4. PICK row \in DeckRow : decks' = [decks EXCEPT ![d] = row]
      BY <1>1, <2>2, <2>3 DEF DeckRow
    <2>5. row # None
      BY <2>4, NoneIsNoRow
    <2>6. QED
      BY <1>2, <2>1, <2>4, <2>5 DEF TablesInv, IInv, TablesOK, UsedIds, EntriesHaveDecks,
                                    CoversAreOwnEntries, Live, InDeck
  <1>5. QED
    BY <1>3, <1>4

\* Deleting rows takes the covers they are with them.
LEMMA WithoutType ==
  ASSUME NEW slots \in [Slot -> Entry \cup {None}], NEW E
  PROVE  /\ Without(slots, E) \in [Slot -> Entry \cup {None}]
         /\ \A s \in Slot : Without(slots, E)[s] # None =>
              Without(slots, E)[s] = slots[s] /\ slots[s] \notin E
  BY DEF Without

\* DELETE FROM decks takes the entries and covers of the deck with it.
LEMMA DeleteDeckTables ==
  ASSUME IInv, NEW r \in Req, DeleteDeck(r)
  PROVE  TablesInv'
  <1> DEFINE d == req[r].deck
             E == EntriesOf(d)
  <1>1. CASE ~Owns(req[r].user, d)
    BY <1>1, UnchangedTables DEF DeleteDeck, tables
  <1>2. CASE Owns(req[r].user, d)
    <2>1. /\ decks' = [decks EXCEPT ![d] = None]
          /\ entries' = [e \in Entry |-> IF e \in E THEN None ELSE entries[e]]
          /\ covers' = [x \in Deck |-> IF x = d THEN [s \in Slot |-> None]
                                       ELSE Without(covers[x], E)]
          /\ used' = used
      BY <1>2 DEF DeleteDeck
    <2>2. \A x \in Deck : covers[x] \in [Slot -> Entry \cup {None}]
      BY DEF IInv, TablesOK
    <2>3. \A x \in Deck : /\ covers'[x] \in [Slot -> Entry \cup {None}]
                          /\ \A s \in Slot : covers'[x][s] # None =>
                               /\ x # d
                               /\ covers'[x][s] = covers[x][s]
                               /\ covers[x][s] \notin E
      BY <2>1, <2>2, WithoutType
    <2>4. TablesOK' /\ UsedIds'
      <3>1. covers' = [x \in Deck |-> covers'[x]]
        BY <2>1
      <3>2. covers' \in [Deck -> [Slot -> Entry \cup {None}]]
        BY <2>3, <3>1
      <3>3. QED
        BY <2>1, <3>2 DEF IInv, TablesOK, UsedIds, Live
    <2>5. EntriesHaveDecks'
      BY <2>1 DEF IInv, TablesOK, EntriesHaveDecks, Live, EntriesOf
    <2>6. CoversAreOwnEntries'
      <3> SUFFICES ASSUME NEW x \in Deck, NEW s \in Slot, covers'[x][s] # None
                   PROVE  /\ entries'[covers'[x][s]] # None /\ entries'[covers'[x][s]].deck = x
                          /\ \A t \in Slot : covers'[x][t] = covers'[x][s] => t = s
        BY DEF CoversAreOwnEntries, InDeck
      <3>1. x # d /\ covers'[x][s] = covers[x][s] /\ covers[x][s] \notin E
        BY <2>3
      <3>2. covers[x][s] \in Entry
        BY <2>2, <3>1
      <3>3. entries'[covers[x][s]] = entries[covers[x][s]]
        BY <2>1, <3>1, <3>2
      <3>4. \A t \in Slot : covers'[x][t] = covers'[x][s] => covers[x][t] = covers[x][s]
        BY <2>3, <3>1
      <3>5. QED
        BY <3>1, <3>3, <3>4 DEF IInv, CoversAreOwnEntries, InDeck
    <2>7. QED
      BY <2>4, <2>5, <2>6 DEF TablesInv
  <1>3. QED
    BY <1>1, <1>2

\* INSERT INTO deck_entries puts a row, under a fresh id, in a deck that is there.
LEMMA AddEntryTables ==
  ASSUME IInv, NEW r \in Req, AddEntry(r)
  PROVE  TablesInv'
  <1> DEFINE d == req[r].deck
             line == req[r].call.line
  <1>1. CASE ~Live(d)
    BY <1>1, UnchangedTables DEF AddEntry, tables
  <1>2. CASE Live(d)
    <2>1. d \in Deck /\ line \in Line
      BY AddressedDeckType, CallFields DEF AddEntry, Writing, IInv, RequestsOK, WellFormed
    <2>2. RowOf(d, line) \in EntryRow /\ RowOf(d, line).deck = d
      BY <2>1 DEF RowOf, EntryRow, Line, StoredCount
    <2>3. PICK e \in Entry \ used :
            used' = used \cup {e} /\ entries' = [entries EXCEPT ![e] = RowOf(d, line)]
      BY <1>2 DEF AddEntry
    <2>4. decks' = decks /\ covers' = covers
      BY DEF AddEntry
    <2>5. entries[e] = None
      BY <2>3 DEF IInv, UsedIds
    <2>6. QED
      BY <1>2, <2>2, <2>3, <2>4, <2>5 DEF TablesInv, IInv, TablesOK, UsedIds, EntriesHaveDecks,
                                          CoversAreOwnEntries, Live, InDeck
  <1>3. QED
    BY <1>1, <1>2

\* Changing a row in place: all that refers to it still may.
LEMMA EditTables ==
  ASSUME IInv, NEW e \in Entry, NEW row \in EntryRow, entries[e] # None,
         row.deck = entries[e].deck, entries' = [entries EXCEPT ![e] = row],
         UNCHANGED <<decks, covers, used>>
  PROVE  TablesInv'
  <1>1. row # None
    BY NoneIsNoRow
  <1>2. TablesOK' /\ UsedIds'
    BY DEF IInv, TablesOK, UsedIds, Live
  <1>3. EntriesHaveDecks'
    BY DEF IInv, TablesOK, EntriesHaveDecks, Live
  <1>4. CoversAreOwnEntries'
    BY <1>1 DEF IInv, TablesOK, CoversAreOwnEntries, InDeck
  <1>5. QED
    BY <1>2, <1>3, <1>4 DEF TablesInv

\* The two UPDATEs of deck_entries.
LEMMA UpdateEntryTables ==
  ASSUME IInv, NEW r \in Req, UpdateEntryCount(r) \/ UpdateEntryImageUrl(r)
  PROVE  TablesInv'
  <1> DEFINE q == req[r]
             e == q.call.entry
  <1>1. q.call \in Call /\ q.at = "write" /\ q.call.op \in {"updateEntry", "updateEntryArt"}
    BY DEF UpdateEntryCount, UpdateEntryImageUrl, Writing, IInv, RequestsOK, WellFormed
  <1>2. CASE ~InDeck(e, q.deck)
    BY <1>2, UnchangedTables DEF UpdateEntryCount, UpdateEntryImageUrl, tables
  <1>3. CASE InDeck(e, q.deck)
    <2>1. e \in Entry /\ entries[e] \in EntryRow /\ entries[e] # None
      BY <1>1, <1>3, CallFields DEF InDeck, IInv, TablesOK
    <2>2. CASE UpdateEntryCount(r)
      <3>1. DecodedCount(q.call) \in StoredCount
        BY <1>1, <2>2, CallFields DEF DecodedCount, OrBlank, StoredCount, UpdateEntryCount, Writing
      <3>2. PICK row : row = [entries[e] EXCEPT !.count = DecodedCount(q.call)]
        OBVIOUS
      <3>3. row \in EntryRow /\ row.deck = entries[e].deck
        BY <2>1, <3>1, <3>2 DEF EntryRow
      <3>4. entries' = [entries EXCEPT ![e] = row] /\ UNCHANGED <<decks, covers, used>>
        BY <1>3, <2>2, <3>2 DEF UpdateEntryCount
      <3>5. QED
        BY <2>1, <3>3, <3>4, EditTables
    <2>3. CASE UpdateEntryImageUrl(r)
      <3>1. q.call.art \in Art \cup {None}
        BY <1>1, <2>3, CallFields DEF UpdateEntryImageUrl, Writing
      <3>2. PICK row : row = [entries[e] EXCEPT !.art = q.call.art]
        OBVIOUS
      <3>3. row \in EntryRow /\ row.deck = entries[e].deck
        BY <2>1, <3>1, <3>2 DEF EntryRow
      <3>4. entries' = [entries EXCEPT ![e] = row] /\ UNCHANGED <<decks, covers, used>>
        BY <1>3, <2>3, <3>2 DEF UpdateEntryImageUrl
      <3>5. QED
        BY <2>1, <3>3, <3>4, EditTables
    <2>4. QED
      BY <2>2, <2>3
  <1>4. QED
    BY <1>2, <1>3

\* DELETE FROM deck_entries takes the covers the entry is with it.
LEMMA DeleteEntryTables ==
  ASSUME IInv, NEW r \in Req, DeleteEntry(r)
  PROVE  TablesInv'
  <1> DEFINE E == {req[r].call.entry}
  <1>1. CASE ~InDeck(req[r].call.entry, req[r].deck)
    BY <1>1, UnchangedTables DEF DeleteEntry, tables
  <1>2. CASE InDeck(req[r].call.entry, req[r].deck)
    <2>1. /\ entries' = [e \in Entry |-> IF e \in E THEN None ELSE entries[e]]
          /\ covers' = [x \in Deck |-> Without(covers[x], E)]
          /\ decks' = decks /\ used' = used
      BY <1>2 DEF DeleteEntry, DeleteEntries
    <2> HIDE DEF E
    <2>2. \A x \in Deck : covers[x] \in [Slot -> Entry \cup {None}]
      BY DEF IInv, TablesOK
    <2>3. \A x \in Deck : /\ covers'[x] \in [Slot -> Entry \cup {None}]
                          /\ \A s \in Slot : covers'[x][s] # None =>
                               covers'[x][s] = covers[x][s] /\ covers[x][s] \notin E
      BY <2>1, <2>2, WithoutType
    <2>4. TablesOK' /\ UsedIds'
      <3>1. covers' \in [Deck -> [Slot -> Entry \cup {None}]]
        BY <2>1, <2>3
      <3>2. QED
        BY <2>1, <3>1 DEF IInv, TablesOK, UsedIds, Live
    <2>5. EntriesHaveDecks'
      BY <2>1 DEF IInv, TablesOK, EntriesHaveDecks, Live
    <2>6. CoversAreOwnEntries'
      <3> SUFFICES ASSUME NEW x \in Deck, NEW s \in Slot, covers'[x][s] # None
                   PROVE  /\ entries'[covers'[x][s]] # None /\ entries'[covers'[x][s]].deck = x
                          /\ \A t \in Slot : covers'[x][t] = covers'[x][s] => t = s
        BY DEF CoversAreOwnEntries, InDeck
      <3>1. covers'[x][s] = covers[x][s] /\ covers[x][s] \notin E /\ covers[x][s] \in Entry
        BY <2>2, <2>3
      <3>2. entries'[covers[x][s]] = entries[covers[x][s]]
        BY <2>1, <3>1
      <3>3. \A t \in Slot : covers'[x][t] = covers'[x][s] => covers[x][t] = covers[x][s]
        BY <2>3, <3>1
      <3>4. QED
        BY <3>1, <3>2, <3>3 DEF IInv, CoversAreOwnEntries, InDeck
    <2>7. QED
      BY <2>4, <2>5, <2>6 DEF TablesInv
  <1>3. QED
    BY <1>1, <1>2

\* The new covers were checked some steps ago: what is left of them is the deck's.
LEMMA SetCoversTables ==
  ASSUME IInv, NEW r \in Req, SetCovers(r)
  PROVE  TablesInv'
  <1> DEFINE q == req[r]
             d == q.deck
             ids == q.call.ids
             pick == [s \in Slot |-> IF s + 1 \in DOMAIN ids THEN ids[s + 1] ELSE None]
  <1>1. q.at = "write" /\ q.call.op = "setCovers" /\ q.call \in Call /\ Remembers(q) /\ d \in Deck
    BY AddressedDeckType DEF SetCovers, Writing, IInv, RequestsOK, WellFormed
  <1>2. entries' = entries /\ decks' = decks /\ used' = used
    BY DEF SetCovers
  <1>3. CASE covers' = covers
    BY <1>2, <1>3, UnchangedTables DEF tables
  <1>4. CASE covers' # covers
    <2>1. /\ covers' = [covers EXCEPT ![d] = pick]
          /\ ids = <<>> \/ \A i \in DOMAIN ids : entries[ids[i]] # None
      BY <1>4 DEF SetCovers
    <2>2. ids \in CoverList
      BY <1>1, CallFields
    <2>3. \A i \in DOMAIN ids : ids[i] \in Entry
      BY <2>2 DEF CoverList
    <2>4. \A s \in Slot : s + 1 \in Int
      BY DEF Slot, MaxCovers
    <2>5. pick \in [Slot -> Entry \cup {None}]
      BY <2>3
    <2>6. \A s \in Slot : pick[s] # None => s + 1 \in DOMAIN ids /\ pick[s] = ids[s + 1]
      OBVIOUS
    <2>7. \A s \in Slot : pick[s] # None =>
            /\ InDeck(pick[s], d)
            /\ \A t \in Slot : pick[t] = pick[s] => t = s
      <3> SUFFICES ASSUME NEW s \in Slot, pick[s] # None
                   PROVE  InDeck(pick[s], d) /\ \A t \in Slot : pick[t] = pick[s] => t = s
        OBVIOUS
      <3>1. s + 1 \in DOMAIN ids /\ pick[s] = ids[s + 1]
        BY <2>6
      <3>2. entries[ids[s + 1]] # None
        BY <2>1, <3>1
      <3>3. InDeck(pick[s], d)
        BY <1>1, <3>1, <3>2 DEF Remembers
      <3>4. ASSUME NEW t \in Slot, pick[t] = pick[s]
            PROVE  t = s
        <4>1. t + 1 \in DOMAIN ids /\ ids[t + 1] = ids[s + 1]
          BY <2>6, <3>1, <3>4
        <4>2. t + 1 = s + 1
          BY <1>1, <3>1, <4>1 DEF Remembers
        <4>3. t \in Int /\ s \in Int
          BY DEF Slot, MaxCovers
        <4>4. QED
          BY <4>2, <4>3
      <3>5. QED
        BY <3>3, <3>4
    <2> HIDE DEF pick
    <2>8. TablesOK' /\ UsedIds' /\ EntriesHaveDecks'
      BY <1>1, <1>2, <2>1, <2>5 DEF IInv, TablesOK, UsedIds, EntriesHaveDecks, Live
    <2>9. CoversAreOwnEntries'
      BY <1>1, <1>2, <2>1, <2>7 DEF IInv, TablesOK, CoversAreOwnEntries, InDeck
    <2>10. QED
      BY <2>8, <2>9 DEF TablesInv
  <1>5. QED
    BY <1>3, <1>4

\* The second half of an import puts its rows in a deck that is there.
LEMMA ReplaceEntriesTables ==
  ASSUME IInv, NEW r \in Req, ReplaceEntries(r)
  PROVE  TablesInv'
  <1> DEFINE q == req[r]
             d == q.deck
             lines == q.call.lines
             old == EntriesOf(d)
             Row(id, e) == RowOf(d, lines[CHOOSE i \in DOMAIN lines : id[i] = e])
  <1>1. d \in Deck /\ lines \in Decklist
    BY CallFields DEF ReplaceEntries, IInv, RequestsOK, WellFormed
  <1>2. decks' = decks
    BY DEF ReplaceEntries
  <1>3. CASE UNCHANGED tables
    BY <1>3, UnchangedTables
  <1>4. CASE ~UNCHANGED tables
    <2>1. lines = <<>> \/ Live(d)
      BY <1>4 DEF ReplaceEntries, DeleteEntriesByDeck, tables
    <2>2. PICK id \in [DOMAIN lines -> Entry \ used] :
            LET new == {id[i] : i \in DOMAIN lines}
            IN /\ used' = used \cup new
               /\ entries' = [e \in Entry |-> IF e \in new THEN Row(id, e)
                                              ELSE IF e \in old THEN None ELSE entries[e]]
               /\ covers' = [x \in Deck |-> Without(covers[x], old)]
      BY <1>4 DEF ReplaceEntries, DeleteEntriesByDeck, tables
    <2>3. PICK new : new = {id[i] : i \in DOMAIN lines}
      OBVIOUS
    <2>4. new \subseteq Entry \ used
      BY <2>2, <2>3
    <2>5. \A e \in new : Row(id, e) \in EntryRow /\ Row(id, e).deck = d
      <3> SUFFICES ASSUME NEW e \in new
                   PROVE  Row(id, e) \in EntryRow /\ Row(id, e).deck = d
        OBVIOUS
      <3>1. (CHOOSE i \in DOMAIN lines : id[i] = e) \in DOMAIN lines
        BY <2>3
      <3>2. \A i \in DOMAIN lines : lines[i] \in Line
        BY <1>1 DEF Decklist
      <3>3. PICK line \in Line : line = lines[CHOOSE i \in DOMAIN lines : id[i] = e]
        BY <3>1, <3>2
      <3>4. QED
        BY <1>1, <3>3 DEF RowOf, EntryRow, Line, StoredCount
    <2>6. new # {} => Live(d)
      BY <2>1, <2>3
    <2>7. /\ used' = used \cup new
          /\ entries' = [e \in Entry |-> IF e \in new THEN Row(id, e)
                                         ELSE IF e \in old THEN None ELSE entries[e]]
          /\ covers' = [x \in Deck |-> Without(covers[x], old)]
      BY <2>2, <2>3
    <2> HIDE DEF Row
    <2>8. \A x \in Deck : /\ covers[x] \in [Slot -> Entry \cup {None}]
                          /\ covers'[x] \in [Slot -> Entry \cup {None}]
                          /\ \A s \in Slot : covers'[x][s] # None =>
                               covers'[x][s] = covers[x][s] /\ covers[x][s] \notin old
      BY <2>7, WithoutType DEF IInv, TablesOK
    <2>9. TablesOK' /\ UsedIds'
      <3>1. covers' \in [Deck -> [Slot -> Entry \cup {None}]]
        BY <2>7, <2>8
      <3>2. entries' \in [Entry -> EntryRow \cup {None}]
        BY <2>5, <2>7 DEF IInv, TablesOK
      <3>3. QED
        BY <1>2, <2>4, <2>7, <3>1, <3>2 DEF IInv, TablesOK, UsedIds, Live
    <2>10. EntriesHaveDecks'
      BY <1>2, <2>5, <2>6, <2>7 DEF IInv, TablesOK, EntriesHaveDecks, Live
    <2>11. CoversAreOwnEntries'
      <3> SUFFICES ASSUME NEW x \in Deck, NEW s \in Slot, covers'[x][s] # None
                   PROVE  /\ entries'[covers'[x][s]] # None /\ entries'[covers'[x][s]].deck = x
                          /\ \A t \in Slot : covers'[x][t] = covers'[x][s] => t = s
        BY DEF CoversAreOwnEntries, InDeck
      <3>1. covers'[x][s] = covers[x][s] /\ covers[x][s] \notin old /\ covers[x][s] \in Entry
        BY <2>8
      <3>2. entries[covers[x][s]] # None /\ entries[covers[x][s]].deck = x
        BY <3>1 DEF IInv, CoversAreOwnEntries, InDeck
      <3>3. covers[x][s] \notin new
        BY <2>4, <3>1, <3>2 DEF IInv, UsedIds
      <3>4. entries'[covers[x][s]] = entries[covers[x][s]]
        BY <2>7, <3>1, <3>3
      <3>5. \A t \in Slot : covers'[x][t] = covers'[x][s] => covers[x][t] = covers[x][s]
        BY <2>8, <3>1
      <3>6. QED
        BY <3>1, <3>2, <3>4, <3>5 DEF IInv, CoversAreOwnEntries
    <2>12. QED
      BY <2>9, <2>10, <2>11 DEF TablesInv
  <1>5. QED
    BY <1>3, <1>4

--------------------------------------------------------------------------------
(***************************************************************************)
(* The invariant, and what follows from it.                                *)
(***************************************************************************)

\* A request record that nobody uses is in order.
LEMMA IdleInOrder == WellFormed(Idle) /\ Remembers(Idle)
  BY NoViewTrue DEF Idle, WellFormed, Remembers, Checked

\* The invariant holds of the empty database.
LEMMA InitInv == Init => IInv
  <1> SUFFICES ASSUME Init
               PROVE  IInv
    OBVIOUS
  <1>1. TablesOK /\ UsedIds /\ EntriesHaveDecks /\ CoversAreOwnEntries
    BY DEF Init, TablesOK, UsedIds, EntriesHaveDecks, CoversAreOwnEntries, Live
  <1>2. req \in [Req -> Request] /\ RequestsOK
    BY IdleType, IdleInOrder DEF Init, RequestsOK
  <1>3. QED
    BY <1>1, <1>2 DEF IInv

\* An answer that was delivered leaves an idle request.
LEMMA LeaveMoves ==
  ASSUME IInv, NEW r \in Req, Leave(r)
  PROVE  Moves(r)
  <1>1. req' = [req EXCEPT ![r] = Idle]
    BY DEF Leave
  <1>2. req' \in [Req -> Request] /\ req'[r] = Idle /\ \A s \in Req : s # r => req'[s] = req[s]
    BY <1>1, IdleType DEF IInv
  <1>3. ViewTrue(req[r].user, req[r].view)'
    BY <1>2 DEF ViewTrue, Idle, NoView
  <1>4. WellFormed(req[r])' /\ Remembers(req[r])'
    BY <1>2, <1>3 DEF WellFormed, Remembers, Checked, Idle
  <1>5. QED
    BY <1>2, <1>4 DEF Moves

\* A restart forgets every request.
LEMMA RestartKeepsOrder == IInv /\ Restart => req' \in [Req -> Request] /\ RequestsOK'
  <1> SUFFICES ASSUME IInv, Restart
               PROVE  req' \in [Req -> Request] /\ RequestsOK'
    OBVIOUS
  <1>1. req' = [s \in Req |-> Idle]
    BY DEF Restart
  <1>2. req' \in [Req -> Request]
    BY <1>1, IdleType
  <1>3. ASSUME NEW r \in Req
        PROVE  WellFormed(req[r])' /\ Remembers(req[r])'
    <2>1. req'[r] = Idle
      BY <1>1
    <2>2. ViewTrue(req[r].user, req[r].view)'
      BY <2>1 DEF ViewTrue, Idle, NoView
    <2>3. QED
      BY <2>1, <2>2 DEF WellFormed, Remembers, Checked, Idle
  <1>4. QED
    BY <1>2, <1>3 DEF RequestsOK

\* Where nothing changes, nothing is forgotten.
LEMMA StutterKeepsOrder == IInv /\ UNCHANGED vars => req' \in [Req -> Request] /\ RequestsOK'
  <1> SUFFICES ASSUME IInv, UNCHANGED vars
               PROVE  req' \in [Req -> Request] /\ RequestsOK'
    OBVIOUS
  <1>1. req' = req
    BY DEF vars
  <1>2. RowsKeepTheirPlace
    BY StepKeepsPlace
  <1>3. ASSUME NEW r \in Req
        PROVE  WellFormed(req[r])' /\ Remembers(req[r])'
    BY <1>1, <1>2, OthersRemember DEF IInv, RequestsOK
  <1>4. QED
    BY <1>1, <1>3 DEF IInv, RequestsOK

\* Every step of a request moves that request only, and keeps it in order.
LEMMA StepMoves ==
  ASSUME IInv, RowsKeepTheirPlace, NEW r \in Req,
         \/ \E u \in User : \E c \in {k \in Call : k.op \in Ops} : Arrive(r, u, c)
         \/ Read(r) \/ Write(r) \/ Fail(r) \/ Leave(r)
  PROVE  Moves(r)
  <1>1. CASE \E u \in User : \E c \in {k \in Call : k.op \in Ops} : Arrive(r, u, c)
    BY <1>1, ArriveMoves
  <1>2. CASE Read(r)
    BY <1>2, GetDeckRowMoves, ListEntriesMoves, ListCoversMoves, ListDecksMoves,
       ListCoversByUserMoves DEF Read
  <1>3. CASE Write(r)
    BY <1>3, CreateDeckMoves, UpdateDeckMoves, BlankWritesMove, ReplaceEntriesMoves DEF Write
  <1>4. CASE Fail(r)
    BY <1>4, BlankAnswerMoves DEF Fail, Status
  <1>5. CASE Leave(r)
    BY <1>5, LeaveMoves
  <1>6. QED
    BY <1>1, <1>2, <1>3, <1>4, <1>5

\* Every step keeps what is said of the tables.
LEMMA StepKeepsTables == IInv /\ [Next]_vars => TablesInv'
  <1> SUFFICES ASSUME IInv, [Next]_vars
               PROVE  TablesInv'
    OBVIOUS
  <1>1. CASE UNCHANGED tables
    BY <1>1, UnchangedTables
  <1>2. ASSUME NEW r \in Req, Write(r)
        PROVE  TablesInv'
    BY <1>2, CreateDeckTables, UpdateDeckTables, DeleteDeckTables, AddEntryTables,
       UpdateEntryTables, DeleteEntryTables, SetCoversTables, ReplaceEntriesTables DEF Write
  <1>3. QED
    BY <1>1, <1>2
    DEF Next, vars, tables, Read, Arrive, Fail, Leave, Restart, GetDeckRow,
        ListEntriesByDeck, ListCoversByDeck, ListDecks, ListCoversByUser

\* The invariant is inductive.
LEMMA NextInv == IInv /\ [Next]_vars => IInv'
  <1> SUFFICES ASSUME IInv, [Next]_vars
               PROVE  IInv'
    OBVIOUS
  <1>1. RowsKeepTheirPlace
    BY StepKeepsPlace
  <1>2. TablesInv'
    BY StepKeepsTables
  <1>3. req' \in [Req -> Request] /\ RequestsOK'
    <2>1. CASE UNCHANGED vars
      BY <2>1, StutterKeepsOrder
    <2>2. CASE Restart
      BY <2>2, RestartKeepsOrder
    <2>3. CASE \E r \in Req : Moves(r)
      BY <2>3, <1>1, OneMoves DEF Moves
    <2>4. QED
      BY <1>1, <2>1, <2>2, <2>3, StepMoves DEF Next
  <1>4. QED
    BY <1>2, <1>3 DEF IInv, TablesInv

\* The invariant holds in every reachable state.
THEOREM Invariant == Spec => []IInv
  BY InitInv, NextInv, PTL DEF Spec

\* Tables and requests are of their types (the schema of migrations 0002 and 0003,
\* the types of internal/deck/deck.go).
THEOREM TypeCorrect == Spec => []TypeOK
  <1>1. IInv => TypeOK
    BY DEF IInv, TablesOK, TypeOK
  <1>2. QED
    BY <1>1, Invariant, PTL

\* No entry without its deck, for any number of concurrent adds, imports and deletes
\* (service.go AddEntry, Import).
THEOREM EntriesKeepDecks == Spec => []EntriesHaveDecks
  <1>1. IInv => EntriesHaveDecks
    BY DEF IInv
  <1>2. QED
    BY <1>1, Invariant, PTL

\* Covers are distinct entries of the deck they are of, though SetCovers checks
\* three statements before it writes (service.go SetCovers).
THEOREM CoversStayOwn == Spec => []CoversAreOwnEntries
  <1>1. IInv => CoversAreOwnEntries
    BY DEF IInv
  <1>2. QED
    BY <1>1, Invariant, PTL

\* An ownership check never becomes wrong before the write it guards
\* (service.go AddEntry ... SetCovers).
THEOREM ChecksHold == Spec => []ChecksStayTrue
  <1>1. IInv => ChecksStayTrue
    BY DEF IInv, RequestsOK, Remembers, ChecksStayTrue
  <1>2. QED
    BY <1>1, Invariant, PTL

\* Nobody is shown another user's deck, entry or cover (deck_repository.go List, Get).
THEOREM AnswersStayOwn == Spec => []AnswersShowOwnDecks
  <1>1. IInv => AnswersShowOwnDecks
    BY DEF IInv, RequestsOK, Remembers, ViewTrue, AnswersShowOwnDecks
  <1>2. QED
    BY <1>1, Invariant, PTL

\* Deleted rows stay deleted (service.go Update, AddEntry, Import).
THEOREM DeletedStaysDeleted == Spec => NothingComesBack
  <1> DEFINE Gone == /\ \A d \in Deck : d \in used /\ ~Live(d) => ~Live(d)'
                     /\ \A e \in Entry : e \in used /\ entries[e] = None => entries'[e] = None
  <1>1. RowsKeepTheirPlace => Gone
    BY DEF RowsKeepTheirPlace, Live
  <1>2. IInv /\ [Next]_vars => [Gone]_vars
    BY <1>1, StepKeepsPlace
  <1>3. QED
    BY <1>2, Invariant, PTL DEF Spec, NothingComesBack

--------------------------------------------------------------------------------
(***************************************************************************)
(* Only owners write.                                                      *)
(***************************************************************************)

\* x is a deck of the request's user, before the step or, if new, after it.
Mine(r, x) ==
  IF Live(x) THEN Owns(req[r].user, x)
  ELSE decks'[x] # None /\ decks'[x].owner = req[r].user

\* x is the deck the request is about, and its user's.
OwnDeck(r, x) == x = req[r].deck /\ Owns(req[r].user, x)

\* A deck whose three parts are as they were is as it was.
LEMMA SameData ==
  ASSUME NEW x \in Deck, decks'[x] = decks[x], covers'[x] = covers[x],
         \A e \in Entry : InDeck(e, x) \/ InDeck(e, x)' => entries'[e] = entries[e]
  PROVE  DeckData(x)' = DeckData(x)
  <1>1. EntriesOf(x)' = EntriesOf(x)
    BY DEF EntriesOf, InDeck
  <1>2. \A e \in EntriesOf(x) : entries'[e] = entries[e]
    BY DEF EntriesOf, InDeck
  <1>3. [e \in EntriesOf(x) |-> entries[e]]' = [e \in EntriesOf(x) |-> entries[e]]
    BY <1>1, <1>2
  <1>4. QED
    BY <1>3 DEF DeckData

\* Entries of other decks are no covers of this one.
LEMMA WithoutOthers ==
  ASSUME IInv, NEW x \in Deck, NEW E, \A e \in E : ~InDeck(e, x)
  PROVE  Without(covers[x], E) = covers[x]
  <1>1. covers[x] \in [Slot -> Entry \cup {None}]
    BY DEF IInv, TablesOK
  <1>2. \A s \in Slot : covers[x][s] # None => covers[x][s] \notin E
    BY DEF IInv, CoversAreOwnEntries
  <1>3. \A s \in Slot : Without(covers[x], E)[s] = covers[x][s]
    BY <1>1, <1>2 DEF Without
  <1>4. QED
    BY <1>1, <1>3 DEF Without

\* What an earlier check found is still so when the write comes.
LEMMA CheckedOwner ==
  ASSUME IInv, NEW r \in Req, req[r].at \in {"write", "fill"},
         req[r].call.op \notin {"create", "delete"},
         req[r].at = "write" => req[r].call.op # "import"
  PROVE  /\ req[r].deck \in Deck
         /\ Live(req[r].deck) => Owns(req[r].user, req[r].deck)
  <1>1. req[r].deck \in Deck
    BY AddressedDeckType DEF IInv, RequestsOK, WellFormed
  <1>2. Checked(req[r])
    BY <1>1, DeckServiceAssumption DEF Checked
  <1>3. QED
    BY <1>1, <1>2 DEF IInv, RequestsOK, Remembers

\* A deck is created for its owner.
LEMMA CreateMine ==
  ASSUME IInv, NEW r \in Req, CreateDeck(r), NEW x \in Deck
  PROVE  DeckData(x)' = DeckData(x) \/ Mine(r, x)
  <1> USE DEF InDeck
  <1>1. PICK d \in Deck \ used, row \in DeckRow :
          row.owner = req[r].user /\ decks' = [decks EXCEPT ![d] = row]
    BY CreatedRow
  <1>2. entries' = entries /\ covers' = covers
    BY DEF CreateDeck
  <1>3. CASE x = d
    <2>1. decks[x] = None /\ decks'[x] = row
      BY <1>1, <1>3 DEF IInv, TablesOK, UsedIds, Live
    <2>2. QED
      BY <1>1, <2>1, NoneIsNoRow DEF Mine, Live
  <1>4. CASE x # d
    BY <1>1, <1>2, <1>4, SameData DEF IInv, TablesOK
  <1>5. QED
    BY <1>3, <1>4

\* A deck is renamed or deleted for its owner.
LEMMA DecksMine ==
  ASSUME IInv, NEW r \in Req, UpdateDeck(r) \/ DeleteDeck(r), NEW x \in Deck
  PROVE  DeckData(x)' = DeckData(x) \/ OwnDeck(r, x)
  <1> USE DEF InDeck
  <1>1. CASE UpdateDeck(r)
    <2>1. entries' = entries /\ covers' = covers
      BY <1>1 DEF UpdateDeck
    <2>2. CASE ~OwnDeck(r, x)
      <3>1. decks'[x] = decks[x]
        BY <1>1, <2>2 DEF UpdateDeck, OwnDeck, IInv, TablesOK
      <3>2. QED
        BY <2>1, <3>1, SameData
    <2>3. QED
      BY <2>2
  <1>2. CASE DeleteDeck(r)
    <2> DEFINE E == EntriesOf(req[r].deck)
    <2>1. CASE ~Owns(req[r].user, req[r].deck)
      BY <1>2, <2>1, SameData DEF DeleteDeck
    <2>2. CASE Owns(req[r].user, req[r].deck) /\ x # req[r].deck
      <3>1. \A e \in E : ~InDeck(e, x)
        BY <2>2 DEF EntriesOf
      <3>2. Without(covers[x], E) = covers[x]
        BY <3>1, WithoutOthers
      <3>3. decks'[x] = decks[x] /\ covers'[x] = covers[x]
        BY <1>2, <2>2, <3>2 DEF DeleteDeck, IInv, TablesOK
      <3>4. \A e \in Entry : InDeck(e, x) \/ InDeck(e, x)' => entries'[e] = entries[e]
        BY <1>2, <2>2, <3>1 DEF DeleteDeck
      <3>5. QED
        BY <3>3, <3>4, SameData
    <2>3. QED
      BY <2>1, <2>2 DEF OwnDeck
  <1>3. QED
    BY <1>1, <1>2

\* An entry is added, changed or deleted for the owner of its deck.
LEMMA EntriesMine ==
  ASSUME IInv, NEW r \in Req, NEW x \in Deck,
         AddEntry(r) \/ UpdateEntryCount(r) \/ UpdateEntryImageUrl(r) \/ DeleteEntry(r)
  PROVE  DeckData(x)' = DeckData(x) \/ OwnDeck(r, x)
  <1> DEFINE d == req[r].deck
  <1> USE DEF InDeck
  <1>1. req[r].at = "write" /\ req[r].call \in Call
          /\ req[r].call.op \in {"addEntry", "updateEntry", "updateEntryArt", "deleteEntry"}
    BY DEF AddEntry, UpdateEntryCount, UpdateEntryImageUrl, DeleteEntry, Writing, IInv,
           RequestsOK, WellFormed
  <1>2. d \in Deck /\ (Live(d) => Owns(req[r].user, d))
    BY <1>1, CheckedOwner
  <1>3. decks' = decks
    BY DEF AddEntry, UpdateEntryCount, UpdateEntryImageUrl, DeleteEntry
  <1>4. CASE x = d /\ Live(d)
    BY <1>2, <1>4 DEF OwnDeck
  <1>5. CASE AddEntry(r) /\ (x # d \/ ~Live(d))
    <2>1. covers' = covers
      BY <1>5 DEF AddEntry
    <2>2. CASE entries' = entries
      BY <1>3, <2>1, <2>2, SameData
    <2>3. CASE entries' # entries
      <3>1. PICK e \in Entry \ used : entries' = [entries EXCEPT ![e] = RowOf(d, req[r].call.line)]
        BY <1>5, <2>3 DEF AddEntry
      <3>2. x # d /\ entries[e] = None
        BY <1>5, <2>3, <3>1 DEF AddEntry, IInv, UsedIds
      <3>3. entries'[e].deck = d /\ \A k \in Entry : k # e => entries'[k] = entries[k]
        BY <3>1 DEF IInv, TablesOK, RowOf
      <3>4. QED
        BY <1>3, <2>1, <3>2, <3>3, SameData
    <2>4. QED
      BY <2>2, <2>3
  <1>6. CASE /\ UpdateEntryCount(r) \/ UpdateEntryImageUrl(r) \/ DeleteEntry(r)
             /\ x # d \/ ~Live(d)
    <2> DEFINE e == req[r].call.entry
    <2>1. e \in Entry
      BY <1>1, <1>6, CallFields DEF UpdateEntryCount, UpdateEntryImageUrl, DeleteEntry, Writing
    <2>2. CASE ~InDeck(e, d)
      BY <1>3, <1>6, <2>2, SameData DEF UpdateEntryCount, UpdateEntryImageUrl, DeleteEntry
    <2>3. CASE InDeck(e, d)
      <3>1. Live(d) /\ x # d
        BY <1>6, <2>1, <2>3 DEF IInv, EntriesHaveDecks
      <3>2. entries[e] \in EntryRow
        BY <2>1, <2>3 DEF IInv, TablesOK
      <3>3. \A k \in Entry : k # e => entries'[k] = entries[k]
        BY <1>6, <2>1, <2>3 DEF UpdateEntryCount, UpdateEntryImageUrl, DeleteEntry,
           DeleteEntries, IInv, TablesOK
      <3>4. entries'[e] = None \/ entries'[e].deck = d
        BY <1>6, <2>1, <2>3, <3>2 DEF UpdateEntryCount, UpdateEntryImageUrl, DeleteEntry,
           DeleteEntries, IInv, TablesOK, EntryRow
      <3>5. covers'[x] = covers[x]
        <4>1. CASE DeleteEntry(r)
          <5>1. \A k \in {e} : ~InDeck(k, x)
            BY <2>3, <3>1
          <5>2. covers'[x] = Without(covers[x], {e})
            BY <2>3, <4>1 DEF DeleteEntry, DeleteEntries
          <5>3. QED
            BY <5>1, <5>2, WithoutOthers
        <4>2. CASE UpdateEntryCount(r) \/ UpdateEntryImageUrl(r)
          BY <4>2 DEF UpdateEntryCount, UpdateEntryImageUrl
        <4>3. QED
          BY <1>6, <4>1, <4>2
      <3>6. QED
        BY <1>3, <2>3, <3>1, <3>3, <3>4, <3>5, SameData
    <2>4. QED
      BY <2>2, <2>3
  <1>7. QED
    BY <1>4, <1>5, <1>6

\* Covers are set for the owner of the deck; of a deck that is gone there are none to
\* clear.
LEMMA CoversMine ==
  ASSUME IInv, NEW r \in Req, NEW x \in Deck, SetCovers(r)
  PROVE  DeckData(x)' = DeckData(x) \/ OwnDeck(r, x)
  <1> DEFINE d == req[r].deck
             ids == req[r].call.ids
  <1>1. req[r].at = "write" /\ req[r].call.op = "setCovers"
    BY DEF SetCovers, Writing
  <1>2. d \in Deck /\ (Live(d) => Owns(req[r].user, d))
    BY <1>1, CheckedOwner
  <1>3. decks' = decks /\ entries' = entries
    BY DEF SetCovers
  <1>4. CASE x = d /\ Live(d)
    BY <1>2, <1>4 DEF OwnDeck
  <1>5. CASE x # d
    <2>1. covers'[x] = covers[x]
      BY <1>5 DEF SetCovers, IInv, TablesOK
    <2>2. QED
      BY <1>3, <2>1, SameData
  <1>6. CASE x = d /\ ~Live(d)
    <2>1. \A s \in Slot : covers[x][s] = None
      BY <1>6 DEF IInv, TablesOK, CoversAreOwnEntries, EntriesHaveDecks, InDeck
    <2>2. covers[x] = [s \in Slot |-> None]
      BY <2>1 DEF IInv, TablesOK
    <2>3. CASE covers' = covers
      BY <1>3, <2>3, SameData
    <2>4. CASE covers' # covers
      <3>1. /\ ids = <<>>
            /\ covers' = [covers EXCEPT ![d] =
                            [s \in Slot |-> IF s + 1 \in DOMAIN ids THEN ids[s + 1] ELSE None]]
        BY <1>6, <2>4 DEF SetCovers
      <3>2. \A n : n \notin DOMAIN ids
        BY <3>1
      <3>3. covers'[x] = [s \in Slot |-> None]
        BY <1>6, <3>1, <3>2 DEF IInv, TablesOK
      <3>4. QED
        BY <1>3, <2>2, <3>3, SameData
    <2>5. QED
      BY <2>3, <2>4
  <1>7. QED
    BY <1>4, <1>5, <1>6

\* An import fills a deck of its user's; one that is gone has nothing to replace.
LEMMA ImportMine ==
  ASSUME IInv, NEW r \in Req, NEW x \in Deck, ReplaceEntries(r)
  PROVE  DeckData(x)' = DeckData(x) \/ OwnDeck(r, x)
  <1> DEFINE d == req[r].deck
             lines == req[r].call.lines
             old == EntriesOf(d)
  <1>1. req[r].at = "fill"
    BY DEF ReplaceEntries
  <1>2. d \in Deck /\ (Live(d) => Owns(req[r].user, d))
    BY <1>1, CheckedOwner DEF IInv, RequestsOK, WellFormed
  <1>3. decks' = decks
    BY DEF ReplaceEntries
  <1>4. CASE x = d /\ Live(d)
    BY <1>2, <1>4 DEF OwnDeck
  <1>5. CASE entries' = entries /\ covers' = covers
    BY <1>3, <1>5, SameData
  <1>6. CASE (x # d \/ ~Live(d)) /\ ~(entries' = entries /\ covers' = covers)
    <2>1. PICK id \in [DOMAIN lines -> Entry \ used] :
            LET new == {id[i] : i \in DOMAIN lines}
            IN /\ entries' = [e \in Entry |->
                    IF e \in new THEN RowOf(d, lines[CHOOSE i \in DOMAIN lines : id[i] = e])
                    ELSE IF e \in old THEN None ELSE entries[e]]
               /\ covers' = [y \in Deck |-> Without(covers[y], old)]
               /\ lines = <<>> \/ Live(d)
      BY <1>6 DEF ReplaceEntries, DeleteEntriesByDeck
    <2>2. PICK new : new = {id[i] : i \in DOMAIN lines}
      OBVIOUS
    <2>3. new # {} => x # d
      BY <1>6, <2>1, <2>2
    <2>4. \A e \in old : ~InDeck(e, x)
      BY <1>6 DEF EntriesOf, InDeck, IInv, EntriesHaveDecks
    <2>5. covers'[x] = covers[x]
      BY <2>1, <2>4, WithoutOthers
    <2>6. \A e \in new : entries[e] = None /\ entries'[e].deck = d
      BY <2>1, <2>2 DEF IInv, UsedIds, RowOf
    <2>7. \A e \in Entry \ new : entries'[e] = IF e \in old THEN None ELSE entries[e]
      BY <2>1, <2>2
    <2>8. \A e \in Entry : InDeck(e, x) \/ InDeck(e, x)' => entries'[e] = entries[e]
      BY <2>3, <2>4, <2>6, <2>7 DEF InDeck
    <2>9. QED
      BY <1>3, <2>5, <2>8, SameData
  <1>7. QED
    BY <1>4, <1>5, <1>6

\* What a write changes is its user's.
LEMMA WritesMine ==
  ASSUME IInv, NEW r \in Req, NEW x \in Deck, Write(r)
  PROVE  DeckData(x)' = DeckData(x) \/ Mine(r, x)
  BY CreateMine, DecksMine, EntriesMine, CoversMine, ImportMine DEF Write, OwnDeck, Mine, Owns

\* A write takes its request to another stage.
LEMMA WritesMove ==
  ASSUME IInv, NEW r \in Req, Write(r)
  PROVE  req'[r] # req[r]
  <1>1. req[r].at \in {"write", "fill"}
    BY DEF Write, CreateDeck, UpdateDeck, DeleteDeck, AddEntry, UpdateEntryCount,
           UpdateEntryImageUrl, DeleteEntry, SetCovers, ReplaceEntries, Writing
  <1>2. CASE \E st, v : Answer(r, st, v)
    <2>1. req'[r].at = "done"
      BY <1>2 DEF Answer, Answered, IInv
    <2>2. QED
      BY <1>1, <2>1
  <1>3. CASE \E d : CreateDeck(r) /\ req' = [req EXCEPT ![r].at = "fill", ![r].deck = d]
    <2>1. req'[r].at = "fill" /\ req[r].at = "write"
      BY <1>3 DEF CreateDeck, IInv, Request
    <2>2. QED
      BY <2>1
  <1>4. QED
    BY <1>2, <1>3 DEF Write, CreateDeck, UpdateDeck, DeleteDeck, AddEntry, UpdateEntryCount,
       UpdateEntryImageUrl, DeleteEntry, SetCovers, ReplaceEntries

\* A user's decks, entries and covers change only in steps of that user's requests,
\* for any number of users and requests (service.go:37-38).
THEOREM OwnersOnly == Spec => OnlyOwnersWrite
  <1> DEFINE Changed == \A d \in Deck : DeckData(d)' # DeckData(d) =>
               \E r \in Req : /\ req'[r] # req[r]
                              /\ req[r].user = IF Live(d) THEN OwnerOfAny(d) ELSE OwnerOfAny(d)'
  <1>1. ASSUME IInv, [Next]_vars, NEW d \in Deck, DeckData(d)' # DeckData(d)
        PROVE  \E r \in Req : /\ req'[r] # req[r]
                              /\ req[r].user = IF Live(d) THEN OwnerOfAny(d) ELSE OwnerOfAny(d)'
    <2>1. ~UNCHANGED tables
      BY <1>1 DEF tables, DeckData, EntriesOf
    <2>2. PICK r \in Req : Write(r)
      BY <1>1, <2>1
      DEF Next, vars, tables, Read, Arrive, Fail, Leave, Restart, GetDeckRow,
          ListEntriesByDeck, ListCoversByDeck, ListDecks, ListCoversByUser
    <2>3. Mine(r, d)
      BY <1>1, <2>2, WritesMine
    <2>4. req[r].user = IF Live(d) THEN OwnerOfAny(d) ELSE OwnerOfAny(d)'
      BY <2>3 DEF Mine, Owns, OwnerOfAny, Live
    <2>5. QED
      BY <1>1, <2>2, <2>4, WritesMove
  <1>2. IInv /\ [Next]_vars => [Changed]_vars
    BY <1>1
  <1>3. QED
    BY <1>2, Invariant, PTL DEF Spec, OnlyOwnersWrite

--------------------------------------------------------------------------------
(***************************************************************************)
(* Imports are whole.                                                      *)
(***************************************************************************)

\* Of two sets of which one numbers the other without repetition, both have as many
\* members.
LEMMA SameNumber ==
  ASSUME NEW S, IsFiniteSet(S), NEW T, NEW f \in [S -> T],
         \A x, y \in S : x # y => f[x] # f[y], \A t \in T : \E x \in S : f[x] = t
  PROVE  Cardinality(S) = Cardinality(T)
  <1>1. f \in Bijection(S, T)
    BY DEF Bijection, Injection, Surjection, IsInjective
  <1>2. ExistsBijection(S, T)
    BY <1>1 DEF ExistsBijection
  <1> QED
    BY <1>2, FS_Bijection

\* The step leaves as many rows of a kind in d as the list of r has lines of it.
Filled(r, d) ==
  LET lines == req[r].call.lines
      Rows(row) == {e \in Entry : entries'[e] = row}
      Lines(row) == {i \in DOMAIN lines : RowOf(d, lines[i]) = row}
  IN \A row \in {entries'[e] : e \in EntriesOf(d)'} \cup {RowOf(d, lines[i]) : i \in DOMAIN lines} :
       Cardinality(Rows(row)) = Cardinality(Lines(row))

\* The row of each line is put under an id of its own, and all older rows of the deck go.
LEMMA FillIsWhole ==
  ASSUME IInv, NEW r \in Req, ReplaceEntries(r), NEW d, d = req[r].deck, Live(d),
         req'[r].status = "ok"
  PROVE  Filled(r, d)
  <1> SUFFICES ASSUME NEW row,
                      row \in {entries'[e] : e \in EntriesOf(d)'} \cup
                        {RowOf(d, req[r].call.lines[i]) : i \in DOMAIN req[r].call.lines}
               PROVE  Cardinality({e \in Entry : entries'[e] = row})
                        = Cardinality({i \in DOMAIN req[r].call.lines :
                                         RowOf(d, req[r].call.lines[i]) = row})
    BY DEF Filled
  <1> DEFINE lines == req[r].call.lines
             Rows == {e \in Entry : entries'[e] = row}
             Lines == {i \in DOMAIN lines : RowOf(d, lines[i]) = row}
  <1>1. d \in Deck /\ lines \in Decklist /\ req \in [Req -> Request]
    BY CheckedOwner, CallFields DEF ReplaceEntries, IInv, RequestsOK, WellFormed
  <1>2. PICK id \in [DOMAIN lines -> Entry \ used] :
          /\ \A i, j \in DOMAIN lines : i # j => id[i] # id[j]
          /\ LET new == {id[i] : i \in DOMAIN lines} IN
             entries' = [e \in Entry |->
               IF e \in new THEN RowOf(d, lines[CHOOSE i \in DOMAIN lines : id[i] = e])
               ELSE IF e \in EntriesOf(d) THEN None ELSE entries[e]]
    <2>1. ~Answer(r, "failed", NoView)
      BY <1>1 DEF Answer, Answered
    <2> QED
      BY <2>1 DEF ReplaceEntries, DeleteEntriesByDeck
  <1> HIDE DEF lines
  <1>3. PICK new : new = {id[i] : i \in DOMAIN lines}
    OBVIOUS
  <1>4. \A i \in DOMAIN lines : entries'[id[i]] = RowOf(d, lines[i])
    BY <1>2, <1>3
  <1>5. \A e \in Entry \ new : entries'[e] = IF e \in EntriesOf(d) THEN None ELSE entries[e]
    BY <1>2, <1>3
  <1>6. \A i \in DOMAIN lines : RowOf(d, lines[i]) # None /\ RowOf(d, lines[i]).deck = d
    <2> SUFFICES ASSUME NEW i \in DOMAIN lines
                 PROVE  RowOf(d, lines[i]) \in EntryRow /\ RowOf(d, lines[i]).deck = d
      BY NoneIsNoRow
    <2>1. lines[i] \in Line
      BY <1>1 DEF Decklist
    <2> QED
      BY <1>1, <2>1 DEF RowOf, Line, EntryRow, StoredCount
  <1>7. row # None /\ row.deck = d
    BY <1>6 DEF EntriesOf, lines
  <1>8. Rows = {id[i] : i \in Lines}
    <2>1. \A e \in Rows : e \in new
      BY <1>5, <1>7 DEF EntriesOf
    <2> QED
      BY <1>3, <1>4, <2>1
  <1>9. IsFiniteSet(Lines)
    <2>1. PICK n \in Nat : DOMAIN lines = 1 .. n
      BY <1>1 DEF Decklist
    <2> QED
      BY <2>1, FS_Interval, FS_Subset
  <1>10. [i \in Lines |-> id[i]] \in [Lines -> Rows]
    BY <1>8
  <1> QED
    <2> DEFINE f == [i \in Lines |-> id[i]]
    <2>1. \A i, j \in Lines : i # j => f[i] # f[j]
      BY <1>2
    <2>2. \A e \in Rows : \E i \in Lines : f[i] = e
      BY <1>8
    <2> HIDE DEF f, Rows, Lines
    <2>3. Cardinality(Lines) = Cardinality(Rows)
      BY <1>9, <1>10, <2>1, <2>2, SameNumber DEF f
    <2> QED
      BY <2>3 DEF Rows, Lines, lines

\* A decklist is saved whole, each line as often as it was read, also when entries were
\* added between the two halves of its import, for any list and any number of users and
\* requests (deck_repository.go ReplaceEntries).
THEOREM ImportsStayWhole == Spec => ImportsAreWhole
  <1> DEFINE Whole == \A r \in Req, d \in Deck :
        LET lines == req[r].call.lines
            Rows(row) == {e \in Entry : entries'[e] = row}
            Lines(row) == {i \in DOMAIN lines : RowOf(d, lines[i]) = row}
        IN /\ req[r].at = "fill" /\ req[r].deck = d
           /\ req'[r].at = "done" /\ req'[r].status = "ok"
           /\ Live(d)
           => \A row \in {entries'[e] : e \in EntriesOf(d)'} \cup
                         {RowOf(d, lines[i]) : i \in DOMAIN lines} :
                Cardinality(Rows(row)) = Cardinality(Lines(row))
  <1>1. ASSUME IInv, [Next]_vars, NEW r \in Req, req[r].at = "fill",
               req'[r].at = "done", req'[r].status = "ok"
        PROVE  ReplaceEntries(r)
    <2>1. PICK s \in Req :
            \/ \E u \in User : \E c \in {k \in Call : k.op \in Ops} : Arrive(s, u, c)
            \/ Read(s) \/ Write(s) \/ Fail(s) \/ Leave(s)
      <3>1. req'[r] # req[r]
        BY <1>1
      <3>2. ~Restart
        BY <1>1 DEF Restart, Idle
      <3> QED
        BY <1>1, <3>1, <3>2 DEF Next, vars
    <2>2. s = r
      BY <1>1, <2>1, StepMoves, StepKeepsPlace DEF Moves
    <2>3. ~Fail(r)
      BY <1>1 DEF Fail, Answer, Answered, IInv
    <2> QED
      BY <1>1, <2>1, <2>2, <2>3
      DEF Arrive, Read, Write, Leave, GetDeckRow, ListEntriesByDeck, ListCoversByDeck, ListDecks,
          ListCoversByUser, CreateDeck, UpdateDeck, DeleteDeck, AddEntry, UpdateEntryCount,
          UpdateEntryImageUrl, DeleteEntry, SetCovers, Writing
  <1>2. ASSUME IInv, [Next]_vars
        PROVE  Whole
    <2> SUFFICES ASSUME NEW r \in Req, NEW d \in Deck, req[r].at = "fill", req[r].deck = d,
                        req'[r].at = "done", req'[r].status = "ok", Live(d)
                 PROVE  Filled(r, d)
      BY DEF Filled
    <2> QED
      BY <1>1, <1>2, FillIsWhole
  <1>3. IInv /\ [Next]_vars => [Whole]_vars
    BY <1>2
  <1> QED
    BY <1>3, Invariant, PTL DEF Spec, ImportsAreWhole

--------------------------------------------------------------------------------
(***************************************************************************)
(* DeckService implements DeckLibrary.  A write changes one deck (DeckData *)
(* of the others stays).  What this deck is afterwards is put together     *)
(* from the tables; that its user is the owner and that its covers are     *)
(* among its cards is in the invariant.                                    *)
(***************************************************************************)
Lib == [d \in Deck |-> ObjectOf(d)]

Cards(d) == [e \in EntriesOf(d) |-> [count |-> entries[e].count, art |-> entries[e].art]]

Object(owner, name, format, cards, slots) ==
  [owner |-> owner, name |-> name, format |-> format, cards |-> cards, covers |-> slots]

--------------------------------------------------------------------------------
(***************************************************************************)
(* Decks as objects.                                                       *)
(***************************************************************************)

\* A deck whose rows stay is the same object.
LEMMA SameObject ==
  ASSUME NEW x \in Deck, DeckData(x)' = DeckData(x)
  PROVE  ObjectOf(x)' = ObjectOf(x)
  <1> DEFINE rows == [e \in EntriesOf(x) |-> entries[e]]
  <1>1. decks'[x] = decks[x] /\ covers'[x] = covers[x] /\ rows' = rows
    BY DEF DeckData
  <1>2. EntriesOf(x)' = EntriesOf(x)
    <2>1. DOMAIN rows = EntriesOf(x) /\ DOMAIN (rows') = EntriesOf(x)'
      OBVIOUS
    <2> QED
      BY <1>1, <2>1
  <1>3. \A e \in EntriesOf(x) : entries'[e] = entries[e]
    <2>1. \A e \in EntriesOf(x) : rows[e] = entries[e] /\ rows'[e] = entries'[e]
      BY <1>2
    <2> QED
      BY <1>1, <2>1
  <1>4. Cards(x)' = Cards(x)
    BY <1>2, <1>3 DEF Cards
  <1> QED
    BY <1>1, <1>4 DEF ObjectOf, Live, Cards

\* One deck changes, the others do not.
LEMMA OneChanges ==
  ASSUME NEW d \in Deck, NEW object, ObjectOf(d)' = object,
         \A x \in Deck \ {d} : DeckData(x)' = DeckData(x)
  PROVE  Lib' = [Lib EXCEPT ![d] = object]
  <1>1. \A x \in Deck \ {d} : ObjectOf(x)' = ObjectOf(x)
    BY SameObject
  <1> QED
    BY <1>1 DEF Lib

LEMMA LiveObject ==
  ASSUME NEW d \in Deck, Live(d)
  PROVE  /\ Lib[d] = Object(decks[d].owner, decks[d].name, decks[d].format, Cards(d), covers[d])
         /\ Lib[d].cards = Cards(d) /\ DOMAIN Lib[d].cards = EntriesOf(d)
  BY DEF Lib, ObjectOf, Object, Cards

\* The cards of a deck, and what the foreign key and the cascades leave of its covers.
LEMMA CardsChange ==
  ASSUME NEW d \in Deck, Live(d), NEW new, new = Cards(d)', UNCHANGED decks,
         \A x \in Deck \ {d} : DeckData(x)' = DeckData(x),
         covers'[d] = [s \in Slot |-> IF covers[d][s] \in EntriesOf(d)' THEN covers[d][s] ELSE None]
  PROVE  Library!WithCards(d, new)
  <1> DEFINE slots == [s \in Slot |-> IF covers[d][s] \in EntriesOf(d)' THEN covers[d][s] ELSE None]
             object == Object(decks[d].owner, decks[d].name, decks[d].format, new, slots)
  <1>1. ObjectOf(d)' = object
    BY DEF ObjectOf, Object, Cards, Live
  <1>2. Lib' = [Lib EXCEPT ![d] = object]
    BY <1>1, OneChanges
  <1>3. DOMAIN new = EntriesOf(d)'
    BY DEF Cards
  <1>4. Lib[d] = Object(decks[d].owner, decks[d].name, decks[d].format, Cards(d), covers[d])
    BY LiveObject
  <1>5. Lib[d].covers = covers[d]
    BY <1>4 DEF Object
  <1> DEFINE left == [s \in Slot |-> IF Lib[d].covers[s] \in DOMAIN new
                                    THEN Lib[d].covers[s] ELSE None]
  <1>6. left = slots
    BY <1>3, <1>5
  <1>7. object = Object(Lib[d].owner, Lib[d].name, Lib[d].format, new, left)
    BY <1>4, <1>6 DEF Object
  <1> QED
    BY <1>2, <1>7 DEF Library!WithCards, Library!Become, Lib, Object

\* A deck that is there is an object, and no object is None.
LEMMA OwnedObject ==
  ASSUME IInv, NEW u, NEW d \in Deck, Owns(u, d)
  PROVE  Library!OwnedBy(u, d)
  <1>1. Lib[d] = Object(decks[d].owner, decks[d].name, decks[d].format, Cards(d), covers[d])
    BY LiveObject DEF Owns
  <1>2. decks[d] \in DeckRow
    BY DEF IInv, TablesOK, Owns, Live
  <1>3. Cards(d) \in [EntriesOf(d) -> [count : StoredCount, art : Art \cup {None}]]
    <2>1. \A e \in EntriesOf(d) : entries[e] \in EntryRow
      BY DEF IInv, TablesOK, EntriesOf
    <2> QED
      BY <2>1 DEF Cards, EntryRow
  <1>4. covers[d] \in [Slot -> EntriesOf(d) \cup {None}]
    BY DEF IInv, TablesOK, CoversAreOwnEntries, InDeck, EntriesOf
  <1>5. EntriesOf(d) \in SUBSET Entry
    BY DEF EntriesOf
  <1> DEFINE Objects(E) ==
        [owner : User, name : Name \cup {None}, format : Format,
         cards : [E -> [count : StoredCount, art : Art \cup {None}]],
         covers : [Slot -> E \cup {None}]]
  <1>6. Lib[d] \in Objects(EntriesOf(d))
    BY <1>1, <1>2, <1>3, <1>4 DEF Object, DeckRow
  <1>7. Lib[d] \in Library!DeckObject
    BY <1>5, <1>6 DEF Library!DeckObject, Library!Card
  <1>8. Lib[d] # None /\ Lib[d].owner = u
    BY <1>1, <1>7, NoneIsNoObject DEF Object, Owns
  <1> QED
    BY <1>8 DEF Library!OwnedBy, Library!Exists, Lib

\* Covers that are among the cards stay when the cards stay.
LEMMA CoversStay ==
  ASSUME IInv, NEW d \in Deck, EntriesOf(d) \subseteq EntriesOf(d)', covers' = covers
  PROVE  covers'[d] = [s \in Slot |-> IF covers[d][s] \in EntriesOf(d)' THEN covers[d][s] ELSE None]
  BY DEF IInv, TablesOK, CoversAreOwnEntries, InDeck, EntriesOf

LEMMA SameLibrary ==
  ASSUME UNCHANGED tables
  PROVE  UNCHANGED <<Lib, used>>
  BY DEF tables, Lib, ObjectOf, Live, EntriesOf

--------------------------------------------------------------------------------
(***************************************************************************)
(* Each write is one operation of the library, or changes nothing.         *)
(***************************************************************************)
Refines == (\E u \in User, d \in Deck :
             \/ Library!Make(u, d) \/ Library!Rename(u, d) \/ Library!Drop(u, d)
             \/ Library!Put(u, d) \/ Library!Edit(u, d) \/ Library!Remove(u, d)
             \/ Library!PickCovers(u, d) \/ Library!Refill(u, d))
           \/ UNCHANGED <<Lib, used>>

\* A row of decks replaced under its owner is a deck renamed.
LEMMA RenamedDeck ==
  ASSUME IInv, NEW d \in Deck, NEW u \in User, NEW n \in Name \cup {None}, NEW f \in Format,
         Owns(u, d), decks' = [decks EXCEPT ![d] = [owner |-> u, name |-> n, format |-> f]],
         UNCHANGED <<entries, covers, used>>,
         \A x \in Deck \ {d} : DeckData(x)' = DeckData(x)
  PROVE  Library!Rename(u, d)
  <1> DEFINE row == [owner |-> u, name |-> n, format |-> f]
  <1>1. decks'[d] = row
    BY DEF IInv, TablesOK
  <1>2. row # None
    BY NoneIsNoRow DEF DeckRow
  <1>3. EntriesOf(d)' = EntriesOf(d) /\ covers'[d] = covers[d] /\ Cards(d)' = Cards(d)
    BY DEF EntriesOf, Cards
  <1>4. ObjectOf(d)' = Object(u, n, f, Cards(d), covers[d])
    BY <1>1, <1>2, <1>3 DEF ObjectOf, Object, Cards, Live
  <1>5. Lib' = [Lib EXCEPT ![d] = Object(u, n, f, Cards(d), covers[d])]
    BY <1>4, OneChanges
  <1>6. Lib[d] = Object(u, decks[d].name, decks[d].format, Cards(d), covers[d])
    BY LiveObject DEF Owns
  <1>7. Lib[d].owner = u /\ Lib[d].cards = Cards(d) /\ Lib[d].covers = covers[d]
    BY <1>6 DEF Object
  <1>8. Library!Become(d, n, f, Lib[d].cards, Lib[d].covers)
    BY <1>5, <1>7 DEF Library!Become, Lib, Object
  <1> QED
    BY <1>8, OwnedObject DEF Library!Rename, Lib

LEMMA UpdateRefines ==
  ASSUME IInv, NEW r \in Req, UpdateDeck(r)
  PROVE  Refines
  <1>1. req[r].user \in User /\ req[r].deck \in Deck
          /\ req[r].call \in Call /\ req[r].call.op = "update"
    BY CheckedOwner DEF UpdateDeck, Writing, IInv, RequestsOK, WellFormed
  <1>2. CASE ~Owns(req[r].user, req[r].deck)
    BY <1>2, SameLibrary DEF UpdateDeck, tables, Refines
  <1>3. CASE Owns(req[r].user, req[r].deck)
    <2>1. PICK n, f :
            /\ n = OrBlank(req[r].call.name, req[r].view.name)
            /\ f = OrBlank(req[r].call.format, req[r].view.format)
      OBVIOUS
    <2>2. n \in Name \cup {None} /\ f \in Format
      <3>1. req[r].view.name \in Name \cup {None} /\ req[r].view.format \in Format
        BY DEF UpdateDeck, Writing, IInv, RequestsOK, WellFormed, Request, View
      <3> QED
        BY <1>1, <2>1, <3>1, CallFields DEF OrBlank
    <2>3. /\ decks' = [decks EXCEPT ![req[r].deck] =
                         [owner |-> req[r].user, name |-> n, format |-> f]]
          /\ UNCHANGED <<entries, covers, used>>
      BY <1>3, <2>1 DEF UpdateDeck
    <2>4. \A x \in Deck \ {req[r].deck} : DeckData(x)' = DeckData(x)
      BY DecksMine DEF OwnDeck
    <2>5. Library!Rename(req[r].user, req[r].deck)
      BY <1>1, <1>3, <2>2, <2>3, <2>4, RenamedDeck
    <2> QED
      BY <1>1, <2>5 DEF Refines
  <1> QED
    BY <1>2, <1>3

\* A deck under a fresh id, without entries or covers.
LEMMA MadeDeck ==
  ASSUME IInv, NEW d \in Deck \ used, NEW u \in User, NEW n \in Name \cup {None}, NEW f \in Format,
         decks' = [decks EXCEPT ![d] = [owner |-> u, name |-> n, format |-> f]],
         used' = used \cup {d}, UNCHANGED <<entries, covers>>
  PROVE  Library!Make(u, d)
  <1> DEFINE row == [owner |-> u, name |-> n, format |-> f]
  <1>1. decks'[d] = row /\ ~Live(d)
    BY DEF IInv, TablesOK, UsedIds
  <1>2. row # None
    BY NoneIsNoRow DEF DeckRow
  <1>3. \A e \in Entry : ~InDeck(e, d)
    BY <1>1 DEF IInv, EntriesHaveDecks, InDeck
  <1>4. EntriesOf(d)' = {}
    BY <1>3 DEF EntriesOf, InDeck
  <1>5. covers[d] = [s \in Slot |-> None]
    BY <1>3 DEF IInv, TablesOK, CoversAreOwnEntries
  <1>6. Cards(d)' = Library!Empty
    BY <1>4 DEF Cards, Library!Empty
  <1>7. ObjectOf(d)' = Object(u, n, f, Library!Empty, [s \in Slot |-> None])
    BY <1>1, <1>2, <1>5, <1>6 DEF ObjectOf, Object, Cards, Live
  <1>8. \A x \in Deck \ {d} : DeckData(x)' = DeckData(x)
    <2> SUFFICES ASSUME NEW x \in Deck \ {d}
                 PROVE  DeckData(x)' = DeckData(x)
      OBVIOUS
    <2>1. decks'[x] = decks[x] /\ covers'[x] = covers[x]
      BY DEF IInv, TablesOK
    <2> QED
      BY <2>1, SameData
  <1>9. Lib' = [Lib EXCEPT ![d] = Object(u, n, f, Library!Empty, [s \in Slot |-> None])]
    BY <1>7, <1>8, OneChanges
  <1> QED
    BY <1>9 DEF Library!Make, Lib, Object

LEMMA CreateRefines ==
  ASSUME IInv, NEW r \in Req, CreateDeck(r)
  PROVE  Refines
  <1>1. req[r].user \in User /\ req[r].call \in Call /\ req[r].call.op \in {"create", "import"}
    BY DEF CreateDeck, IInv, RequestsOK, WellFormed
  <1>2. PICK n, f :
          n = req[r].call.name /\ f = OrBlank(req[r].call.format, DefaultFormat)
    OBVIOUS
  <1>3. n \in Name \cup {None} /\ f \in Format
    BY <1>1, <1>2, CallFields, DeckServiceAssumption DEF OrBlank
  <1>4. PICK d \in Deck \ used :
          /\ decks' = [decks EXCEPT ![d] = [owner |-> req[r].user, name |-> n, format |-> f]]
          /\ used' = used \cup {d} /\ UNCHANGED <<entries, covers>>
    BY <1>2 DEF CreateDeck
  <1>5. Library!Make(req[r].user, d)
    BY <1>1, <1>3, <1>4, MadeDeck
  <1> QED
    BY <1>1, <1>5 DEF Refines

\* A row of decks deleted is a deck dropped.
LEMMA DroppedDeck ==
  ASSUME IInv, NEW d \in Deck, NEW u \in User, Owns(u, d),
         decks' = [decks EXCEPT ![d] = None], used' = used,
         \A x \in Deck \ {d} : DeckData(x)' = DeckData(x)
  PROVE  Library!Drop(u, d)
  <1>1. decks'[d] = None
    BY DEF IInv, TablesOK
  <1>2. ObjectOf(d)' = None
    BY <1>1 DEF ObjectOf, Live
  <1>3. Lib' = [Lib EXCEPT ![d] = None]
    BY <1>2, OneChanges
  <1> QED
    BY <1>3, OwnedObject DEF Library!Drop, Lib

LEMMA DeleteRefines ==
  ASSUME IInv, NEW r \in Req, DeleteDeck(r)
  PROVE  Refines
  <1>1. req[r].user \in User /\ req[r].deck \in Deck
    BY AddressedDeckType DEF DeleteDeck, Writing, IInv, RequestsOK, WellFormed
  <1>2. CASE ~Owns(req[r].user, req[r].deck)
    BY <1>2, SameLibrary DEF DeleteDeck, tables, Refines
  <1>3. CASE Owns(req[r].user, req[r].deck)
    <2>1. decks' = [decks EXCEPT ![req[r].deck] = None] /\ used' = used
      BY <1>3 DEF DeleteDeck
    <2>2. \A x \in Deck \ {req[r].deck} : DeckData(x)' = DeckData(x)
      BY DecksMine DEF OwnDeck
    <2>3. Library!Drop(req[r].user, req[r].deck)
      BY <1>1, <1>3, <2>1, <2>2, DroppedDeck
    <2> QED
      BY <1>1, <2>3 DEF Refines
  <1> QED
    BY <1>2, <1>3

\* A row of deck_entries inserted is a card put into the deck.
LEMMA PutCard ==
  ASSUME IInv, NEW d \in Deck, NEW u \in User, Owns(u, d), NEW e \in Entry \ used,
         NEW line \in Line, entries' = [entries EXCEPT ![e] = RowOf(d, line)],
         used' = used \cup {e}, UNCHANGED <<decks, covers>>,
         \A x \in Deck \ {d} : DeckData(x)' = DeckData(x)
  PROVE  Library!Put(u, d)
  <1> DEFINE c == [count |-> line.count, art |-> line.art]
             new == [x \in EntriesOf(d) \cup {e} |-> IF x = e THEN c ELSE Cards(d)[x]]
  <1>1. c \in Library!Card
    BY DEF Line, Library!Card, StoredCount
  <1>2. entries'[e] = RowOf(d, line) /\ \A x \in Entry \ {e} : entries'[x] = entries[x]
    BY DEF IInv, TablesOK
  <1>3. entries'[e].deck = d /\ entries'[e].count = c.count /\ entries'[e].art = c.art
    BY <1>2 DEF RowOf
  <1>4. RowOf(d, line) # None
    BY NoneIsNoRow DEF EntryRow, RowOf, Line, StoredCount
  <1>5. EntriesOf(d)' = EntriesOf(d) \cup {e}
    BY <1>2, <1>3, <1>4 DEF EntriesOf, IInv, UsedIds
  <1>6. e \notin EntriesOf(d)
    BY DEF EntriesOf, IInv, UsedIds
  <1>7. \A x \in EntriesOf(d) : entries'[x] = entries[x]
    BY <1>2, <1>6 DEF EntriesOf
  <1>8. Cards(d)' = new
    <2>1. \A x \in EntriesOf(d) \cup {e} : Cards(d)'[x] = new[x]
      BY <1>3, <1>5, <1>6, <1>7 DEF Cards
    <2>2. Cards(d)' = [x \in EntriesOf(d) \cup {e} |-> Cards(d)'[x]]
      BY <1>5 DEF Cards
    <2> QED
      BY <2>1, <2>2
  <1>9. covers'[d] = [s \in Slot |-> IF covers[d][s] \in EntriesOf(d)' THEN covers[d][s] ELSE None]
    BY <1>5, CoversStay
  <1>10. Library!WithCards(d, new)
    BY <1>8, <1>9, CardsChange DEF Owns
  <1>11. Lib[d].cards = Cards(d) /\ DOMAIN Lib[d].cards = EntriesOf(d)
    BY LiveObject DEF Owns
  <1> QED
    BY <1>1, <1>10, <1>11, OwnedObject DEF Library!Put, Lib

LEMMA AddRefines ==
  ASSUME IInv, NEW r \in Req, AddEntry(r)
  PROVE  Refines
  <1>1. /\ req[r].user \in User /\ req[r].deck \in Deck /\ req[r].call.line \in Line
        /\ Live(req[r].deck) => Owns(req[r].user, req[r].deck)
    BY CheckedOwner, CallFields DEF AddEntry, Writing, IInv, RequestsOK, WellFormed
  <1>2. CASE ~Live(req[r].deck)
    BY <1>2, SameLibrary DEF AddEntry, tables, Refines
  <1>3. CASE Live(req[r].deck)
    <2>1. PICK e \in Entry \ used :
            /\ entries' = [entries EXCEPT ![e] = RowOf(req[r].deck, req[r].call.line)]
            /\ used' = used \cup {e} /\ UNCHANGED <<decks, covers>>
      BY <1>3 DEF AddEntry
    <2>2. \A x \in Deck \ {req[r].deck} : DeckData(x)' = DeckData(x)
      BY EntriesMine DEF OwnDeck
    <2>3. Library!Put(req[r].user, req[r].deck)
      BY <1>1, <1>3, <2>1, <2>2, PutCard
    <2> QED
      BY <1>1, <2>3 DEF Refines
  <1> QED
    BY <1>2, <1>3

\* A row of deck_entries with another count or image is a card edited.
LEMMA EditedCard ==
  ASSUME IInv, NEW d \in Deck, NEW u \in User, Owns(u, d), NEW e \in Entry, InDeck(e, d),
         NEW row \in EntryRow, row.deck = d, entries' = [entries EXCEPT ![e] = row],
         UNCHANGED <<decks, covers, used>>,
         \A x \in Deck \ {d} : DeckData(x)' = DeckData(x)
  PROVE  Library!Edit(u, d)
  <1> DEFINE c == [count |-> row.count, art |-> row.art]
             new == [Cards(d) EXCEPT ![e] = c]
  <1>1. c \in Library!Card
    BY DEF EntryRow, Library!Card
  <1>2. entries'[e] = row /\ \A x \in Entry \ {e} : entries'[x] = entries[x]
    BY DEF IInv, TablesOK
  <1>3. row # None
    BY NoneIsNoRow
  <1>4. e \in EntriesOf(d)
    BY DEF EntriesOf, InDeck
  <1>5. EntriesOf(d)' = EntriesOf(d)
    BY <1>2, <1>3, <1>4 DEF EntriesOf
  <1>6. Cards(d)' = new
    <2>1. \A x \in EntriesOf(d) : Cards(d)'[x] = new[x]
      BY <1>2, <1>5 DEF Cards, EntriesOf
    <2>2. Cards(d)' = [x \in EntriesOf(d) |-> Cards(d)'[x]]
      BY <1>5 DEF Cards
    <2>3. new = [x \in EntriesOf(d) |-> new[x]]
      BY DEF Cards
    <2> QED
      BY <2>1, <2>2, <2>3
  <1>7. covers'[d] = [s \in Slot |-> IF covers[d][s] \in EntriesOf(d)' THEN covers[d][s] ELSE None]
    BY <1>5, CoversStay
  <1>8. Library!WithCards(d, new)
    BY <1>6, <1>7, CardsChange DEF Owns
  <1>9. Lib[d].cards = Cards(d) /\ DOMAIN Lib[d].cards = EntriesOf(d)
    BY LiveObject DEF Owns
  <1> QED
    BY <1>1, <1>4, <1>8, <1>9, OwnedObject DEF Library!Edit, Lib

LEMMA EditRefines ==
  ASSUME IInv, NEW r \in Req, UpdateEntryCount(r) \/ UpdateEntryImageUrl(r)
  PROVE  Refines
  <1>1. /\ req[r].user \in User /\ req[r].deck \in Deck /\ req[r].call.entry \in Entry
        /\ Live(req[r].deck) => Owns(req[r].user, req[r].deck)
    BY CheckedOwner, CallFields
    DEF UpdateEntryCount, UpdateEntryImageUrl, Writing, IInv, RequestsOK, WellFormed
  <1>2. CASE ~InDeck(req[r].call.entry, req[r].deck)
    BY <1>2, SameLibrary DEF UpdateEntryCount, UpdateEntryImageUrl, tables, Refines
  <1>3. CASE InDeck(req[r].call.entry, req[r].deck)
    <2>1. Live(req[r].deck) /\ entries[req[r].call.entry] \in EntryRow
      BY <1>1, <1>3 DEF InDeck, IInv, EntriesHaveDecks, TablesOK
    <2>2. PICK row \in EntryRow :
            /\ row.deck = req[r].deck
            /\ entries' = [entries EXCEPT ![req[r].call.entry] = row]
      <3>1. CASE UpdateEntryCount(r)
        <4>1. DecodedCount(req[r].call) \in StoredCount
          BY <3>1, CallFields DEF UpdateEntryCount, Writing, IInv, RequestsOK, WellFormed,
             DecodedCount, OrBlank, StoredCount
        <4>2. entries' = [entries EXCEPT ![req[r].call.entry].count = DecodedCount(req[r].call)]
          BY <1>3, <3>1 DEF UpdateEntryCount
        <4> QED
          BY <1>3, <2>1, <4>1, <4>2 DEF EntryRow, InDeck
      <3>2. CASE UpdateEntryImageUrl(r)
        <4>1. req[r].call.art \in Art \cup {None}
          BY <3>2, CallFields DEF UpdateEntryImageUrl, Writing, IInv, RequestsOK, WellFormed
        <4>2. entries' = [entries EXCEPT ![req[r].call.entry].art = req[r].call.art]
          BY <1>3, <3>2 DEF UpdateEntryImageUrl
        <4> QED
          BY <1>3, <2>1, <4>1, <4>2 DEF EntryRow, InDeck
      <3> QED
        BY <3>1, <3>2
    <2>3. UNCHANGED <<decks, covers, used>>
      BY DEF UpdateEntryCount, UpdateEntryImageUrl
    <2>4. \A x \in Deck \ {req[r].deck} : DeckData(x)' = DeckData(x)
      BY EntriesMine DEF OwnDeck
    <2>5. Library!Edit(req[r].user, req[r].deck)
      BY <1>1, <1>3, <2>1, <2>2, <2>3, <2>4, EditedCard
    <2> QED
      BY <1>1, <2>5 DEF Refines
  <1> QED
    BY <1>2, <1>3

\* A row of deck_entries deleted is a card removed, and taken from the covers.
LEMMA RemovedCard ==
  ASSUME IInv, NEW d \in Deck, NEW u \in User, Owns(u, d), NEW e \in Entry, InDeck(e, d),
         DeleteEntries({e}), UNCHANGED <<decks, used>>,
         \A x \in Deck \ {d} : DeckData(x)' = DeckData(x)
  PROVE  Library!Remove(u, d)
  <1> DEFINE new == [x \in EntriesOf(d) \ {e} |-> Cards(d)[x]]
  <1>1. \A x \in Entry : entries'[x] = IF x = e THEN None ELSE entries[x]
    BY DEF DeleteEntries
  <1>2. EntriesOf(d)' = EntriesOf(d) \ {e} /\ e \in EntriesOf(d)
    BY <1>1 DEF EntriesOf, InDeck
  <1>3. Cards(d)' = new
    <2>1. \A x \in EntriesOf(d) \ {e} : Cards(d)'[x] = new[x]
      BY <1>1, <1>2 DEF Cards, EntriesOf
    <2>2. Cards(d)' = [x \in EntriesOf(d) \ {e} |-> Cards(d)'[x]]
      BY <1>2 DEF Cards
    <2> QED
      BY <2>1, <2>2
  <1>4. covers'[d] = [s \in Slot |-> IF covers[d][s] \in EntriesOf(d)' THEN covers[d][s] ELSE None]
    <2>1. covers'[d] = [s \in Slot |-> IF covers[d][s] \in {e} THEN None ELSE covers[d][s]]
      BY DEF DeleteEntries, Without
    <2>2. \A s \in Slot : covers[d][s] \in EntriesOf(d) \cup {None}
      BY DEF IInv, TablesOK, CoversAreOwnEntries, InDeck, EntriesOf
    <2>3. \A s \in Slot : (IF covers[d][s] \in {e} THEN None ELSE covers[d][s])
                          = (IF covers[d][s] \in EntriesOf(d)' THEN covers[d][s] ELSE None)
      BY <1>2, <2>2
    <2> QED
      BY <2>1, <2>3
  <1>5. Library!WithCards(d, new)
    BY <1>3, <1>4, CardsChange DEF Owns
  <1>6. Lib[d].cards = Cards(d) /\ DOMAIN Lib[d].cards = EntriesOf(d)
    BY LiveObject DEF Owns
  <1> QED
    BY <1>2, <1>5, <1>6, OwnedObject DEF Library!Remove, Lib

LEMMA RemoveRefines ==
  ASSUME IInv, NEW r \in Req, DeleteEntry(r)
  PROVE  Refines
  <1>1. /\ req[r].user \in User /\ req[r].deck \in Deck /\ req[r].call.entry \in Entry
        /\ Live(req[r].deck) => Owns(req[r].user, req[r].deck)
    BY CheckedOwner, CallFields DEF DeleteEntry, Writing, IInv, RequestsOK, WellFormed
  <1>2. CASE ~InDeck(req[r].call.entry, req[r].deck)
    BY <1>2, SameLibrary DEF DeleteEntry, tables, Refines
  <1>3. CASE InDeck(req[r].call.entry, req[r].deck)
    <2>1. Live(req[r].deck)
      BY <1>1, <1>3 DEF InDeck, IInv, EntriesHaveDecks
    <2>2. DeleteEntries({req[r].call.entry}) /\ UNCHANGED <<decks, used>>
      BY <1>3 DEF DeleteEntry
    <2>3. \A x \in Deck \ {req[r].deck} : DeckData(x)' = DeckData(x)
      BY EntriesMine DEF OwnDeck
    <2>4. Library!Remove(req[r].user, req[r].deck)
      BY <1>1, <1>3, <2>1, <2>2, <2>3, RemovedCard
    <2> QED
      BY <1>1, <2>4 DEF Refines
  <1> QED
    BY <1>2, <1>3

\* The rows of deck_covers replaced are covers picked among the cards.
LEMMA PickedCovers ==
  ASSUME IInv, NEW d \in Deck, NEW u \in User, Owns(u, d),
         NEW pick \in [Slot -> EntriesOf(d) \cup {None}],
         \A s, t \in Slot : pick[s] = pick[t] /\ s # t => pick[s] = None,
         covers' = [covers EXCEPT ![d] = pick], UNCHANGED <<decks, entries, used>>,
         \A x \in Deck \ {d} : DeckData(x)' = DeckData(x)
  PROVE  Library!PickCovers(u, d)
  <1>1. covers'[d] = pick
    BY DEF IInv, TablesOK
  <1>2. EntriesOf(d)' = EntriesOf(d) /\ Cards(d)' = Cards(d)
    BY DEF EntriesOf, Cards
  <1>3. ObjectOf(d)' = Object(u, decks[d].name, decks[d].format, Cards(d), pick)
    BY <1>1, <1>2 DEF ObjectOf, Object, Cards, Live, Owns
  <1>4. Lib' = [Lib EXCEPT ![d] = Object(u, decks[d].name, decks[d].format, Cards(d), pick)]
    BY <1>3, OneChanges
  <1>5. Lib[d] = Object(u, decks[d].name, decks[d].format, Cards(d), covers[d])
          /\ DOMAIN Lib[d].cards = EntriesOf(d)
    BY LiveObject DEF Owns
  <1>6. Lib[d].owner = u /\ Lib[d].name = decks[d].name /\ Lib[d].format = decks[d].format
          /\ Lib[d].cards = Cards(d)
    BY <1>5 DEF Object
  <1>7. Library!Become(d, Lib[d].name, Lib[d].format, Lib[d].cards, pick)
    BY <1>4, <1>6 DEF Library!Become, Lib, Object
  <1> QED
    BY <1>5, <1>7, OwnedObject DEF Library!PickCovers, Lib

LEMMA CoversRefine ==
  ASSUME IInv, NEW r \in Req, SetCovers(r)
  PROVE  Refines
  <1>1. /\ req[r].user \in User /\ req[r].deck \in Deck /\ req[r].call.ids \in CoverList
        /\ Live(req[r].deck) => Owns(req[r].user, req[r].deck)
    BY CheckedOwner, CallFields DEF SetCovers, Writing, IInv, RequestsOK, WellFormed
  <1>2. UNCHANGED <<decks, entries, used>>
    BY DEF SetCovers
  <1>3. \A x \in Deck \ {req[r].deck} : DeckData(x)' = DeckData(x)
    BY CoversMine DEF OwnDeck
  <1>4. CASE covers' = covers
    BY <1>2, <1>4, SameLibrary DEF tables, Refines
  <1>5. CASE ~Live(req[r].deck)
    <2>1. \A x \in Deck : DeckData(x)' = DeckData(x)
      BY <1>5, CoversMine DEF OwnDeck, Owns, Live
    <2>2. \A x \in Deck : ObjectOf(x)' = ObjectOf(x)
      BY <2>1, SameObject
    <2>3. UNCHANGED <<Lib, used>>
      BY <1>2, <2>2 DEF Lib
    <2> QED
      BY <2>3 DEF Refines
  <1>6. CASE Live(req[r].deck) /\ covers' # covers
    <2>1. PICK ids : ids = req[r].call.ids
      OBVIOUS
    <2> DEFINE pick == [s \in Slot |-> IF s + 1 \in DOMAIN ids THEN ids[s + 1] ELSE None]
    <2>2. /\ ids = <<>> \/ \A i \in DOMAIN ids : entries[ids[i]] # None
          /\ covers' = [covers EXCEPT ![req[r].deck] = pick]
      BY <1>6, <2>1 DEF SetCovers
    <2>3. /\ \A i \in DOMAIN ids : entries[ids[i]] # None => InDeck(ids[i], req[r].deck)
          /\ \A i, j \in DOMAIN ids : i # j => ids[i] # ids[j]
          /\ \A i \in DOMAIN ids : ids[i] \in Entry
      BY <1>1, <2>1 DEF SetCovers, Writing, IInv, RequestsOK, Remembers, CoverList
    <2>4. \A i \in DOMAIN ids : ids[i] \in EntriesOf(req[r].deck)
      BY <2>2, <2>3 DEF EntriesOf, InDeck
    <2>5. pick \in [Slot -> EntriesOf(req[r].deck) \cup {None}]
      BY <2>4
    <2>6. \A s, t \in Slot : pick[s] = pick[t] /\ s # t => pick[s] = None
      <3> SUFFICES ASSUME NEW s \in Slot, NEW t \in Slot, pick[s] = pick[t], s # t, pick[s] # None
                   PROVE  FALSE
        OBVIOUS
      <3>1. s + 1 \in DOMAIN ids /\ t + 1 \in DOMAIN ids /\ ids[s + 1] = ids[t + 1]
        OBVIOUS
      <3>2. s + 1 # t + 1
        BY DEF Slot, MaxCovers
      <3> QED
        BY <2>3, <3>1, <3>2
    <2> HIDE DEF pick
    <2>7. Library!PickCovers(req[r].user, req[r].deck)
      BY <1>1, <1>2, <1>3, <1>6, <2>2, <2>5, <2>6, PickedCovers
    <2> QED
      BY <1>1, <2>7 DEF Refines
  <1> QED
    BY <1>4, <1>5, <1>6

\* All rows of a deck replaced by rows under fresh ids is a deck refilled.
LEMMA RefilledDeck ==
  ASSUME IInv, NEW d \in Deck, NEW u \in User, Owns(u, d), NEW new \in SUBSET (Entry \ used),
         NEW rows \in [new -> EntryRow], \A e \in new : rows[e].deck = d,
         entries' = [e \in Entry |-> IF e \in new THEN rows[e]
                                     ELSE IF e \in EntriesOf(d) THEN None ELSE entries[e]],
         covers' = [x \in Deck |-> Without(covers[x], EntriesOf(d))],
         used' = used \cup new, UNCHANGED decks,
         \A x \in Deck \ {d} : DeckData(x)' = DeckData(x)
  PROVE  Library!Refill(u, d)
  <1> DEFINE cards == [e \in new |-> [count |-> rows[e].count, art |-> rows[e].art]]
  <1>1. cards \in [new -> Library!Card]
    BY DEF EntryRow, Library!Card
  <1>2. \A e \in new : rows[e] # None
    BY NoneIsNoRow
  <1>3. EntriesOf(d)' = new
    BY <1>2 DEF EntriesOf
  <1>4. Cards(d)' = cards
    <2>1. \A e \in new : entries'[e] = rows[e]
      OBVIOUS
    <2> QED
      BY <1>3, <2>1 DEF Cards
  <1>5. covers'[d] = [s \in Slot |-> IF covers[d][s] \in EntriesOf(d)' THEN covers[d][s] ELSE None]
    <2>1. covers'[d] = [s \in Slot |-> IF covers[d][s] \in EntriesOf(d) THEN None ELSE covers[d][s]]
      BY DEF Without
    <2>2. \A s \in Slot : covers[d][s] \in EntriesOf(d) \cup {None}
      BY DEF IInv, TablesOK, CoversAreOwnEntries, InDeck, EntriesOf
    <2>3. \A e \in EntriesOf(d) : e \notin new
      BY DEF EntriesOf, IInv, UsedIds
    <2>4. \A s \in Slot : (IF covers[d][s] \in EntriesOf(d) THEN None ELSE covers[d][s])
                          = (IF covers[d][s] \in new THEN covers[d][s] ELSE None)
      BY <2>2, <2>3
    <2> QED
      BY <1>3, <2>1, <2>4
  <1>6. Library!WithCards(d, cards)
    BY <1>4, <1>5, CardsChange DEF Owns
  <1> QED
    BY <1>1, <1>6, OwnedObject DEF Library!Refill, Lib

LEMMA ImportRefines ==
  ASSUME IInv, NEW r \in Req, ReplaceEntries(r)
  PROVE  Refines
  <1>1. /\ req[r].user \in User /\ req[r].deck \in Deck /\ req[r].call.lines \in Decklist
        /\ Live(req[r].deck) => Owns(req[r].user, req[r].deck)
    BY CheckedOwner, CallFields DEF ReplaceEntries, IInv, RequestsOK, WellFormed
  <1>2. decks' = decks
    BY DEF ReplaceEntries
  <1>3. \A x \in Deck \ {req[r].deck} : DeckData(x)' = DeckData(x)
    BY ImportMine DEF OwnDeck
  <1>4. CASE UNCHANGED <<entries, covers, used>>
    BY <1>2, <1>4, SameLibrary DEF tables, Refines
  <1>5. CASE ~UNCHANGED <<entries, covers, used>>
    <2> DEFINE d == req[r].deck
               lines == req[r].call.lines
    <2>1. PICK id \in [DOMAIN lines -> Entry \ used] :
            LET new == {id[i] : i \in DOMAIN lines}
            IN /\ used' = used \cup new
               /\ entries' = [e \in Entry |->
                    IF e \in new THEN RowOf(d, lines[CHOOSE i \in DOMAIN lines : id[i] = e])
                    ELSE IF e \in EntriesOf(d) THEN None ELSE entries[e]]
               /\ covers' = [x \in Deck |-> Without(covers[x], EntriesOf(d))]
               /\ lines = <<>> \/ Live(d)
      BY <1>5 DEF ReplaceEntries, DeleteEntriesByDeck
    <2>2. d \in Deck /\ lines \in Decklist /\ (Live(d) => Owns(req[r].user, d))
            /\ \A x \in Deck \ {d} : DeckData(x)' = DeckData(x)
      BY <1>1, <1>3
    <2>3. ~Live(d) => \A x \in Deck : DeckData(x)' = DeckData(x)
      BY ImportMine DEF OwnDeck, Owns, Live
    <2> HIDE DEF d, lines
    <2>4. PICK new : new = {id[i] : i \in DOMAIN lines}
      OBVIOUS
    <2>5. new \in SUBSET (Entry \ used)
      BY <2>4
    <2>6. CASE Live(d)
      <3>1. PICK rows : rows = [e \in new |-> RowOf(d, lines[CHOOSE i \in DOMAIN lines : id[i] = e])]
        OBVIOUS
      <3>2. rows \in [new -> EntryRow] /\ \A e \in new : rows[e].deck = d
        <4> SUFFICES ASSUME NEW e \in new
                     PROVE  rows[e] \in EntryRow /\ rows[e].deck = d
          BY <3>1
        <4>1. PICK i \in DOMAIN lines : rows[e] = RowOf(d, lines[i])
          BY <2>4, <3>1
        <4>2. lines[i] \in Line
          BY <2>2 DEF Decklist
        <4> QED
          BY <2>2, <4>1, <4>2 DEF RowOf, Line, EntryRow, StoredCount
      <3>3. entries' = [e \in Entry |-> IF e \in new THEN rows[e]
                                        ELSE IF e \in EntriesOf(d) THEN None ELSE entries[e]]
        BY <2>1, <2>4, <3>1
      <3>4. covers' = [x \in Deck |-> Without(covers[x], EntriesOf(d))] /\ used' = used \cup new
        BY <2>1, <2>4
      <3>5. PICK u \in User : Owns(u, d)
        BY <1>1, <2>2, <2>6
      <3>6. Library!Refill(u, d)
        BY <1>2, <2>2, <2>5, <3>2, <3>3, <3>4, <3>5, RefilledDeck
      <3> QED
        BY <2>2, <3>6 DEF Refines
    <2>7. CASE ~Live(d)
      <3>1. \A x \in Deck : ObjectOf(x)' = ObjectOf(x)
        BY <2>7, <2>3, SameObject
      <3>2. new = {}
        BY <2>1, <2>4, <2>7
      <3>3. UNCHANGED <<Lib, used>>
        BY <2>1, <2>4, <3>1, <3>2 DEF Lib
      <3> QED
        BY <3>3 DEF Refines
    <2> QED
      BY <2>6, <2>7
  <1> QED
    BY <1>4, <1>5

--------------------------------------------------------------------------------
\* DeckService implements the library of whole operations, for any number of users,
\* decks and requests in flight (service.go, deck_repository.go).
THEOREM Implements == Spec => ImplementsLibrary
  <1>1. Init => Library!Init
    BY DEF Init, Library!Init, ObjectOf, Live
  <1>2. ASSUME IInv, [Next]_vars
        PROVE  Refines
    <2>1. CASE UNCHANGED tables
      BY <2>1, SameLibrary DEF Refines
    <2>2. CASE ~UNCHANGED tables
      <3>1. PICK r \in Req : Write(r)
        BY <1>2, <2>2
        DEF Next, vars, tables, Read, Arrive, Fail, Leave, Restart, GetDeckRow,
            ListEntriesByDeck, ListCoversByDeck, ListDecks, ListCoversByUser
      <3> QED
        BY <1>2, <3>1, CreateRefines, UpdateRefines, DeleteRefines, AddRefines, EditRefines,
           RemoveRefines, CoversRefine, ImportRefines DEF Write
    <2> QED
      BY <2>1, <2>2
  <1>3. ASSUME Refines, <<Lib, used>>' # <<Lib, used>>
        PROVE  [Library!Next]_<<Lib, used>>
    <2>1. ~UNCHANGED <<Lib, used>>
      BY <1>3, Zenon
    <2>2. <<[d \in Deck |-> ObjectOf(d)], used>>' # <<[d \in Deck |-> ObjectOf(d)], used>>
      BY <1>3, Zenon DEF Lib
    <2> QED
      BY <1>3, <2>1, <2>2, Zenon DEF Refines, Library!Next
  <1>4. IInv /\ [Next]_vars => [Library!Next]_<<[d \in Deck |-> ObjectOf(d)], used>>
    BY <1>2, <1>3, Zenon DEF Lib
  <1> QED
    BY <1>1, <1>4, Invariant, PTL DEF Spec, ImplementsLibrary, Library!Spec
================================================================================
