------------------------------ MODULE DeckService ------------------------------
(***************************************************************************)
(* The deck API: the handlers of internal/api/deck_handler.go, the service *)
(* of internal/deck/service.go and the SQLite adapter of                   *)
(* internal/repository/sqlite/deck_repository.go, over the three tables    *)
(* decks, deck_entries and deck_covers.                                    *)
(*                                                                         *)
(* Requests run concurrently, one goroutine each.  A request is a chain of *)
(* database calls: repo.Get alone is three SELECTs outside a transaction,  *)
(* and the statement that writes comes after it.  Each call is one atomic  *)
(* step here (SQLite serialises writers; a transaction commits or rolls    *)
(* back as a whole), and anything may happen between two of them: a step   *)
(* of another request, a failure, or the end of the server process.        *)
(***************************************************************************)
EXTENDS Integers, Sequences, FiniteSets

CONSTANTS
  User,           \* ids of accounts
  Deck,           \* UUIDs a run may give to decks
  Entry,          \* UUIDs a run may give to entries
  Req,            \* requests the server may have in flight at once
  Name,           \* non-empty deck names
  Format,         \* non-empty deck formats
  Art,            \* non-empty image URLs
  Count,          \* counts a client may send
  None,           \* an absent row, and the empty string
  DefaultFormat,  \* "standard"
  Ops,            \* the operations the clients of this run call
  MaxLines,       \* the longest decklist a run imports
  MayFail         \* whether a database call may fail for its own reasons

ASSUME DeckServiceAssumption ==
  /\ Count \subseteq Int
  /\ DefaultFormat \in Format
  /\ MaxLines \in Nat
  /\ MayFail \in BOOLEAN
  /\ None \notin User \cup Deck \cup Entry \cup Name \cup Format \cup Art
  /\ Deck \cap Entry = {}

(***************************************************************************)
(* Rows and calls.                                                         *)
(***************************************************************************)
MaxCovers == 2

Slot == 0 .. MaxCovers - 1

DeckRow == [owner : User, name : Name \cup {None}, format : Format]

\* A missing count is stored as 0 (DecodedCount).
StoredCount == Count \cup {0}

EntryRow == [deck : Deck, count : StoredCount, art : Art \cup {None}]

ASSUME NoneIsNoRow == None \notin DeckRow /\ None \notin EntryRow

\* A card line as a client sends it or a parser makes it.  Of its section only
\* whether it is one of the three known ones is kept: a parser leaves the
\* section empty on a line that stands above every header.
Line == [count : Count, art : Art \cup {None}, sectioned : BOOLEAN]

Decklist == UNION {[1 .. n -> Line] : n \in 0 .. MaxLines}

\* The ids of a covers request, up to one more than fits.
CoverList == UNION {[1 .. n -> Entry] : n \in 0 .. MaxCovers + 1}

\* What a client can ask for.  A JSON field that is missing or "" is None.
Call ==
       [op : {"list"}]
  \cup [op : {"get", "delete"}, deck : Deck]
  \cup [op : {"create"}, name : Name \cup {None}, format : Format \cup {None}]
  \cup [op : {"update"}, deck : Deck, name : Name \cup {None}, format : Format \cup {None}]
  \cup [op : {"addEntry"}, deck : Deck, line : Line]
  \cup [op : {"updateEntry"}, deck : Deck, entry : Entry, count : Count \cup {None}]
  \cup [op : {"updateEntryArt"}, deck : Deck, entry : Entry, art : Art \cup {None}]
  \cup [op : {"deleteEntry"}, deck : Deck, entry : Entry]
  \cup [op : {"setCovers"}, deck : Deck, ids : CoverList]
  \cup [op : {"import"}, name : Name \cup {None}, format : Format \cup {None},
        lines : Decklist]

\* What a request has read so far, and what an answer shows.
View ==
  [decks : SUBSET Deck, name : Name \cup {None}, format : Format \cup {None},
   entries : SUBSET Entry, covers : SUBSET (Deck \X Slot \X Entry)]

NoView == [decks |-> {}, name |-> None, format |-> None, entries |-> {}, covers |-> {}]

Stage == {"idle", "row", "entries", "covers", "write", "fill", "done"}

Status == {"ok", "not found", "failed"}

Request ==
  [at : Stage, user : User \cup {None}, call : Call \cup {None}, deck : Deck \cup {None},
   view : View, status : Status \cup {None}]

Idle == [at |-> "idle", user |-> None, call |-> None, deck |-> None,
         view |-> NoView, status |-> None]

VARIABLES
  decks,    \* table decks
  entries,  \* table deck_entries
  covers,   \* table deck_covers, by deck and slot
  used,     \* UUIDs already generated for a row
  req       \* the requests in flight

tables == <<decks, entries, covers, used>>
vars == <<decks, entries, covers, used, req>>

Live(d) == decks[d] # None

Owns(u, d) == Live(d) /\ decks[d].owner = u

EntriesOf(d) == {e \in Entry : entries[e] # None /\ entries[e].deck = d}

TypeOK ==
  /\ decks \in [Deck -> DeckRow \cup {None}]
  /\ entries \in [Entry -> EntryRow \cup {None}]
  /\ covers \in [Deck -> [Slot -> Entry \cup {None}]]
  /\ used \subseteq Deck \cup Entry
  /\ req \in [Req -> Request]

Init ==
  /\ decks = [d \in Deck |-> None]
  /\ entries = [e \in Entry |-> None]
  /\ covers = [d \in Deck |-> [s \in Slot |-> None]]
  /\ used = {}
  /\ req = [r \in Req |-> Idle]

(***************************************************************************)
(* The steps of a request that touch no table.                             *)
(***************************************************************************)
OrBlank(x, blank) == IF x = None THEN blank ELSE x

\* {"count": n} decoded into an int: a missing count is 0.
DecodedCount(c) == OrBlank(c.count, 0)

\* Input the service turns down before its first database call.
TurnedDown(c) ==
  \/ c.op = "create" /\ c.name = None
  \/ c.op = "updateEntry" /\ DecodedCount(c) < 0
  \/ c.op = "setCovers" /\ Len(c.ids) > MaxCovers

\* create, delete and import write first; the others start with a read.
FirstStage(c) == IF c.op \in {"create", "delete", "import"} THEN "write" ELSE "row"

AddressedDeck(c) == IF c.op \in {"list", "create", "import"} THEN None ELSE c.deck

Answered(q, status, view) ==
  [at |-> "done", user |-> q.user, call |-> None, deck |-> None,
   view |-> view, status |-> status]

Answer(r, status, view) == req' = [req EXCEPT ![r] = Answered(req[r], status, view)]

Arrive(r, u, c) ==
  /\ req[r].at = "idle"
  /\ LET q == [at |-> FirstStage(c), user |-> u, call |-> c, deck |-> AddressedDeck(c),
               view |-> NoView, status |-> None]
     IN req' = [req EXCEPT ![r] = IF TurnedDown(c) THEN Answered(q, "failed", NoView) ELSE q]
  /\ UNCHANGED tables

\* A database call fails: an I/O error, the write lock not free in busy_timeout,
\* or a request context cancelled by a client that went away.  A transaction it
\* was part of is rolled back.
Fail(r) ==
  /\ MayFail
  /\ req[r].at \notin {"idle", "done"}
  /\ Answer(r, "failed", NoView)
  /\ UNCHANGED tables

Leave(r) ==
  /\ req[r].at = "done"
  /\ req' = [req EXCEPT ![r] = Idle]
  /\ UNCHANGED tables

\* The process ends (a crash, or the shutdown timeout) and is started again:
\* what was committed stays, what was in flight is gone.
Restart ==
  /\ MayFail
  /\ req' = [r \in Req |-> Idle]
  /\ UNCHANGED tables

(***************************************************************************)
(* Reads.  repo.Get is three SELECTs, repo.List two.                       *)
(***************************************************************************)

\* The operations that use what repo.Get returned; the others only want to
\* know that it returned.
KeepsView(c) == c.op \in {"get", "update", "setCovers"}

Proceed(r, stage, view) == req' = [req EXCEPT ![r].at = stage, ![r].view = view]

\* (with a bug: the query forgets the owner)
GetAnyDeckRow(r) ==
  LET q == req[r]
      d == q.deck
  IN /\ q.at = "row" /\ q.call.op # "list"
     /\ IF ~Live(d) THEN Answer(r, "not found", NoView) ELSE Proceed(r, "entries", NoView)
     /\ UNCHANGED tables

\* SELECT ... FROM decks WHERE id = ? AND user_id = ?
GetDeckRow(r) ==
  LET q == req[r]
      d == q.deck
  IN /\ q.at = "row" /\ q.call.op # "list"
     /\ IF ~Owns(q.user, d)
        THEN Answer(r, "not found", NoView)
        ELSE Proceed(r, "entries",
                     IF KeepsView(q.call)
                     THEN [NoView EXCEPT !.decks = {d}, !.name = decks[d].name,
                                         !.format = decks[d].format]
                     ELSE NoView)
     /\ UNCHANGED tables

\* SELECT ... FROM deck_entries WHERE deck_id = ?
ListEntriesByDeck(r) ==
  LET q == req[r]
  IN /\ q.at = "entries"
     /\ Proceed(r, "covers",
                IF KeepsView(q.call) THEN [q.view EXCEPT !.entries = EntriesOf(q.deck)]
                                     ELSE q.view)
     /\ UNCHANGED tables

CoverRows(D) ==
  {c \in D \X Slot \X Entry : covers[c[1]][c[2]] = c[3] /\ entries[c[3]] # None}

\* (with a bug: nobody looks for an id that is there twice)
AcceptableTwice(c, view) ==
  /\ c.op = "addEntry" => c.line.sectioned
  /\ c.op = "setCovers" => \A i \in DOMAIN c.ids : c.ids[i] \in view.entries

\* What the service still checks once it has the deck.
Acceptable(c, view) ==
  /\ c.op = "addEntry" => c.line.sectioned
  /\ c.op = "setCovers" => /\ \A i \in DOMAIN c.ids : c.ids[i] \in view.entries
                           /\ \A i, j \in DOMAIN c.ids : i # j => c.ids[i] # c.ids[j]

\* SELECT ... FROM deck_covers JOIN deck_entries WHERE deck_id = ?, and what the
\* service does with the deck it now has.
ListCoversByDeck(r) ==
  LET q == req[r]
      view == IF KeepsView(q.call) THEN [q.view EXCEPT !.covers = CoverRows({q.deck})]
                                   ELSE q.view
  IN /\ q.at = "covers" /\ q.call.op # "list"
     /\ \/ /\ q.call.op = "get"
           /\ Answer(r, "ok", view)
        \/ /\ q.call.op # "get" /\ ~Acceptable(q.call, view)
           /\ Answer(r, "failed", NoView)
        \/ /\ q.call.op # "get" /\ Acceptable(q.call, view)
           /\ Proceed(r, "write", IF q.call.op = "update" THEN view ELSE NoView)
     /\ UNCHANGED tables

\* (with a bug: the query forgets the owner)
ListAllDecks(r) ==
  LET q == req[r]
  IN /\ q.at = "row" /\ q.call.op = "list"
     /\ Proceed(r, "covers", [NoView EXCEPT !.decks = {d \in Deck : Live(d)}])
     /\ UNCHANGED tables

\* SELECT ... FROM decks WHERE user_id = ?
ListDecks(r) ==
  LET q == req[r]
  IN /\ q.at = "row" /\ q.call.op = "list"
     /\ Proceed(r, "covers", [NoView EXCEPT !.decks = {d \in Deck : Owns(q.user, d)}])
     /\ UNCHANGED tables

\* SELECT ... FROM deck_covers JOIN decks JOIN deck_entries WHERE user_id = ?,
\* of which repo.List keeps what belongs to the decks it has.
ListCoversByUser(r) ==
  LET q == req[r]
      mine == {d \in Deck : Owns(q.user, d)}
  IN /\ q.at = "covers" /\ q.call.op = "list"
     /\ Answer(r, "ok", [q.view EXCEPT !.covers = CoverRows(mine \cap q.view.decks)])
     /\ UNCHANGED tables

(***************************************************************************)
(* Writes.                                                                 *)
(***************************************************************************)
Writing(r, op) == req[r].at = "write" /\ req[r].call.op = op

\* (with a bug: the id of a deck that was deleted may be given again)
CreateDeckAgain(r) ==
  LET q == req[r]
  IN /\ q.at = "write" /\ q.call.op = "create"
     /\ \E d \in Deck :
          /\ ~Live(d)
          /\ used' = used \cup {d}
          /\ decks' = [decks EXCEPT ![d] = [owner |-> q.user, name |-> q.call.name,
                                            format |-> OrBlank(q.call.format, DefaultFormat)]]
          /\ Answer(r, "ok", NoView)
     /\ UNCHANGED <<entries, covers>>

\* INSERT INTO decks, for a new deck and as the first half of an import.
CreateDeck(r) ==
  LET q == req[r]
  IN /\ q.at = "write" /\ q.call.op \in {"create", "import"}
     /\ \E d \in Deck \ used :
          /\ used' = used \cup {d}
          /\ decks' = [decks EXCEPT ![d] = [owner |-> q.user, name |-> q.call.name,
                                            format |-> OrBlank(q.call.format, DefaultFormat)]]
          /\ IF q.call.op = "create"
             THEN Answer(r, "ok", [NoView EXCEPT !.decks = {d}])
             ELSE req' = [req EXCEPT ![r].at = "fill", ![r].deck = d]
     /\ UNCHANGED <<entries, covers>>

\* (with a bug: the row is put back when it is not there)
PutDeck(r) ==
  LET q == req[r]
  IN /\ Writing(r, "update")
     /\ decks' = [decks EXCEPT ![q.deck] =
                    [owner |-> q.user, name |-> OrBlank(q.call.name, q.view.name),
                     format |-> OrBlank(q.call.format, q.view.format)]]
     /\ Answer(r, "ok", NoView)
     /\ UNCHANGED <<entries, covers, used>>

\* UPDATE decks SET name, format WHERE id = ? AND user_id = ?: both columns, the
\* one the client left out with the value read before.
UpdateDeck(r) ==
  LET q == req[r]
      d == q.deck
      name == OrBlank(q.call.name, q.view.name)
      format == OrBlank(q.call.format, q.view.format)
  IN /\ Writing(r, "update")
     /\ IF Owns(q.user, d)
        THEN /\ decks' = [decks EXCEPT ![d] = [owner |-> q.user, name |-> name,
                                               format |-> format]]
             /\ Answer(r, "ok", [q.view EXCEPT !.name = name, !.format = format])
        ELSE /\ Answer(r, "not found", NoView)
             /\ UNCHANGED decks
     /\ UNCHANGED <<entries, covers, used>>

\* (with a bug: the delete does not cascade)
WithAll(slots, E) == slots

Without(slots, E) == [s \in Slot |-> IF slots[s] \in E THEN None ELSE slots[s]]

\* The rows of E are deleted and, by ON DELETE CASCADE, the covers they are.
DeleteEntries(E) ==
  /\ entries' = [e \in Entry |-> IF e \in E THEN None ELSE entries[e]]
  /\ covers' = [d \in Deck |-> Without(covers[d], E)]

\* DELETE FROM decks WHERE id = ? AND user_id = ?, cascading to both tables.
DeleteDeck(r) ==
  LET q == req[r]
      d == q.deck
  IN /\ Writing(r, "delete")
     /\ IF Owns(q.user, d)
        THEN /\ decks' = [decks EXCEPT ![d] = None]
             /\ entries' = [e \in Entry |-> IF e \in EntriesOf(d) THEN None ELSE entries[e]]
             /\ covers' = [x \in Deck |-> IF x = d THEN [s \in Slot |-> None]
                                          ELSE Without(covers[x], EntriesOf(d))]
             /\ Answer(r, "ok", NoView)
        ELSE /\ Answer(r, "not found", NoView)
             /\ UNCHANGED <<decks, entries, covers>>
     /\ UNCHANGED used

\* (with a bug: the values are bound to the wrong columns)
SwappedRowOf(d, line) == [deck |-> d, count |-> line.art, art |-> line.count]

RowOf(d, line) == [deck |-> d, count |-> line.count, art |-> line.art]

\* INSERT INTO deck_entries; the foreign key turns it down when the deck is gone.
AddEntry(r) ==
  LET q == req[r]
      d == q.deck
  IN /\ Writing(r, "addEntry")
     /\ IF Live(d)
        THEN \E e \in Entry \ used :
               /\ used' = used \cup {e}
               /\ entries' = [entries EXCEPT ![e] = RowOf(d, q.call.line)]
               /\ Answer(r, "ok", NoView)
        ELSE /\ Answer(r, "failed", NoView)
             /\ UNCHANGED <<entries, used>>
     /\ UNCHANGED <<decks, covers>>

InDeck(e, d) == entries[e] # None /\ entries[e].deck = d

\* UPDATE deck_entries SET count WHERE id = ? AND deck_id = ?
UpdateEntryCount(r) ==
  LET q == req[r]
      e == q.call.entry
  IN /\ Writing(r, "updateEntry")
     /\ IF InDeck(e, q.deck)
        THEN /\ entries' = [entries EXCEPT ![e].count = DecodedCount(q.call)]
             /\ Answer(r, "ok", NoView)
        ELSE /\ Answer(r, "not found", NoView)
             /\ UNCHANGED entries
     /\ UNCHANGED <<decks, covers, used>>

\* UPDATE deck_entries SET image_url WHERE id = ? AND deck_id = ?
UpdateEntryImageUrl(r) ==
  LET q == req[r]
      e == q.call.entry
  IN /\ Writing(r, "updateEntryArt")
     /\ IF InDeck(e, q.deck)
        THEN /\ entries' = [entries EXCEPT ![e].art = q.call.art]
             /\ Answer(r, "ok", NoView)
        ELSE /\ Answer(r, "not found", NoView)
             /\ UNCHANGED entries
     /\ UNCHANGED <<decks, covers, used>>

\* DELETE FROM deck_entries WHERE id = ? AND deck_id = ?
DeleteEntry(r) ==
  LET q == req[r]
      e == q.call.entry
  IN /\ Writing(r, "deleteEntry")
     /\ IF InDeck(e, q.deck)
        THEN /\ DeleteEntries({e})
             /\ Answer(r, "ok", NoView)
        ELSE /\ Answer(r, "not found", NoView)
             /\ UNCHANGED <<entries, covers>>
     /\ UNCHANGED <<decks, used>>

\* One transaction: DELETE FROM deck_covers WHERE deck_id = ?, then one INSERT per
\* id.  An id whose row is gone, or a deck that is, fails the foreign key and
\* rolls all of it back; an empty list has no INSERT to fail.
SetCovers(r) ==
  LET q == req[r]
      d == q.deck
      ids == q.call.ids
  IN /\ Writing(r, "setCovers")
     /\ IF ids = <<>> \/ (Live(d) /\ \A i \in DOMAIN ids : entries[ids[i]] # None)
        THEN /\ covers' = [covers EXCEPT ![d] =
                             [s \in Slot |-> IF s + 1 \in DOMAIN ids THEN ids[s + 1] ELSE None]]
             /\ Answer(r, "ok", NoView)
        ELSE /\ Answer(r, "failed", NoView)
             /\ UNCHANGED covers
     /\ UNCHANGED <<decks, entries, used>>

\* (with a bug: nothing is deleted)
DeleteNoEntries(d) == {}

\* DELETE FROM deck_entries WHERE deck_id = ?
DeleteEntriesByDeck(d) == EntriesOf(d)

\* The second half of an import, one transaction: the deck's rows are deleted and
\* one is inserted per line, under fresh ids.  It is rolled back when the deck is
\* gone by now, or a line has no section (CHECK).
ReplaceEntries(r) ==
  LET q == req[r]
      d == q.deck
      lines == q.call.lines
  IN /\ q.at = "fill"
     /\ IF lines = <<>> \/ (Live(d) /\ \A i \in DOMAIN lines : lines[i].sectioned)
        THEN \E id \in [DOMAIN lines -> Entry \ used] :
               LET new == {id[i] : i \in DOMAIN lines}
                   old == DeleteEntriesByDeck(d)
               IN /\ \A i, j \in DOMAIN lines : i # j => id[i] # id[j]
                  /\ used' = used \cup new
                  /\ entries' = [e \in Entry |->
                       IF e \in new THEN RowOf(d, lines[CHOOSE i \in DOMAIN lines : id[i] = e])
                       ELSE IF e \in old THEN None ELSE entries[e]]
                  /\ covers' = [x \in Deck |-> Without(covers[x], old)]
                  /\ Answer(r, "ok", [NoView EXCEPT !.decks = {d}, !.entries = new])
        ELSE /\ Answer(r, "failed", NoView)
             /\ UNCHANGED <<entries, covers, used>>
     /\ UNCHANGED decks

Read(r) == \/ GetDeckRow(r) \/ ListEntriesByDeck(r) \/ ListCoversByDeck(r)
           \/ ListDecks(r) \/ ListCoversByUser(r)

Write(r) == \/ CreateDeck(r) \/ UpdateDeck(r) \/ DeleteDeck(r) \/ AddEntry(r)
            \/ UpdateEntryCount(r) \/ UpdateEntryImageUrl(r) \/ DeleteEntry(r)
            \/ SetCovers(r) \/ ReplaceEntries(r)

Next ==
  \/ \E r \in Req : \E u \in User : \E c \in {k \in Call : k.op \in Ops} : Arrive(r, u, c)
  \/ \E r \in Req : Read(r) \/ Write(r) \/ Fail(r) \/ Leave(r)
  \/ Restart

Spec == Init /\ [][Next]_vars

(***************************************************************************)
(* Properties.                                                             *)
(***************************************************************************)

\* Every entry belongs to a deck that exists, whatever deletes race with the
\* inserts of AddEntry and of the second half of an import (service.go AddEntry,
\* Import; the foreign key of deck_entries).
EntriesHaveDecks == \A e \in Entry : entries[e] # None => Live(entries[e].deck)

\* A cover of a deck is an entry of that same deck, and no entry covers it twice.
\* No constraint of the schema says so: it rests on the check SetCovers makes three
\* statements before it writes (service.go SetCovers), on the cascades, and on
\* entries never changing decks.
CoversAreOwnEntries ==
  \A d \in Deck, s \in Slot : covers[d][s] # None =>
    /\ InDeck(covers[d][s], d)
    /\ \A t \in Slot : covers[d][t] = covers[d][s] => t = s

\* A request past its ownership check still speaks for the owner when it writes:
\* since then the deck may have been deleted, but it is not someone else's.  The
\* writes to entries and covers rely on it, for their SQL names no user
\* (service.go AddEntry ... SetCovers; queries/entries.sql:1-2).
Checked(q) ==
  /\ q.at \in {"entries", "covers", "write", "fill"}
  /\ q.deck # None
  /\ q.call.op # "delete"

ChecksStayTrue ==
  \A r \in Req : Checked(req[r]) /\ Live(req[r].deck) => Owns(req[r].user, req[r].deck)

\* An answer shows nobody else's deck, entry or cover, even when the reads it was
\* put together from saw three different states of the tables
\* (deck_repository.go List and Get).
AnswersShowOwnDecks ==
  \A r \in Req : LET q == req[r] IN
    /\ \A d \in q.view.decks : Live(d) => Owns(q.user, d)
    /\ \A e \in q.view.entries : entries[e] # None => entries[e].deck \in q.view.decks
    /\ \A c \in q.view.covers :
         /\ c[1] \in q.view.decks
         /\ entries[c[3]] # None => InDeck(c[3], c[1])

\* The rows of a deck change only in a step of a request of its owner
\* (service.go:37-38, "only ever touches that user's decks").
OwnerOfAny(d) == IF Live(d) THEN decks[d].owner ELSE None

DeckData(d) == <<decks[d], [e \in EntriesOf(d) |-> entries[e]], covers[d]>>

OnlyOwnersWrite ==
  [][\A d \in Deck : DeckData(d)' # DeckData(d) =>
       \E r \in Req : /\ req'[r] # req[r]
                      /\ req[r].user = IF Live(d) THEN OwnerOfAny(d) ELSE OwnerOfAny(d)']_vars

\* A row that was deleted never comes back, not even by the write of a request
\* that read it before (service.go Update, AddEntry, Import).
NothingComesBack ==
  [][/\ \A d \in Deck : d \in used /\ ~Live(d) => ~Live(d)'
     /\ \A e \in Entry : e \in used /\ entries[e] = None => entries'[e] = None]_vars

\* A decklist is saved whole: when an import is answered with success and its deck
\* was not deleted meanwhile, the deck holds each line as often as it was read and nothing
\* else, even if entries were added to it between the two halves (deck_repository.go
\* ReplaceEntries, "deletes all existing entries for the deck and inserts the new set").
\* The order of the lines is not modelled.
ImportsAreWhole ==
  [][\A r \in Req, d \in Deck :
       LET lines == req[r].call.lines
           Rows(row) == {e \in Entry : entries'[e] = row}
           Lines(row) == {i \in DOMAIN lines : RowOf(d, lines[i]) = row}
       IN /\ req[r].at = "fill" /\ req[r].deck = d
          /\ req'[r].at = "done" /\ req'[r].status = "ok"
          /\ Live(d)
          => \A row \in {entries'[e] : e \in EntriesOf(d)'} \cup
                        {RowOf(d, lines[i]) : i \in DOMAIN lines} :
               Cardinality(Rows(row)) = Cardinality(Lines(row))]_vars
================================================================================
