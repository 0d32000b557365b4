------------------------------ MODULE EditorCards ------------------------------
(***************************************************************************)
(* The cards of one deck on the editor page: how many there are of each    *)
(* (hooks/useDeck.ts, pages/DeckEditorPage.tsx), the order the gallery     *)
(* shows them in (deck/DeckGalleryView.tsx), and the art of each, which    *)
(* the user picks in a dialog (deck/CardImageModal.tsx) and which is       *)
(* cached for all pages (hooks/useCardImages.ts).                          *)
(*                                                                         *)
(* Every click sends a request of its own and nothing waits for the last   *)
(* one.  Requests reach the server and answers the page in any order, fail *)
(* or are lost, and the user leaves and returns meanwhile.  The server is  *)
(* the deck API at the grain of its operations (DeckLibrary).              *)
(***************************************************************************)
EXTENDS Integers, FiniteSets, SequencesExt

CONSTANTS
  Entry,      \* ids the server may give to entries, numbered in the order of positions
  Initial,    \* sets of them the deck may have at the start
  Card,       \* cards, as imageKey and handleCardSelect tell them apart
  CardOf,     \* the card of each entry
  SectionOf,  \* the section of each card
  Art,        \* images
  Default,    \* the image TCGdex has of a card, or None
  SavedArt,   \* the art each of the first entries has, or None
  MaxCount,   \* bound on the count of an entry
  Conn,       \* bound on the requests under way
  None

ASSUME EditorCardsAssumption ==
  /\ Entry \subseteq Nat /\ IsFiniteSet(Entry) /\ Initial \subseteq SUBSET Entry
  /\ CardOf \in [Entry -> Card] /\ SectionOf \in [Card -> {"pokemon", "trainer", "energy"}]
  /\ Default \in [Card -> Art \cup {None}] /\ SavedArt \in [Entry -> Art \cup {None}]
  /\ MaxCount \in Nat \ {0}
  /\ None \notin Art /\ None \notin Entry

Image == Art \cup {None}

Row == [count : 1 .. MaxCount, art : Image]

\* here: the page that sent it is still mounted.  done: the server has carried it out, and
\* the answer is on its way.
Message ==
       [op : {"add"}, id : Entry \cup {None}, card : Card, done : BOOLEAN, here : BOOLEAN]
  \cup [op : {"count"}, id : Entry, count : 1 .. MaxCount, done : BOOLEAN, here : BOOLEAN]
  \cup [op : {"delete"}, id : Entry, done : BOOLEAN, here : BOOLEAN]
  \cup [op : {"art"}, id : Entry, art : Art, done : BOOLEAN, here : BOOLEAN,
        previous : Image,   \* what the page showed before the pick
        was : Image,        \* what the dialog showed
        latest : BOOLEAN]   \* whether the dialog is open and takes this for its latest pick

ASSUME NoneIsNoRecord == None \notin Row /\ None \notin Message

\* The art dialog; wrote is what the server saved of its entry since it opened, which the
\* code does not know.
Dialog == [id : Entry \cup {None}, active : Image,
           state : {"closed", "idle", "saving", "saved", "error"}, wrote : SUBSET Art]

Closed == [id |-> None, active |-> None, state |-> "closed", wrote |-> {}]

VARIABLES
  rows,      \* the entries, on the server
  born,      \* ids ever given
  wire,      \* the requests under way
  page,      \* "away", "loading", "answered" by the server, or "editor"
  answer,    \* what the server answered, until the page has it
  view,      \* "gallery" or "list"
  entries,   \* the deck's entries as the page has them, in its order
  copy,      \* their counts and art
  order,     \* the order of the gallery
  dialog,
  cache,     \* imageCache, which outlives the page
  imageMap,  \* the images the page shows
  fetched,   \* cards it fetched the image of, or needs not to
  fetches,   \* lookups of images under way, of this page and of earlier ones
  untold,    \* entries changed on the server without an answer to this page
  raced,     \* entries two requests of one kind were under way for at a time
  due,       \* the image the page first had of a card, or the art of its last pick that was
             \* saved, as far as the page was told
  mixed      \* cards picked during another pick or the lookup of the card, or picked in vain
             \* with no image to go back to; the code knows none of these four

server == <<rows, born>>
shown == <<page, answer, view, entries, copy, order, dialog>>
images == <<cache, imageMap, fetched, fetches>>
ghosts == <<untold, raced, due, mixed>>
vars == <<server, wire, shown, images, ghosts>>

TypeOK ==
  /\ rows \in [Entry -> Row \cup {None}] /\ born \subseteq Entry
  /\ wire \in [Conn -> Message \cup {None}]
  /\ page \in {"away", "loading", "answered", "editor"} /\ view \in {"gallery", "list"}
  /\ entries \in Seq(Entry) /\ order \in Seq(Entry)
  /\ copy \in [Entry -> Row \cup {None}] /\ answer \in [Entry -> Row \cup {None}]
  /\ dialog \in Dialog
  /\ cache \in [Card -> Image] /\ imageMap \in [Card -> Image]
  /\ fetched \subseteq Card /\ fetches \subseteq [card : Card, here : BOOLEAN]
  /\ untold \subseteq Entry /\ raced \subseteq Entry
  /\ due \in [Card -> Image] /\ mixed \subseteq Card

Nothing == [e \in Entry |-> None]

NoImages == [c \in Card |-> None]

Init ==
  /\ born \in Initial
  /\ rows = [e \in Entry |-> IF e \in born THEN [count |-> 1, art |-> SavedArt[e]] ELSE None]
  /\ wire = [c \in Conn |-> None]
  /\ page = "away" /\ answer = Nothing /\ view = "gallery"
  /\ entries = <<>> /\ copy = Nothing /\ order = <<>> /\ dialog = Closed
  /\ cache = NoImages /\ imageMap = NoImages /\ fetched = {} /\ fetches = {}
  /\ untold = {} /\ raced = {} /\ due = NoImages /\ mixed = {}

InDeck(e) == rows[e] # None

IsOpen == dialog.state # "closed"

\* Numbers in their order: the i-th is the one that i of them do not exceed.
Ascending(S) ==
  [i \in 1 .. Cardinality(S) |-> CHOOSE x \in S : Cardinality({y \in S : y <= x}) = i]

\* Those of ids that are in S, in the order they have.
Filtered(ids, S) ==
  LET at == Ascending({i \in DOMAIN ids : ids[i] \in S}) IN [i \in DOMAIN at |-> ids[at[i]]]

OfCard(ids, card) == Filtered(ids, {e \in Entry : CardOf[e] = card})

(***************************************************************************)
(* useCardImages.                                                          *)
(***************************************************************************)
\* The image the first of the entries of a card has saved.
ArtIn(ids, list, card) == list[OfCard(ids, card)[1]].art

\* The effect, with the entries of now.  A saved art is there at once, any other image is
\* looked up.
FetchImages(ids, list) ==
  LET cards == {CardOf[e] : e \in ToSet(ids)}
      new == {c \in cards \ fetched : cache[c] = None}
      image(c) == IF c \in new THEN ArtIn(ids, list, c) ELSE cache[c]
  IN /\ fetched' = fetched \cup cards
     /\ imageMap' = [c \in Card |->
          IF c \in cards \ fetched /\ (c \in new \/ imageMap[c] = None) /\ image(c) # None
          THEN image(c) ELSE imageMap[c]]
     /\ cache' = [c \in Card |-> IF c \in new THEN image(c) ELSE cache[c]]
     /\ fetches' = fetches \cup {[card |-> c, here |-> TRUE] : c \in {d \in new : image(d) = None}}

With(map, card, image, here) == IF here THEN [map EXCEPT ![card] = image] ELSE map

\* A lookup is back, with the image if there is one, or failed.  It replaces whatever the
\* card shows meanwhile.
ImageArrives ==
  /\ \E f \in fetches, found \in BOOLEAN :
       /\ fetches' = fetches \ {f}
       /\ IF found /\ Default[f.card] # None
          THEN /\ cache' = [cache EXCEPT ![f.card] = Default[f.card]]
               /\ imageMap' = With(imageMap, f.card, Default[f.card], f.here)
               /\ due' = With(due, f.card, Default[f.card], f.here)
          ELSE UNCHANGED <<cache, imageMap, due>>
  /\ UNCHANGED <<server, wire, shown, fetched, untold, raced, mixed>>

\* The import review, the covers on the home page and the pages of other decks have the same
\* cache, and their lookups come back at any time.
CachedElsewhere ==
  /\ \E card \in Card, image \in Art : cache' = [cache EXCEPT ![card] = image]
  /\ UNCHANGED <<server, wire, shown, imageMap, fetched, fetches, ghosts>>

\* overrideImage; a page that is left has no images, but the cache is for all.
OverrideImage(card, image, here) ==
  /\ cache' = [cache EXCEPT ![card] = image]
  /\ imageMap' = With(imageMap, card, image, here)

(***************************************************************************)
(* The page.                                                               *)
(***************************************************************************)
OpenPage ==
  /\ page = "away"
  /\ page' = "loading"
  /\ UNCHANGED <<server, wire, answer, view, entries, copy, order, dialog, images, ghosts>>

\* The server reads the deck for the GET of the page.
ReadDeck ==
  /\ page = "loading"
  /\ page' = "answered" /\ answer' = rows
  /\ UNCHANGED <<server, wire, view, entries, copy, order, dialog, images, ghosts>>

\* The answer is there: the entries in the order of their positions.
Load ==
  /\ page = "answered"
  /\ page' = "editor" /\ answer' = Nothing
  /\ copy' = answer
  /\ entries' = Ascending({e \in Entry : answer[e] # None})
  /\ order' = entries'
  /\ FetchImages(entries', answer)
  /\ due' = imageMap'
  /\ UNCHANGED <<server, wire, view, dialog, untold, raced, mixed>>

\* What is left of a request of a page that is: only a pick whose save fails still does
\* something.
Orphan(message) ==
  IF message = None THEN None
  ELSE IF message.op = "art" THEN [message EXCEPT !.here = FALSE, !.latest = FALSE]
  ELSE IF message.done THEN None ELSE [message EXCEPT !.here = FALSE]

Leave ==
  /\ page # "away"
  /\ page' = "away" /\ answer' = Nothing /\ view' = "gallery"
  /\ entries' = <<>> /\ copy' = Nothing /\ order' = <<>> /\ dialog' = Closed
  /\ wire' = [c \in Conn |-> Orphan(wire[c])]
  /\ imageMap' = NoImages /\ fetched' = {}
  /\ fetches' = {[f EXCEPT !.here = FALSE] : f \in fetches}
  /\ untold' = {} /\ raced' = {} /\ due' = NoImages /\ mixed' = {}
  /\ UNCHANGED <<server, cache>>

\* No pick is the latest one of a dialog that is closed, or of one that has a later one.
NoLatest(message) ==
  IF message # None /\ message.op = "art" THEN [message EXCEPT !.latest = FALSE] ELSE message

\* Between gallery and list: the gallery mounts anew.
ToggleView ==
  /\ page = "editor"
  /\ view' = IF view = "gallery" THEN "list" ELSE "gallery"
  /\ order' = entries /\ dialog' = Closed
  /\ wire' = [c \in Conn |-> NoLatest(wire[c])]
  /\ UNCHANGED <<server, page, answer, entries, copy, images, ghosts>>

\* Requests of one kind for an entry that are under way.
Pending(op, e) ==
  {c \in Conn : wire[c] # None /\ wire[c].op = op /\ wire[c].id = e}

Send(message) == \E c \in Conn : wire[c] = None /\ wire' = [wire EXCEPT ![c] = message]

Race(op, e) == raced' = IF Pending(op, e) # {} THEN raced \cup {e} ELSE raced

\* updateEntry, with a count worked out from the one that is shown.
SendCount(e, count) ==
  /\ count \in 1 .. MaxCount
  /\ Send([op |-> "count", id |-> e, count |-> count, done |-> FALSE, here |-> TRUE])
  /\ Race("count", e)

\* handleCardSelect, for a card the search found: one more of the first entry of it, or an
\* entry of its own.
SelectCard ==
  /\ page = "editor"
  /\ \E card \in Card :
       LET existing == OfCard(entries, card)
       IN IF existing # <<>> THEN SendCount(existing[1], copy[existing[1]].count + 1)
          ELSE /\ Send([op |-> "add", id |-> None, card |-> card, done |-> FALSE, here |-> TRUE])
               /\ UNCHANGED raced
  /\ UNCHANGED <<server, shown, images, untold, due, mixed>>

\* handleIncrement, and handleDecrement of more than one.
ChangeCount ==
  /\ page = "editor"
  /\ \E e \in ToSet(entries) : SendCount(e, copy[e].count + 1) \/ SendCount(e, copy[e].count - 1)
  /\ UNCHANGED <<server, shown, images, untold, due, mixed>>

\* deleteEntry, also by handleDecrement of the last one.
RemoveCard ==
  /\ page = "editor"
  /\ \E e \in ToSet(entries) : Send([op |-> "delete", id |-> e, done |-> FALSE, here |-> TRUE])
  /\ UNCHANGED <<server, shown, images, ghosts>>

(***************************************************************************)
(* The gallery.                                                            *)
(***************************************************************************)
Section(e) == SectionOf[CardOf[e]]

InSection(ids, section) == Filtered(ids, {e \in Entry : Section(e) = section})

IndexOf(ids, e) == CHOOSE i \in DOMAIN ids : ids[i] = e

\* (with a bug: the card is left where it was, too)
MoveCopy(ids, from, to) == InsertAt(ids, IndexOf(ids, to), from)

\* In its section, the dragged card takes the place of the other.
Move(ids, from, to) ==
  InsertAt(RemoveAt(ids, IndexOf(ids, from)), IndexOf(ids, to), from)

\* handleDrop.  What is dragged may have been deleted since the drag began.
DropCard ==
  /\ page = "editor" /\ view = "gallery"
  /\ \E from \in ToSet(order), to \in ToSet(order) :
       /\ from # to /\ Section(from) = Section(to)
       /\ LET rest(s) == InSection(order, s)
              one(s) == IF s = Section(from) THEN Move(rest(s), from, to) ELSE rest(s)
          IN order' = one("pokemon") \o one("trainer") \o one("energy")
  /\ UNCHANGED <<server, wire, page, answer, view, entries, copy, dialog, images, ghosts>>

(***************************************************************************)
(* The art dialog.                                                         *)
(***************************************************************************)
OpenDialog ==
  /\ page = "editor" /\ view = "gallery" /\ ~IsOpen
  /\ \E e \in ToSet(entries) :
       dialog' = [id |-> e, active |-> imageMap[CardOf[e]], state |-> "idle", wrote |-> {}]
  /\ UNCHANGED <<server, wire, page, answer, view, entries, copy, order, images, ghosts>>

CloseDialog ==
  /\ IsOpen
  /\ dialog' = Closed
  /\ wire' = [c \in Conn |-> NoLatest(wire[c])]
  /\ UNCHANGED <<server, page, answer, view, entries, copy, order, images, ghosts>>

\* Picks of this page of a card that are under way.
Picks(card) ==
  {c \in Conn : wire[c] # None /\ wire[c].op = "art" /\ wire[c].here /\ CardOf[wire[c].id] = card}

\* handlePick and handlePickArt.
PickArt ==
  /\ IsOpen
  /\ \E art \in Art \ {dialog.active}, c \in Conn :
       LET e == dialog.id IN
       /\ wire[c] = None
       /\ wire' = [d \in Conn |->
            IF d = c THEN [op |-> "art", id |-> e, art |-> art, done |-> FALSE, here |-> TRUE,
                           previous |-> imageMap[CardOf[e]], was |-> dialog.active,
                           latest |-> TRUE]
            ELSE NoLatest(wire[d])]
       /\ dialog' = [dialog EXCEPT !.active = art, !.state = "saving"]
       /\ OverrideImage(CardOf[e], art, TRUE)
       /\ Race("art", e)
       /\ mixed' = IF Picks(CardOf[e]) # {} \/ [card |-> CardOf[e], here |-> TRUE] \in fetches
                   THEN mixed \cup {CardOf[e]} ELSE mixed
  /\ UNCHANGED <<server, page, answer, view, entries, copy, order, fetched, fetches, untold, due>>

(***************************************************************************)
(* The server.                                                             *)
(***************************************************************************)
Hangup(c) == wire' = [wire EXCEPT ![c] = None]

\* A page that is there now, or whose GET was answered, was not told.
Untold(e) == untold' = IF page \in {"answered", "editor"} THEN untold \cup {e} ELSE untold

\* The answer goes to the page that asked, if it is still there; that of a pick does in
\* any case, for the cache's sake.
AnswerOn(c, e) ==
  /\ IF wire[c].here \/ wire[c].op = "art"
     THEN wire' = [wire EXCEPT ![c].id = e, ![c].done = TRUE]
     ELSE Hangup(c)
  /\ IF wire[c].here THEN UNCHANGED untold ELSE Untold(e)

\* POST, PUT and DELETE of an entry; those of an entry that is gone are turned down, for
\* which Fail stands.
Carry(c) ==
  LET m == wire[c] IN
  /\ m # None /\ ~m.done
  /\ \/ /\ m.op = "add"
        /\ \E e \in Entry \ born :
             /\ CardOf[e] = m.card
             /\ rows' = [rows EXCEPT ![e] = [count |-> 1, art |-> None]]
             /\ born' = born \cup {e}
             /\ AnswerOn(c, e)
     \/ /\ m.op # "add" /\ InDeck(m.id)
        /\ \/ m.op = "count" /\ rows' = [rows EXCEPT ![m.id].count = m.count]
           \/ m.op = "art" /\ rows' = [rows EXCEPT ![m.id].art = m.art]
           \/ m.op = "delete" /\ rows' = [rows EXCEPT ![m.id] = None]
        /\ UNCHANGED born
        /\ AnswerOn(c, m.id)
  /\ dialog' = IF m.op = "art" /\ IsOpen /\ dialog.id = m.id
               THEN [dialog EXCEPT !.wrote = @ \cup {m.art}] ELSE dialog
  /\ UNCHANGED <<page, answer, view, entries, copy, order, images, raced, due, mixed>>

(***************************************************************************)
(* The answers.                                                            *)
(***************************************************************************)

\* (with a bug: one more than is shown, whatever was asked for)
ToldOneMore(m) ==
  IF m.op = "count" /\ copy[m.id] # None
  THEN [copy EXCEPT ![m.id].count = IF @ < MaxCount THEN @ + 1 ELSE @]
  ELSE [copy EXCEPT ![m.id] = rows[m.id]]

\* The counts and art of useDeck after the answer.
Told(m) ==
  CASE m.op = "add" -> [copy EXCEPT ![m.id] = [count |-> 1, art |-> None]]
    [] m.op = "delete" -> [copy EXCEPT ![m.id] = None]
    [] m.op = "count" /\ copy[m.id] # None -> [copy EXCEPT ![m.id].count = m.count]
    [] m.op = "art" /\ copy[m.id] # None -> [copy EXCEPT ![m.id].art = m.art]
    [] OTHER -> copy

ToldEntries(m) ==
  CASE m.op = "add" -> Append(entries, m.id)
    [] m.op = "delete" -> Filtered(entries, Entry \ {m.id})
    [] OTHER -> entries

\* (with a bug: any pick that is saved counts)
AnyPick(m) == m.op = "art" /\ IsOpen

\* Whether the dialog goes by this answer.
IsLatest(m) == m.op = "art" /\ m.latest

\* The answer is there; the gallery takes the order of the deck again.
HearAnswer(c) ==
  LET m == wire[c] IN
  /\ m # None /\ m.done
  /\ Hangup(c)
  /\ IF m.here
     THEN /\ copy' = Told(m) /\ entries' = ToldEntries(m) /\ order' = entries'
          /\ FetchImages(entries', copy')
          /\ due' = [k \in Card |-> IF m.op = "art" /\ k = CardOf[m.id] THEN m.art
                                   ELSE IF k \in fetched THEN due[k] ELSE imageMap'[k]]
          /\ dialog' = IF IsLatest(m) THEN [dialog EXCEPT !.state = "saved"] ELSE dialog
     ELSE UNCHANGED <<copy, entries, order, images, due, dialog>>
  /\ UNCHANGED <<server, page, answer, view, untold, raced, mixed>>

\* (with a bug: the image stays the one that was picked)
KeepImage(m) == UNCHANGED images

\* The image goes back to what the page showed when it was picked, if it showed any.
RevertImage(m) ==
  IF m.op = "art" /\ m.previous # None
  THEN OverrideImage(CardOf[m.id], m.previous, m.here) /\ UNCHANGED <<fetched, fetches>>
  ELSE UNCHANGED images

\* A request does not get to the server or is turned down, or its answer is lost: the
\* promise is rejected.
Fail(c) ==
  LET m == wire[c] IN
  /\ m # None
  /\ Hangup(c)
  /\ RevertImage(m)
  /\ dialog' = IF IsLatest(m) THEN [dialog EXCEPT !.active = m.was, !.state = "error"] ELSE dialog
  /\ IF m.done THEN Untold(m.id) ELSE UNCHANGED untold
  /\ mixed' = IF m.op = "art" /\ m.here /\ m.previous = None
              THEN mixed \cup {CardOf[m.id]} ELSE mixed
  /\ UNCHANGED <<server, page, answer, view, entries, copy, order, raced, due>>

Next ==
  \/ OpenPage \/ ReadDeck \/ Load \/ Leave \/ ToggleView \/ ImageArrives \/ CachedElsewhere
  \/ SelectCard \/ ChangeCount \/ RemoveCard \/ DropCard
  \/ OpenDialog \/ CloseDialog \/ PickArt
  \/ \E c \in Conn : Carry(c) \/ HearAnswer(c) \/ Fail(c)

Spec == Init /\ [][Next]_vars

(***************************************************************************)
(* Properties.                                                             *)
(***************************************************************************)
Quiet(e) == \A c \in Conn : wire[c] # None => wire[c].id # e

\* With nothing under way for an entry, the page shows the count and the art the server
\* has, unless two changes of it overlapped or an answer was lost: the page never adds up
\* or keeps what was turned down (useDeck.ts updateEntry, updateEntryArt, deleteEntry).
RowsFollowServer ==
  page = "editor" =>
    \A e \in Entry \ (untold \cup raced) : Quiet(e) => copy[e] = rows[e]

\* The gallery shows each card of the deck in one place, however cards were dragged about
\* while others came and went (DeckGalleryView.tsx handleDrop).
GalleryIsWhole ==
  /\ ToSet(order) = {e \in Entry : copy[e] # None}
  /\ Len(order) = Cardinality(ToSet(order))

\* With no pick of a card under way, the page shows the art of its last pick that was saved,
\* or what it showed before if none was (DeckEditorPage.tsx:80, "revert the image if the save
\* fails"), however picks of entries with one image follow each other and whatever earlier
\* visits and other pages do to the cache; unless a card was picked during another pick or the
\* lookup of the card, or in vain with no image to go back to.
LastSavedPickIsShown ==
  page = "editor" =>
    \A k \in Card \ mixed : Picks(k) = {} => imageMap[k] = due[k]

\* The dialog says "Saved" of a picture only if the server took it, whatever order the
\* answers of several picks come in (CardImageModal.tsx:25, "Only the latest pick may
\* update the status or revert").
SavedMeansSaved ==
  dialog.state = "saved" => dialog.active \in dialog.wrote

(***************************************************************************)
(* What the repository says of art and the code does otherwise.            *)
(***************************************************************************)

\* useCardImages.ts:31, "the entry's saved art, or the image of its card": a card that has one
\* entry in the deck, and no pick of which is under way or went wrong, shows the saved art.
SavedArtIsShown ==
  page = "editor" =>
    \A e \in ToSet(entries) :
      /\ copy[e].art # None /\ Len(OfCard(entries, CardOf[e])) = 1
      /\ Picks(CardOf[e]) = {} /\ e \notin untold /\ CardOf[e] \notin mixed
      => imageMap[CardOf[e]] = copy[e].art
================================================================================
