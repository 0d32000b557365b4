------------------------------- MODULE DeckEditor ------------------------------
(***************************************************************************)
(* One deck as the page shows it: the editor's copy of its entries         *)
(* (hooks/useDeck.ts) and its cover cards (hooks/useDeckCovers.ts,         *)
(* deck/covers.ts), on the editor and on the deck's tile of the home page. *)
(*                                                                         *)
(* The page's code runs one callback at a time, but between two of them    *)
(* lookups and HTTP requests come back in any order, fail, or lose their   *)
(* answers, and the user goes on clicking, leaves the page and returns     *)
(* while requests of the earlier visit are still under way.  The server is *)
(* the deck API at the grain of its whole operations (DeckLibrary).        *)
(***************************************************************************)
EXTENDS Integers, Sequences, FiniteSets

CONSTANTS
  Entry,    \* ids of entries
  Initial,  \* the entries of the deck at the start
  Pokemon,  \* the entries of section "pokemon"
  Key,      \* image keys: one for all entries of the same card
  KeyOf,    \* the key of each entry
  HP,       \* the hit points TCGdex has for a key, 0 for none
  Rank,     \* the order of the entries by count and position, 1 for the first
  Conn,     \* HTTP requests the page may have under way
  None

ASSUME DeckEditorAssumption ==
  /\ Initial \subseteq Entry /\ Pokemon \subseteq Entry
  /\ KeyOf \in [Entry -> Key]
  /\ HP \in [Key -> Nat]
  /\ Rank \in [Entry -> Nat]
  /\ \A a, b \in Entry : Rank[a] = Rank[b] => a = b
  /\ IsFiniteSet(Entry)
  /\ None \notin Entry

MaxCovers == 2

Covers == UNION {[1 .. n -> Entry] : n \in 0 .. MaxCovers}

Shown(covers) == {covers[i] : i \in DOMAIN covers}

Message ==
       [op : {"covers"}, ids : Covers, here : BOOLEAN]
  \cup [op : {"add"}, card : Key, entry : Entry \cup {None}, done : BOOLEAN, here : BOOLEAN]
  \cup [op : {"delete"}, entry : Entry, done : BOOLEAN, here : BOOLEAN]

\* here: the component that sent it is still mounted.  done: the server has carried
\* it out, and the answer is on its way.

ASSUME NoneIsNoMessage == None \notin Message

\* A run of the effect of useDeckCovers that is awaiting something.
Run ==
       [at : {"none", "deck"}]
  \cup [at : {"lookups"}, all : SUBSET Entry, current : Covers]

NoRun == [at |-> "none"]

VARIABLES
  rows,     \* the entries of the deck, on the server
  saved,    \* its covers, on the server
  born,     \* ids ever given to entries
  page,     \* what the user looks at
  answer,   \* what a GET has read on the server for the page, or None
  deck,     \* the entries of useDeck, as the last setDeck left them
  entries,  \* those of the last render
  covers,   \* coversRef: the covers of the mounted component
  savedIds, \* the covers it takes for saved
  run,      \* what its effect is awaiting
  wire,     \* the requests under way
  untold    \* entries changed on the server without an answer to this editor

server == <<rows, saved, born>>
view == <<page, answer, deck, entries>>
hook == <<covers, savedIds, run>>
vars == <<server, view, hook, wire, untold>>

TypeOK ==
  /\ rows \subseteq Entry /\ saved \in Covers /\ born \subseteq Entry
  /\ page \in {"away", "listing", "tile", "loading", "editor"}
  /\ answer \in [rows : SUBSET Entry, saved : Covers] \cup {None}
  /\ deck \subseteq Entry /\ entries \subseteq Entry
  /\ covers \in Covers /\ savedIds \in Covers
  /\ run \in Run
  /\ wire \in [Conn -> Message \cup {None}]
  /\ untold \subseteq Entry

Init ==
  /\ rows = Initial /\ saved = <<>> /\ born = Initial
  /\ page = "away" /\ answer = None /\ deck = {} /\ entries = {}
  /\ covers = <<>> /\ savedIds = <<>> /\ run = NoRun
  /\ wire = [c \in Conn |-> None]
  /\ untold = {}

\* The covers that are in S, in the order of their slots: of two slots all are left, or
\* one, or none.
Within(shown, S) ==
  LET left == Shown(shown) \cap S
  IN IF left = Shown(shown) THEN shown
     ELSE IF left = {} THEN <<>> ELSE <<CHOOSE e \in left : TRUE>>

(***************************************************************************)
(* deck/covers.ts                                                          *)
(***************************************************************************)
\* The order of the candidates, of which the lookups found the keys in known:
\* Pokemon by hit points, then the rest; ties by count and position.
Before(a, b, known) ==
  LET hp(e) == IF KeyOf[e] \in known THEN HP[KeyOf[e]] ELSE 0
  IN IF a \in Pokemon /\ b \in Pokemon
     THEN hp(a) > hp(b) \/ (hp(a) = hp(b) /\ Rank[a] < Rank[b])
     ELSE a \in Pokemon \/ (b \notin Pokemon /\ Rank[a] < Rank[b])

\* The entries whose card is not shown yet.
Free(shown, all) == {e \in all : \A c \in Shown(shown) : KeyOf[c] # KeyOf[e]}

\* One turn of the loop of fillCovers that takes a candidate.
FillSlot(shown, all, known) ==
  IF Len(shown) >= MaxCovers \/ Free(shown, all) = {} THEN shown
  ELSE Append(shown, CHOOSE a \in Free(shown, all) :
                       \A b \in Free(shown, all) \ {a} : Before(a, b, known))

\* fillCovers, for MaxCovers slots.
Fill(shown, all, known) == FillSlot(FillSlot(shown, all, known), all, known)

\* (with a bug: the other slot keeps the entry)
WithCoverTwice(shown, slot, e) ==
  IF slot > Len(shown) THEN Append(shown, e) ELSE [shown EXCEPT ![slot] = e]

\* withCover: an entry that is shown in the other slot swaps with this one.
WithCover(shown, slot, e) ==
  IF slot > Len(shown)
  THEN IF e \in Shown(shown) THEN shown ELSE Append(shown, e)
  ELSE [i \in DOMAIN shown |-> IF i = slot THEN e
                               ELSE IF shown[i] = e THEN shown[slot] ELSE shown[i]]

(***************************************************************************)
(* The effect of useDeckCovers.                                            *)
(***************************************************************************)
\* (with a bug: covers whose entry is gone stay)
CurrentAll(shown, all) == shown

Current(shown, all) == Within(shown, all)

\* (with a bug: one cover is enough)
EnoughIfAny(current, all) == current # <<>> \/ all = {}

Enough(current, all) == Len(current) >= MaxCovers \/ Len(current) = Cardinality(all)

\* The effect runs, or goes on, with the deck's entries: it is done at once, or
\* awaits lookups with the covers of now in hand.
Continue(shown, all) ==
  LET current == Current(shown, all)
  IN IF Enough(current, all)
     THEN covers' = current /\ run' = NoRun
     ELSE covers' = shown /\ run' = [at |-> "lookups", all |-> all, current |-> current]

\* A request goes out on a connection that is free.
Send(message) == \E c \in Conn : wire[c] = None /\ wire' = [wire EXCEPT ![c] = message]

\* persist: nothing to send when these covers are taken for saved already.
Persist(next) ==
  IF next = savedIds THEN UNCHANGED <<savedIds, wire>>
  ELSE savedIds' = next /\ Send([op |-> "covers", ids |-> next, here |-> TRUE])

\* The lookups of all Pokemon are back; known is the keys of those that found one.
FinishLookups ==
  /\ run.at = "lookups"
  /\ \E known \in SUBSET {KeyOf[e] : e \in run.all \cap Pokemon} :
       LET next == Fill(run.current, run.all, known)
       IN covers' = next /\ Persist(next)
  /\ run' = NoRun
  /\ UNCHANGED <<server, view, untold>>

\* The tile's GET of the deck: answered, or failed.
FetchDeck ==
  /\ run.at = "deck"
  /\ \/ answer # None /\ Continue(covers, answer.rows)
     \/ run' = NoRun /\ UNCHANGED covers
  /\ answer' = None
  /\ UNCHANGED <<server, page, deck, entries, savedIds, wire, untold>>

ChooseCover ==
  /\ page = "editor"
  /\ \E slot \in 1 .. MaxCovers, e \in entries :
       LET next == WithCover(covers, slot, e)
       IN covers' = next /\ Persist(next)
  /\ UNCHANGED <<server, view, run, untold>>

(***************************************************************************)
(* The page.                                                               *)
(***************************************************************************)
\* The home page mounts and fetches its list.
OpenHome ==
  /\ page = "away"
  /\ page' = "listing"
  /\ UNCHANGED <<server, answer, deck, entries, hook, wire, untold>>

\* The editor mounts and fetches the deck.
OpenEditor ==
  /\ page = "away"
  /\ page' = "loading"
  /\ UNCHANGED <<server, answer, deck, entries, hook, wire, untold>>

\* The server reads the deck for the list, for the editor or for the tile.  Of what
\* changes from now on the page hears only through its own requests.
ReadDeck ==
  /\ page \in {"listing", "loading"} \/ run.at = "deck"
  /\ answer = None
  /\ answer' = [rows |-> rows, saved |-> saved] /\ untold' = {}
  /\ UNCHANGED <<server, page, deck, entries, hook, wire>>

\* The list is answered: the deck's tile mounts with the covers in it.
OpenTile ==
  /\ page = "listing" /\ answer # None
  /\ page' = "tile" /\ answer' = None
  /\ covers' = answer.saved /\ savedIds' = answer.saved
  /\ run' = [at |-> IF Len(answer.saved) < MaxCovers THEN "deck" ELSE "none"]
  /\ UNCHANGED <<server, deck, entries, wire, untold>>

\* The GET is answered: useDeck shows the deck, useDeckCovers starts from its covers.
Load ==
  /\ page = "loading" /\ answer # None
  /\ page' = "editor" /\ answer' = None
  /\ deck' = answer.rows /\ entries' = answer.rows /\ savedIds' = answer.saved
  /\ Continue(answer.saved, answer.rows)
  /\ UNCHANGED <<server, wire, untold>>

\* The editor is rendered after a setDeck, and the effect of useDeckCovers, whose
\* dependencies changed, is cancelled and runs anew.
Render ==
  /\ deck # entries
  /\ entries' = deck
  /\ Continue(covers, deck)
  /\ UNCHANGED <<server, page, answer, deck, savedIds, wire, untold>>

\* The answer of an addition or a deletion is on its way back.
Answered(c) == wire[c] # None /\ wire[c].op # "covers" /\ wire[c].done

\* The component unmounts: its effect is cancelled, nobody waits for its answers.
Leave ==
  /\ page # "away"
  /\ page' = "away" /\ answer' = None /\ deck' = {} /\ entries' = {}
  /\ covers' = <<>> /\ savedIds' = <<>> /\ run' = NoRun
  /\ wire' = [c \in Conn |-> IF wire[c] = None \/ Answered(c) THEN None
                             ELSE [wire[c] EXCEPT !.here = FALSE]]
  /\ UNCHANGED <<server, untold>>

\* A card of which no entry is shown; of another the page changes the count.
ClickAdd ==
  /\ page = "editor"
  /\ \E key \in Key \ {KeyOf[e] : e \in entries} :
       Send([op |-> "add", card |-> key, entry |-> None, done |-> FALSE, here |-> TRUE])
  /\ UNCHANGED <<server, view, hook, untold>>

ClickDelete ==
  /\ page = "editor"
  /\ \E e \in entries : Send([op |-> "delete", entry |-> e, done |-> FALSE, here |-> TRUE])
  /\ UNCHANGED <<server, view, hook, untold>>

(***************************************************************************)
(* The server, and the answers.                                            *)
(***************************************************************************)
Hangup(c) == wire' = [wire EXCEPT ![c] = None]

\* The server has added or deleted e; the answer goes to the editor that asked,
\* if it is still there.
AnswerOn(c, e) ==
  IF wire[c].here
  THEN /\ wire' = [wire EXCEPT ![c].entry = e, ![c].done = TRUE]
       /\ UNCHANGED untold
  ELSE Hangup(c) /\ untold' = untold \cup {e}

\* Covers have to be different entries of the deck, or are turned down as a whole.
PutCovers(c) ==
  LET ids == wire[c].ids
  IN /\ wire[c] # None /\ wire[c].op = "covers"
     /\ saved' = IF Shown(ids) \subseteq rows /\ Cardinality(Shown(ids)) = Len(ids)
                 THEN ids ELSE saved
     /\ Hangup(c)
     /\ UNCHANGED <<rows, born, view, hook, untold>>

PostEntry(c) ==
  /\ wire[c] # None /\ wire[c].op = "add" /\ ~wire[c].done
  /\ \E e \in Entry \ born :
       /\ KeyOf[e] = wire[c].card
       /\ rows' = rows \cup {e} /\ born' = born \cup {e}
       /\ AnswerOn(c, e)
  /\ UNCHANGED <<saved, view, hook>>

\* (with a bug: the delete does not cascade)
WithEntry(shown, e) == shown

\* The covers in the order of their slots, after the cascade.
WithoutEntry(shown, e) == Within(shown, Entry \ {e})

DeleteEntry(c) ==
  LET e == wire[c].entry
  IN /\ wire[c] # None /\ wire[c].op = "delete" /\ ~wire[c].done
     /\ IF e \in rows
        THEN rows' = rows \ {e} /\ saved' = WithoutEntry(saved, e) /\ AnswerOn(c, e)
        ELSE Hangup(c) /\ UNCHANGED <<rows, saved, untold>>
     /\ UNCHANGED <<born, view, hook>>

\* (with a bug: the editor keeps what it deleted)
AddedOnly(message) == deck \cup {message.entry}

\* What setDeck makes of the entries when a request of this editor is answered.
Told(message) ==
  IF message.op = "add" THEN deck \cup {message.entry} ELSE deck \ {message.entry}

\* The answer of an addition or a deletion: useDeck changes its copy.
HearAnswer(c) ==
  /\ Answered(c)
  /\ deck' = Told(wire[c])
  /\ Hangup(c)
  /\ UNCHANGED <<server, page, answer, entries, hook, untold>>

\* A request does not get to the server or is not carried out, or its answer does not
\* get back: the promise is rejected and the page stays as it is.
Fail(c) ==
  /\ wire[c] # None
  /\ Hangup(c)
  /\ untold' = IF Answered(c) THEN untold \cup {wire[c].entry}
               ELSE untold
  /\ UNCHANGED <<server, view, hook>>

Next ==
  \/ OpenHome \/ OpenEditor \/ ReadDeck \/ OpenTile \/ Load \/ Render \/ Leave
  \/ FetchDeck \/ FinishLookups \/ ChooseCover \/ ClickAdd \/ ClickDelete
  \/ \E c \in Conn : \/ PutCovers(c) \/ PostEntry(c) \/ DeleteEntry(c)
                     \/ HearAnswer(c) \/ Fail(c)

Spec == Init /\ [][Next]_vars

(***************************************************************************)
(* Properties.                                                             *)
(***************************************************************************)

\* A deck never shows one entry as both of its covers, whatever is chosen while a
\* default is being worked out (covers.ts withCover and fillCovers).
CoversDiffer == \A i, j \in DOMAIN covers : covers[i] = covers[j] => i = j

\* When the effect of the editor awaits nothing, each cover is a card of the deck that is
\* rendered, also after cards were deleted and the user chose meanwhile
\* (useDeckCovers.ts:57-64).
CoversAreInDeck == page = "editor" /\ run = NoRun => Shown(covers) \subseteq entries

\* When the effect awaits nothing, a slot is empty only if every card of the deck is
\* shown, whichever lookups failed or were cancelled (useDeckCovers.ts:11-12, "empty slots
\* are filled with the default pick").
SlotsAreFilled ==
  page = "editor" /\ run = NoRun /\ Len(covers) < MaxCovers =>
    \A e \in entries : \E c \in Shown(covers) : KeyOf[c] = KeyOf[e]

\* The editor has what the server has, up to changes whose answer is under way or was
\* lost, or goes to an editor that is gone; in particular a deleted entry does not come
\* back (useDeck.ts addEntry, deleteEntry).
UnderWay(op) == {wire[c].entry : c \in {d \in Conn : wire[d] # None /\ wire[d].op = op}}

PageFollowsServer ==
  page = "editor" =>
    /\ rows \ deck \subseteq untold \cup UnderWay("add")
    /\ deck \ rows \subseteq untold \cup UnderWay("delete")

\* Every cover the server has is a card the editor has, although PUTs of this and of
\* earlier visits land at any time: the page never hides a saved cover, "the server has
\* already dropped them" (useDeckCovers.ts:57).
SavedCoversAreShown == page = "editor" => Shown(saved) \subseteq deck

(***************************************************************************)
(* What the repository says of covers and the code does otherwise.         *)
(***************************************************************************)

\* useDeckCovers.ts:11-12, "Saved covers are used as they are; empty slots are filled with
\* the default pick": when the default pick is applied, the covers the server has are
\* still among the covers.
SavedCoversAreKept ==
  [][page = "editor" /\ run.at = "lookups" /\ run' = NoRun /\ page' = page
     /\ entries' = entries
     => Shown(saved) \cap entries \subseteq Shown(covers')]_vars
================================================================================
