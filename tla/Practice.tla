------------------------------- MODULE Practice --------------------------------
(***************************************************************************)
(* The test draw of a deck: the dialog (PracticeHandModal.tsx), the deal   *)
(* (practice/deal.ts), and which Pokemon count as basic                    *)
(* (hooks/useBasicPokemon.ts).                                             *)
(*                                                                         *)
(* The hand and the user's choice of basics are kept in localStorage and   *)
(* outlive the dialog.  Meanwhile the deck changes: answers of the editor  *)
(* come in while the dialog is open, and anything happens while it is      *)
(* closed.  Stages of cards are looked up each time it opens.  The image   *)
(* key of an entry stays: a choice of art, which changes it, is left out.  *)
(***************************************************************************)
EXTENDS Integers, FiniteSets, Functions

CONSTANTS
  Entry,         \* ids of the deck's entries; one stands for all that a card ever gets
  Pokemon,       \* those of section "pokemon"
  Key,           \* image keys of Pokemon
  KeyOf,
  Evolved,       \* the keys whose stage, as TCGdex has it, is not basic
  Count,         \* counts of entries; an import may save one below 1
  MaxCards,      \* bound on the cards of a deck
  HandSize,      \* 7
  Prizes,        \* 6
  MaxMulligans,  \* 500
  Storage,       \* whether localStorage can be written
  None

ASSUME PracticeAssumption ==
  /\ Pokemon \subseteq Entry /\ KeyOf \in [Pokemon -> Key] /\ Evolved \subseteq Key
  /\ Count \subseteq Int /\ 1 \in Count /\ IsFiniteSet(Entry) /\ IsFiniteSet(Count)
  /\ MaxCards \in Nat /\ HandSize \in Nat \ {0} /\ Prizes \in Nat /\ MaxMulligans \in Nat
  /\ Storage \in BOOLEAN /\ \A S \in SUBSET Key : S # None

\* The entries of a deck with their counts.
Deck == UNION {[E -> Count] : E \in SUBSET Entry}

\* The cards of a deck, and how many they are: the copies of each entry.
CardsOf(d) == UNION {{e} \X (1 .. d[e]) : e \in DOMAIN d}

CardsIn(d) == Cardinality(CardsOf(d))

Zone == {"hand", "prizes", "next", "deck"}

\* What is kept of a hand of n cards; cards[u] is the entry of the card with uid u.
Session(n) ==
  [signature : Deck, cards : [1 .. n -> Entry], zone : [1 .. n -> Zone],
   mulligans : 0 .. MaxMulligans, revealed : SUBSET (1 .. n),
   nextRevealed : BOOLEAN, marked : SUBSET (1 .. n)]

IsSession(s) == s = None \/ \E n \in 0 .. MaxCards : s \in Session(n)

\* The dialog while it is mounted; fetching says that its effect awaits stages.
IsDialog(d) ==
  /\ IsSession(d.session)
  /\ d \in [session : {d.session}, basics : SUBSET Key, hadSaved : BOOLEAN,
            ready : BOOLEAN, fetching : BOOLEAN]

VARIABLES
  deck,       \* the deck as the page has it
  stored,     \* localStorage: the hand
  overrides,  \* localStorage: the basics
  page,       \* "deck", "draw" (the dialog is asked for), or "broken" by an exception
  dialog

vars == <<deck, stored, overrides, page, dialog>>

TypeOK ==
  /\ deck \in Deck
  /\ IsSession(stored)
  /\ overrides \in (SUBSET Key) \cup {None}
  /\ page \in {"deck", "draw", "broken"}
  /\ dialog # None => page = "draw" /\ IsDialog(dialog)

\* An import has saved the deck.
Init ==
  /\ deck \in {d \in Deck : CardsIn(d) <= MaxCards}
  /\ stored = None /\ overrides = None
  /\ page = "deck" /\ dialog = None

(***************************************************************************)
(* practice/deal.ts                                                        *)
(***************************************************************************)
KeysOf(d) == {KeyOf[e] : e \in DOMAIN d \cap Pokemon}

Copies(cards, e) == Cardinality({u \in DOMAIN cards : cards[u] = e})

\* The pool of a deck, with uids in some order of its entries.
Pool(d) ==
  CHOOSE cards \in [1 .. CardsIn(d) -> DOMAIN d] : \A e \in DOMAIN d : Copies(cards, e) = d[e]

\* slice(0, 7), slice(7, 13), [13] and slice(14) of the shuffled pool.
ZoneAt(i) ==
  CASE i <= HandSize -> "hand"
    [] i > HandSize /\ i <= HandSize + Prizes -> "prizes"
    [] i = HandSize + Prizes + 1 -> "next"
    [] i > HandSize + Prizes + 1 -> "deck"

IsBasic(e, set) == e \in Pokemon /\ KeyOf[e] \in set

HasBasic(s, set) == \E u \in DOMAIN s.cards : s.zone[u] = "hand" /\ IsBasic(s.cards[u], set)

\* (with a bug: a changed count leaves it the same)
SignatureOfIds(d) == [e \in DOMAIN d |-> CHOOSE c \in Count : TRUE]

Signature(d) == d

\* Where the shuffles may put the cards of a pool of n.
Places ==
  [n \in 0 .. MaxCards |->
     {[u \in 1 .. n |-> ZoneAt(order[u])] : order \in Bijection(1 .. n, 1 .. n)}]

(***************************************************************************)
(* The dialog.                                                             *)
(***************************************************************************)
Saved(new, old) == IF Storage THEN new ELSE old

\* A render of the dialog.  A session without a single card makes it throw, for the pile
\* shows the first card of the hand, and the page goes blank.
Render(next) ==
  IF next.session # None /\ next.session.cards = <<>>
  THEN page' = "broken" /\ dialog' = None
  ELSE page' = "draw" /\ dialog' = next

\* An array of negative length: RangeError.
Throws(d) == \E e \in DOMAIN d : d[e] < 0

\* A deal: mulligans up to the cap, fewer only for a hand with a basic.
DealHand(next, d, revealed) ==
  LET cards == Pool(d)
  IN \E place \in Places[CardsIn(d)], m \in 0 .. MaxMulligans :
       LET s == [signature |-> Signature(d), cards |-> cards, zone |-> place, mulligans |-> m,
                 revealed |-> revealed, nextRevealed |-> FALSE, marked |-> {}]
       IN /\ m = MaxMulligans \/ HasBasic(s, next.basics)
          /\ stored' = Saved(s, stored)
          /\ Render([next EXCEPT !.session = s])

\* (with a bug: what was revealed in the last hand stays so)
DealRevealed(next, d) ==
  DealHand(next, d, IF stored = None THEN {} ELSE stored.revealed)

\* deal, from a dialog and the deck it shows.
Deal(next, d) == DealHand(next, d, {})

\* ready turns true: the effect deals unless there is a hand.  An exception in an effect
\* takes the page down.
TurnReady(next, d) ==
  CASE next.session # None -> Render(next) /\ UNCHANGED stored
    [] next.session = None /\ Throws(d) ->
         page' = "broken" /\ dialog' = None /\ UNCHANGED stored
    [] next.session = None /\ ~Throws(d) -> Deal(next, d)

\* The dialog mounts on a deck: it restores the hand if it is of this deck, and looks
\* stages up if there are Pokemon.
Mount(d) ==
  LET begin ==
        [session |-> IF stored # None /\ stored.signature = Signature(d) THEN stored ELSE None,
         basics |-> IF overrides = None THEN {} ELSE overrides,
         hadSaved |-> overrides # None,
         ready |-> KeysOf(d) = {}, fetching |-> KeysOf(d) # {}]
  IN IF begin.ready THEN TurnReady(begin, d) ELSE Render(begin) /\ UNCHANGED stored

\* By the button, or by ?draw=1 in the address, which may open it on a deck without entries.
OpenDialog ==
  /\ page = "deck"
  /\ IF deck = <<>> THEN page' = "draw" /\ UNCHANGED <<dialog, stored>> ELSE Mount(deck)
  /\ UNCHANGED <<deck, overrides>>

\* Closed, or the page is left.
CloseDialog ==
  /\ page = "draw"
  /\ page' = "deck" /\ dialog' = None
  /\ UNCHANGED <<deck, stored, overrides>>

\* The user loads the blank page again.
Reload ==
  /\ page = "broken"
  /\ page' = "deck"
  /\ UNCHANGED <<deck, stored, overrides, dialog>>

\* (with a bug: the effect is cancelled only)
RestartNot(d) == dialog' = [dialog EXCEPT !.fetching = FALSE] /\ UNCHANGED <<page, stored>>

\* The number of entries changed: the effect of useBasicPokemon starts anew.
Restart(d) ==
  LET ready == [dialog EXCEPT !.ready = TRUE, !.fetching = FALSE]
  IN IF KeysOf(d) # {}
     THEN dialog' = [dialog EXCEPT !.fetching = TRUE] /\ UNCHANGED <<page, stored>>
     ELSE IF dialog.ready THEN dialog' = ready /\ UNCHANGED <<page, stored>>
     ELSE TurnReady(ready, d)

\* What the dialog, which is there only while the deck has entries, makes of a new deck.
Follow(d) ==
  CASE page # "draw" -> UNCHANGED <<page, dialog, stored>>
    [] page = "draw" /\ DOMAIN d = {} -> dialog' = None /\ UNCHANGED <<page, stored>>
    [] page = "draw" /\ DOMAIN d # {} /\ dialog = None -> Mount(d)
    [] page = "draw" /\ dialog # None /\ DOMAIN d = DOMAIN deck ->
         UNCHANGED <<page, dialog, stored>>
    [] page = "draw" /\ dialog # None /\ DOMAIN d \notin {{}, DOMAIN deck} -> Restart(d)

\* The editor adds an entry, removes one, or changes a count by one; the answer may come
\* when the dialog is open.
ChangeDeck ==
  /\ \E e \in Entry :
       \/ e \notin DOMAIN deck /\ deck' = [x \in DOMAIN deck \cup {e} |->
                                             IF x = e THEN 1 ELSE deck[x]]
       \/ e \in DOMAIN deck /\ deck' = [x \in DOMAIN deck \ {e} |-> deck[x]]
       \/ /\ e \in DOMAIN deck
          /\ \E c \in {deck[e] + 1} \cup (IF deck[e] > 1 THEN {deck[e] - 1} ELSE {}) :
               c \in Count /\ deck' = [deck EXCEPT ![e] = c]
  /\ CardsIn(deck') <= MaxCards
  /\ Follow(deck')
  /\ UNCHANGED overrides

\* The lookups are back; known is the keys whose stage they found.
FinishLookups ==
  /\ dialog # None /\ dialog.fetching
  /\ UNCHANGED deck
  /\ \E known \in SUBSET KeysOf(deck) :
       LET initial == KeysOf(deck) \ (known \cap Evolved)
           next == [dialog EXCEPT !.basics = IF dialog.hadSaved THEN @ ELSE initial,
                                  !.ready = TRUE, !.fetching = FALSE]
       IN /\ overrides' = IF dialog.hadSaved THEN overrides ELSE Saved(initial, overrides)
          /\ IF dialog.ready THEN dialog' = next /\ UNCHANGED <<page, stored>>
             ELSE TurnReady(next, deck)

ToggleBasic ==
  /\ dialog # None
  /\ \E k \in KeysOf(deck) :
       LET next == IF k \in dialog.basics THEN dialog.basics \ {k} ELSE dialog.basics \cup {k}
       IN /\ dialog' = [dialog EXCEPT !.basics = next]
          /\ overrides' = Saved(next, overrides)
  /\ UNCHANGED <<deck, stored, page>>

\* An exception in a handler of a click changes nothing.
NewHand ==
  /\ dialog # None /\ dialog.ready /\ ~Throws(deck)
  /\ Deal(dialog, deck)
  /\ UNCHANGED <<deck, overrides>>

\* (with a bug: what is revealed and marked is not saved)
UpdateShown(next) == dialog' = [dialog EXCEPT !.session = next] /\ UNCHANGED stored

Update(next) ==
  dialog' = [dialog EXCEPT !.session = next] /\ stored' = Saved(next, stored)

InZone(s, zone) == {u \in DOMAIN s.cards : s.zone[u] = zone}

\* revealPrize, "Reveal all", the next card; toggleMark, "Clear marks".
Look ==
  LET s == dialog.session
  IN /\ dialog # None /\ s # None
     /\ \/ \E u \in InZone(s, "prizes") \ s.revealed :
             Update([s EXCEPT !.revealed = @ \cup {u}])
        \/ s.revealed # InZone(s, "prizes") /\ Update([s EXCEPT !.revealed = InZone(s, "prizes")])
        \/ InZone(s, "next") # {} /\ ~s.nextRevealed /\ Update([s EXCEPT !.nextRevealed = TRUE])
        \/ \E u \in InZone(s, "deck") :
             Update([s EXCEPT !.marked = IF u \in @ THEN @ \ {u} ELSE @ \cup {u}])
        \/ s.marked # {} /\ Update([s EXCEPT !.marked = {}])
     /\ UNCHANGED <<deck, overrides, page>>

Next ==
  \/ OpenDialog \/ CloseDialog \/ Reload \/ ChangeDeck
  \/ FinishLookups \/ ToggleBasic \/ NewHand \/ Look

Spec == Init /\ [][Next]_vars

\* Each lookup is answered or fails in the end.
FairSpec == Spec /\ WF_vars(FinishLookups)

(***************************************************************************)
(* Properties.                                                             *)
(***************************************************************************)

\* A hand that passes for one of the deck as it is now is that: each entry is in it as
\* often as in the deck, whatever was changed between the deal, the storage and the
\* restoration (PracticeHandModal.tsx:30, "A hand dealt from an older version of the
\* deck is stale").
HandsAreOfTheirDeck ==
  \A s \in {stored} \cup (IF dialog = None THEN {} ELSE {dialog.session}) :
    s # None /\ s.signature = Signature(deck) =>
      \A e \in Entry : Copies(s.cards, e) = IF e \in DOMAIN deck THEN deck[e] ELSE 0

\* Only prizes are revealed and only cards of the deck are marked, in the hand that is
\* shown and in the one that is kept (PracticeHandModal.tsx deal, revealPrize, toggleMark).
MarksFitTheHand ==
  \A s \in {stored} \cup (IF dialog = None THEN {} ELSE {dialog.session}) :
    s # None => s.revealed \subseteq InZone(s, "prizes") /\ s.marked \subseteq InZone(s, "deck")

\* Closing the dialog loses nothing: what it shows and goes by is in the storage
\* (PracticeHandModal.tsx:17, "Everything ... that survives closing the modal").
ClosingLosesNothing ==
  Storage /\ dialog # None =>
    /\ dialog.session # None => stored = dialog.session
    /\ dialog.basics = IF overrides = None THEN {} ELSE overrides

\* Who asks for a draw gets a hand, however the deck changes while stages are looked up
\* (PracticeHandModal.tsx:66, "Deal once basics are known").
HandComes ==
  page = "draw" /\ deck # <<>> ~>
    page # "draw" \/ deck = <<>> \/ (dialog # None /\ dialog.session # None)
================================================================================
