------------------------------ MODULE DeckLibrary ------------------------------
(***************************************************************************)
(* What the deck API promises, without requests, tables or queries: a      *)
(* library of decks, each one object with its entries and covers inside    *)
(* it, changed only by its owner and one whole operation at a time.        *)
(* DeckService implements it (DeckServiceRefinement).                      *)
(***************************************************************************)
CONSTANTS User, Deck, Entry, Name, Format, Count, Art, None, Slot

VARIABLES
  library,  \* the deck objects
  born      \* the ids ever given to a deck or an entry

Card == [count : Count, art : Art \cup {None}]

\* A deck: its cards under their entry ids, and the covers picked among them.
DeckObject ==
  UNION {[owner : User, name : Name \cup {None}, format : Format,
          cards : [E -> Card], covers : [Slot -> E \cup {None}]] : E \in SUBSET Entry}

Exists(d) == library[d] # None

OwnedBy(u, d) == Exists(d) /\ library[d].owner = u

Empty == [e \in {} |-> None]

Init ==
  /\ library = [d \in Deck |-> None]
  /\ born = {}

Make(u, d) ==
  /\ d \in Deck \ born
  /\ born' = born \cup {d}
  /\ \E n \in Name \cup {None}, f \in Format :
       library' = [library EXCEPT ![d] = [owner |-> u, name |-> n, format |-> f,
                                          cards |-> Empty,
                                          covers |-> [s \in Slot |-> None]]]

\* A deck changes, but never its owner.
Become(d, name, format, cards, covers) ==
  library' = [library EXCEPT ![d] = [owner |-> library[d].owner, name |-> name,
                                     format |-> format, cards |-> cards, covers |-> covers]]

Rename(u, d) ==
  /\ OwnedBy(u, d)
  /\ \E n \in Name \cup {None}, f \in Format :
       Become(d, n, f, library[d].cards, library[d].covers)
  /\ UNCHANGED born

Drop(u, d) ==
  /\ OwnedBy(u, d)
  /\ library' = [library EXCEPT ![d] = None]
  /\ UNCHANGED born

\* The deck gets the cards of the function new; the covers that are no longer
\* among its cards go.
WithCards(d, new) ==
  LET covers == library[d].covers
  IN Become(d, library[d].name, library[d].format, new,
            [s \in Slot |-> IF covers[s] \in DOMAIN new THEN covers[s] ELSE None])

Put(u, d) ==
  /\ OwnedBy(u, d)
  /\ \E e \in Entry \ born, c \in Card :
       /\ born' = born \cup {e}
       /\ LET old == library[d].cards
          IN WithCards(d, [x \in DOMAIN old \cup {e} |-> IF x = e THEN c ELSE old[x]])

Edit(u, d) ==
  /\ OwnedBy(u, d)
  /\ \E e \in DOMAIN library[d].cards, c \in Card :
       WithCards(d, [library[d].cards EXCEPT ![e] = c])
  /\ UNCHANGED born

Remove(u, d) ==
  /\ OwnedBy(u, d)
  /\ \E e \in DOMAIN library[d].cards :
       WithCards(d, [x \in DOMAIN library[d].cards \ {e} |-> library[d].cards[x]])
  /\ UNCHANGED born

PickCovers(u, d) ==
  /\ OwnedBy(u, d)
  /\ \E pick \in [Slot -> DOMAIN library[d].cards \cup {None}] :
       /\ \A s, t \in Slot : pick[s] = pick[t] /\ s # t => pick[s] = None
       /\ Become(d, library[d].name, library[d].format, library[d].cards, pick)
  /\ UNCHANGED born

Refill(u, d) ==
  /\ OwnedBy(u, d)
  /\ \E E \in SUBSET (Entry \ born) : \E new \in [E -> Card] :
       /\ born' = born \cup E
       /\ WithCards(d, new)

\* To leave everything as it is takes no step.
Next ==
  /\ <<library, born>>' # <<library, born>>
  /\ \E u \in User, d \in Deck :
       \/ Make(u, d) \/ Rename(u, d) \/ Drop(u, d) \/ Put(u, d) \/ Edit(u, d)
       \/ Remove(u, d) \/ PickCovers(u, d) \/ Refill(u, d)

Spec == Init /\ [][Next]_<<library, born>>
================================================================================
