----------------------------- MODULE MCEditorCards -----------------------------
(***************************************************************************)
(* The instance of EditorCards for TLC.  The user is after the cards of    *)
(* the deck and their order, after the count of one card while the page is *)
(* left and opened again, or after its art: all at a time are too many     *)
(* states.                                                                 *)
(***************************************************************************)
EXTENDS EditorCards, TLC

Ids == 1 .. 3

Cards == {"mew", "potion"}

\* Two entries of one Pokemon, as an import may leave them, and a trainer's.
CardsOf == [e \in Ids |-> IF e = 3 THEN "potion" ELSE "mew"]

Sections == [c \in Cards |-> IF c = "potion" THEN "trainer" ELSE "pokemon"]

Pictures == [c \in Cards |-> "promo"]

\* One Pokemon's art was picked in the import review.
Saved == [e \in Ids |-> IF e = 1 THEN "foil" ELSE None]

\* The decks to start with, and what for.
FirstDecks == {{1, 2}, {2}, {3}}

ImportedDeck == {{1}}

Purposes(deck) ==
  CASE deck = {1, 2} -> {"cards", "twins"}
    [] deck = {2} -> {"count"}
    [] deck \in {{1}, {3}} -> {"art"}

VARIABLE after

MCInit == Init /\ after \in Purposes(born)

\* What other pages cache counts when the deck is opened, for the cards in it.
CachedBefore ==
  /\ CachedElsewhere /\ page = "away"
  /\ \E e \in Ids : InDeck(e) /\ cache' = [cache EXCEPT ![CardOf[e]] = cache'[CardOf[e]]]

MCNext ==
  /\ \/ OpenPage \/ ReadDeck \/ Load
     \/ \E c \in Conn : Carry(c) \/ HearAnswer(c) \/ Fail(c)
     \/ after = "cards" /\ (SelectCard \/ DropCard \/ RemoveCard)
     \/ after = "count" /\ (Leave \/ SelectCard \/ ChangeCount \/ RemoveCard)
     \/ after \in {"art", "twins"} /\ (CachedBefore \/ OpenDialog \/ CloseDialog \/ PickArt)
     \/ after = "art" /\ (Leave \/ ToggleView \/ ImageArrives \/ RemoveCard)
  /\ UNCHANGED after

MCSpec == MCInit /\ [][MCNext]_<<vars, after>>

Symmetry == Permutations(Conn)
================================================================================
