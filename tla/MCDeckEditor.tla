----------------------------- MODULE MCDeckEditor ------------------------------
(* Instances of DeckEditor for TLC. *)
EXTENDS DeckEditor, TLC

Cards == 1 .. 3

\* A trainer that is in the deck, and a Pokemon that a double click adds twice.
CardKey == [e \in Cards |-> IF e = 1 THEN "potion" ELSE "eevee"]

Points == [k \in {"potion", "eevee"} |-> IF k = "eevee" THEN 50 ELSE 0]

\* Three different Pokemon that nobody knows the hit points of.
OwnKey == [e \in Cards |-> e]

NoPoints == [k \in Cards |-> 0]

CardRank == [e \in Cards |-> e]

Symmetry == Permutations(Conn)
================================================================================
