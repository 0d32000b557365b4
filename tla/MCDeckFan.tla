------------------------------- MODULE MCDeckFan -------------------------------
(* The instance of DeckFan for TLC. *)
EXTENDS DeckFan

\* Sorting moves every card.
Turned == [i \in 0 .. 2 |-> (i + 1) % 3]
================================================================================
