----------------------------- MODULE MCCardLookup ------------------------------
(* Instances of CardLookup for TLC. *)
EXTENDS CardLookup

\* Two lines of one set, one of them a basic energy that the set may not have, and a
\* line of a second import that asks what the first line asks.
Lines == {"pikachu", "energy", "other"}

ImportOfLine == [l \in Lines |-> IF l = "other" THEN "second" ELSE "first"]

SetOfLine == [l \in Lines |-> "SVI"]

CardsOfLine ==
  [l \in Lines |-> CASE l = "pikachu" -> <<"sv01-25", "sv01-025">>
                     [] l = "energy"  -> <<"sv01-002">>
                     [] l = "other"   -> <<"sv01-025">>]

SearchOfLine == [l \in Lines |-> IF l = "energy" THEN "Fire Energy" ELSE None]
================================================================================
