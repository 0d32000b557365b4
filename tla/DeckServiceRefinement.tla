------------------------ MODULE DeckServiceRefinement --------------------------
(***************************************************************************)
(* DeckService implements DeckLibrary: the three tables put together are   *)
(* deck objects, and each write, however long after its checks it comes,   *)
(* is one whole operation of the deck's owner at the moment it commits.    *)
(***************************************************************************)
EXTENDS DeckService

ObjectOf(d) ==
  IF ~Live(d) THEN None
  ELSE [owner |-> decks[d].owner, name |-> decks[d].name, format |-> decks[d].format,
        cards |-> [e \in EntriesOf(d) |-> [count |-> entries[e].count, art |-> entries[e].art]],
        covers |-> covers[d]]

Library == INSTANCE DeckLibrary WITH
  library <- [d \in Deck |-> ObjectOf(d)],
  born <- used,
  Count <- StoredCount

ASSUME NoneIsNoObject == None \notin Library!DeckObject

\* The deck API refines the library of whole operations (service.go,
\* deck_repository.go; README.md of the repository, "API").
ImplementsLibrary == Library!Spec
================================================================================
