---------------------------- MODULE MCDeckService ------------------------------
(***************************************************************************)
(* The instance of DeckService for TLC, with the library it implements.    *)
(* The clients are after the covers and entries of each other's decks, or  *)
(* one of them after imports and changes: both at a time are too many      *)
(* states.                                                                 *)
(***************************************************************************)
EXTENDS DeckServiceRefinement, TLC

Symmetry ==
  Permutations(User) \cup Permutations(Deck) \cup Permutations(Entry) \cup Permutations(Req)

\* A JSON number of a client can be negative.
NegativeCounts == {-1}

WriteOps == {"create", "addEntry", "deleteEntry", "setCovers", "delete", "get", "list"}

ImportOps == {"import", "addEntry", "delete", "update", "updateEntry", "updateEntryArt"}

AllOps == WriteOps \cup ImportOps

WriteCalls == {c \in Call : c.op \in WriteOps}

\* The only format asked for is none: imports and changes then get or keep one.  Of the lists
\* with a line that has no section one is enough.
ImportCalls ==
  {c \in Call :
     /\ c.op \in ImportOps
     /\ c.op \in {"import", "update"} => c.format = None
     /\ c.op = "import" => \A i \in DOMAIN c.lines : c.lines[i].sectioned \/ Len(c.lines) = 1}

VARIABLE
  after  \* everyone's covers and entries, or the user who imports

MCInit == Init /\ after \in User \cup {None}

MCNext ==
  /\ \/ after = None /\ \E r \in Req, u \in User, c \in WriteCalls : Arrive(r, u, c)
     \/ after # None /\ \E r \in Req, c \in ImportCalls : Arrive(r, after, c)
     \/ \E r \in Req : Read(r) \/ Write(r) \/ Fail(r) \/ Leave(r)
     \/ Restart
  /\ UNCHANGED after

MCSpec == MCInit /\ [][MCNext]_<<vars, after>>
================================================================================
