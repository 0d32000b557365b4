------------------------------ MODULE MCHomePage ------------------------------
(***************************************************************************)
(* The instance of HomePage for TLC.  The user is after the list of decks, *)
(* with logins and logouts, or imports decks: both at a time are too many  *)
(* states.                                                                 *)
(***************************************************************************)
EXTENDS HomePage, TLC

CONSTANTS There, Short, Prose

Texts == {There, Short, Prose}

\* Two cards, the second of them alone, and a text without cards.
Lists == [t \in Texts |-> CASE t = There -> <<"mew", "potion">>
                            [] t = Short -> <<"potion">>
                            [] t = Prose -> <<>>]

VARIABLE after

MCInit ==
  /\ Init
  /\ after \in {"list", "import"}
  /\ after = "import" => jar # None

\* One deck is imported, and the dialog is opened when nothing is under way.
ImportNext ==
  \/ dialog = None /\ (Reload \/ Navigate)
  \/ (\A c \in Conn : wire[c] = None) /\ OpenImport
  \/ born = {} /\ HandleSave
  \/ CloseImport \/ EditText \/ HandlePreview \/ Back \/ PickArt

MCNext ==
  /\ \/ \E c \in Conn : Carry(c) \/ TakeCookie(c) \/ Hear(c) \/ Fail(c)
     \/ after = "list" /\ (\/ Reload \/ Navigate \/ Login \/ Logout \/ Expire
                           \/ CreateDeck \/ DeleteDeck)
     \/ after = "import" /\ ImportNext
  /\ UNCHANGED after

MCSpec == MCInit /\ [][MCNext]_<<vars, after>>

Symmetry ==
  Permutations(Conn) \cup Permutations(User) \cup Permutations(Token) \cup Permutations(Deck)
===============================================================================
