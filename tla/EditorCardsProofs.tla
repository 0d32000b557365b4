--------------------------- MODULE EditorCardsProofs ---------------------------
(***************************************************************************)
(* Proofs about EditorCards, for any deck, any images and any number of    *)
(* requests under way.                                                     *)
(*                                                                         *)
(* The art dialog tells the truth: it goes by the answer to its latest     *)
(* pick alone.  At most one pick under way is the latest (OneLatest); it   *)
(* is of the picture the dialog shows and says it is saving, and once it   *)
(* is carried out the server has this picture (LatestIsShown).             *)
(*                                                                         *)
(* The cards are those of the server, each in one place, with their art.   *)
(* What page and server differ in of an entry is in an answer on its way   *)
(* (Follows); the gallery is a list of the entries the page has, without   *)
(* repetitions (OrderOK); and of each card one pick at most is under way,  *)
(* with no lookup beside it, which knows what to go back to (ArtFits).     *)
(***************************************************************************)
EXTENDS EditorCards, FiniteSetTheorems, SequenceTheorems, TLAPS

\* A message is a record that says what it is; what it is about does not matter.
HasFields(m, fields) == m = [f \in DOMAIN m |-> m[f]] /\ fields \subseteq DOMAIN m

IsPick(m) == HasFields(m, {"op", "id", "art", "done", "here", "was", "latest"}) /\ m.op = "art"

IsOther(m) == HasFields(m, {"op"}) /\ m.op # "art"

Formed(m) == m = None \/ IsPick(m) \/ IsOther(m)

Done(m, e) == [m EXCEPT !.id = e, !.done = TRUE]

WireFormed == wire = [c \in Conn |-> wire[c]] /\ \A c \in Conn : Formed(wire[c])

DialogOf(id, active, state, wrote) ==
  [id |-> id, active |-> active, state |-> state, wrote |-> wrote]

DialogFormed == \E id, active, state, wrote : dialog = DialogOf(id, active, state, wrote)

Decides(m) == m # None /\ IsLatest(m)

LatestIsShown ==
  \A c \in Conn : Decides(wire[c]) =>
    /\ dialog.state = "saving" /\ dialog.id = wire[c].id /\ dialog.active = wire[c].art
    /\ wire[c].done => wire[c].art \in dialog.wrote

OneLatest == \A c, d \in Conn : Decides(wire[c]) /\ Decides(wire[d]) => c = d

IInv ==
  /\ WireFormed
  /\ DialogFormed
  /\ LatestIsShown
  /\ OneLatest
  /\ SavedMeansSaved

--------------------------------------------------------------------------------
(***************************************************************************)
(* Messages.                                                               *)
(***************************************************************************)

\* What a message is told when another pick is the latest, and when its page is left.
LEMMA NoLatestForms ==
  ASSUME NEW m, Formed(m)
  PROVE  /\ Formed(NoLatest(m)) /\ ~Decides(NoLatest(m))
         /\ Formed(Orphan(m)) /\ ~Decides(Orphan(m))
  <1>1. CASE m = None
    BY <1>1 DEF NoLatest, Orphan, Formed, Decides
  <1>2. CASE m # None /\ IsPick(m)
    <2>1. /\ NoLatest(m) = [m EXCEPT !.latest = FALSE]
          /\ Orphan(m) = [m EXCEPT !.here = FALSE, !.latest = FALSE]
      BY <1>2 DEF NoLatest, Orphan, IsPick
    <2>2. IsPick(NoLatest(m)) /\ NoLatest(m).latest = FALSE
      BY <1>2, <2>1 DEF IsPick, HasFields
    <2>3. IsPick(Orphan(m)) /\ Orphan(m).latest = FALSE
      BY <1>2, <2>1 DEF IsPick, HasFields
    <2> QED
      BY <2>2, <2>3 DEF Formed, Decides, IsLatest
  <1>3. CASE m # None /\ IsOther(m)
    <2>1. NoLatest(m) = m /\ (Orphan(m) = None \/ Orphan(m) = [m EXCEPT !.here = FALSE])
      BY <1>3 DEF NoLatest, Orphan, IsOther
    <2>2. IsOther([m EXCEPT !.here = FALSE])
      BY <1>3 DEF IsOther, HasFields
    <2>3. Orphan(m) = None \/ IsOther(Orphan(m))
      BY <2>1, <2>2
    <2> QED
      BY <1>3, <2>1, <2>3 DEF Formed, Decides, IsLatest, IsOther
  <1> QED
    BY <1>1, <1>2, <1>3 DEF Formed

\* What the server has carried out keeps its form, and a pick stays what it is.
LEMMA DoneForms ==
  ASSUME NEW m, m # None, Formed(m), NEW e
  PROVE  /\ Formed(Done(m, e))
         /\ IsLatest(Done(m, e)) => IsLatest(m) /\ Done(m, e).id = e /\ Done(m, e).art = m.art
  <1>1. CASE IsPick(m)
    BY <1>1 DEF Done, IsPick, HasFields, Formed, IsLatest
  <1>2. CASE IsOther(m)
    BY <1>2 DEF Done, IsOther, HasFields, Formed, IsLatest
  <1> QED
    BY <1>1, <1>2 DEF Formed

--------------------------------------------------------------------------------
(***************************************************************************)
(* The invariant of the dialog.                                            *)
(***************************************************************************)

LEMMA InitInvariant == Init => IInv
  <1> SUFFICES ASSUME Init PROVE IInv
    OBVIOUS
  <1>1. wire = [c \in Conn |-> None] /\ dialog = Closed
    BY DEF Init
  <1>2. WireFormed /\ \A c \in Conn : ~Decides(wire[c])
    BY <1>1 DEF WireFormed, Formed, Decides
  <1>3. dialog = DialogOf(None, None, "closed", {}) /\ dialog.state = "closed"
    BY <1>1 DEF Closed, DialogOf
  <1> QED
    BY <1>2, <1>3 DEF IInv, DialogFormed, LatestIsShown, OneLatest, SavedMeansSaved

\* A step that leaves the dialog alone, and every message but one that decides nothing.
LEMMA Elsewhere ==
  ASSUME IInv, UNCHANGED dialog, WireFormed',
         \A c \in Conn : wire'[c] = wire[c] \/ ~Decides(wire[c])'
  PROVE  IInv'
  <1>1. \A c \in Conn : Decides(wire[c])' => Decides(wire[c]) /\ wire'[c] = wire[c]
    BY DEF Decides, IsLatest
  <1>2. LatestIsShown' /\ OneLatest'
    BY <1>1 DEF IInv, LatestIsShown, OneLatest
  <1> QED
    BY <1>2 DEF IInv, DialogFormed, SavedMeansSaved

\* A request of another kind is sent (SelectCard, ChangeCount, RemoveCard).
LEMMA SendStep ==
  ASSUME IInv, UNCHANGED dialog, NEW m, IsOther(m), Send(m)
  PROVE  IInv'
  <1> PICK c \in Conn : wire' = [wire EXCEPT ![c] = m]
    BY DEF Send
  <1>1. WireFormed'
    BY DEF WireFormed, IInv, Formed
  <1>2. \A d \in Conn : wire'[d] = wire[d] \/ ~Decides(wire[d])'
    BY DEF IInv, WireFormed, Decides, IsLatest, IsOther
  <1> QED
    BY <1>1, <1>2, Elsewhere

LEMMA SendCountStep ==
  ASSUME IInv, UNCHANGED dialog, NEW e, NEW count, SendCount(e, count)
  PROVE  IInv'
  <1> DEFINE m == [op |-> "count", id |-> e, count |-> count, done |-> FALSE, here |-> TRUE]
  <1>1. IsOther(m)
    BY DEF IsOther, HasFields
  <1>2. Send(m)
    BY DEF SendCount
  <1> QED
    BY <1>1, <1>2, SendStep

LEMMA UserStep ==
  ASSUME IInv, SelectCard \/ ChangeCount \/ RemoveCard
  PROVE  IInv'
  <1>1. CASE SelectCard
    <2> DEFINE m(card) ==
          [op |-> "add", id |-> None, card |-> card, done |-> FALSE, here |-> TRUE]
    <2>1. UNCHANGED dialog
      BY <1>1 DEF SelectCard, shown
    <2>2. (\E e, count : SendCount(e, count)) \/ \E card : Send(m(card))
      BY <1>1, Zenon DEF SelectCard
    <2>3. \A card : IsOther(m(card))
      BY DEF IsOther, HasFields
    <2> HIDE DEF m
    <2> QED
      BY <2>1, <2>2, <2>3, SendCountStep, SendStep
  <1>2. CASE ChangeCount
    <2>1. UNCHANGED dialog
      BY <1>2 DEF ChangeCount, shown
    <2>2. \E e, count : SendCount(e, count)
      BY <1>2, Zenon DEF ChangeCount
    <2> QED
      BY <2>1, <2>2, SendCountStep
  <1>3. CASE RemoveCard
    <2> DEFINE m(e) == [op |-> "delete", id |-> e, done |-> FALSE, here |-> TRUE]
    <2>1. UNCHANGED dialog
      BY <1>3 DEF RemoveCard, shown
    <2>2. \E e : Send(m(e))
      BY <1>3, Zenon DEF RemoveCard
    <2>3. \A e : IsOther(m(e))
      BY DEF IsOther, HasFields
    <2> HIDE DEF m
    <2> QED
      BY <2>1, <2>2, <2>3, SendStep
  <1> QED
    BY <1>1, <1>2, <1>3

\* The dialog closes with its view or its page, and then no pick is the latest.
LEMMA CloseStep ==
  ASSUME IInv, Leave \/ ToggleView \/ CloseDialog
  PROVE  IInv'
  <1>1. \A c \in Conn : Formed(wire[c])
    BY DEF IInv, WireFormed
  <1>2. /\ dialog' = Closed
        /\ \/ wire' = [c \in Conn |-> Orphan(wire[c])]
           \/ wire' = [c \in Conn |-> NoLatest(wire[c])]
    BY DEF Leave, ToggleView, CloseDialog
  <1>3. WireFormed' /\ \A c \in Conn : ~Decides(wire[c])'
    <2>1. CASE wire' = [c \in Conn |-> Orphan(wire[c])]
      BY <1>1, <2>1, NoLatestForms DEF WireFormed, Formed, Decides, IsLatest
    <2>2. CASE wire' = [c \in Conn |-> NoLatest(wire[c])]
      BY <1>1, <2>2, NoLatestForms DEF WireFormed, Formed, Decides, IsLatest
    <2> QED
      BY <1>2, <2>1, <2>2
  <1>4. dialog' = DialogOf(None, None, "closed", {}) /\ dialog'.state = "closed"
    BY <1>2 DEF Closed, DialogOf
  <1> QED
    BY <1>3, <1>4 DEF IInv, DialogFormed, LatestIsShown, OneLatest, SavedMeansSaved

LEMMA OpenStep ==
  ASSUME IInv, OpenDialog
  PROVE  IInv'
  <1> PICK e : dialog' = DialogOf(e, imageMap[CardOf[e]], "idle", {})
    BY DEF OpenDialog, DialogOf
  <1>1. dialog.state = "closed" /\ wire' = wire
    BY DEF OpenDialog, IsOpen
  <1>2. \A c \in Conn : ~Decides(wire[c])
    BY <1>1 DEF IInv, LatestIsShown
  <1>3. dialog'.state = "idle"
    BY DEF DialogOf
  <1>4. WireFormed' /\ \A c \in Conn : ~Decides(wire[c])'
    BY <1>1, <1>2 DEF IInv, WireFormed, Decides, IsLatest
  <1> QED
    BY <1>3, <1>4 DEF IInv, DialogFormed, LatestIsShown, OneLatest, SavedMeansSaved

LEMMA PickStep ==
  ASSUME IInv, PickArt
  PROVE  IInv'
  <1> DEFINE e == dialog.id
  <1> PICK art \in Art \ {dialog.active}, c \in Conn :
        /\ wire' = [d \in Conn |->
             IF d = c THEN [op |-> "art", id |-> e, art |-> art, done |-> FALSE, here |-> TRUE,
                            previous |-> imageMap[CardOf[e]], was |-> dialog.active,
                            latest |-> TRUE]
             ELSE NoLatest(wire[d])]
        /\ dialog' = [dialog EXCEPT !.active = art, !.state = "saving"]
    BY DEF PickArt
  <1>1. \A d \in Conn : Formed(wire[d])
    BY DEF IInv, WireFormed
  <1>2. \E wrote : dialog' = DialogOf(e, art, "saving", wrote)
    BY DEF IInv, DialogFormed, DialogOf
  <1>3. dialog'.id = e /\ dialog'.active = art /\ dialog'.state = "saving"
    BY <1>2 DEF DialogOf
  <1>4. IsPick(wire'[c]) /\ wire'[c].id = e /\ wire'[c].art = art /\ wire'[c].done = FALSE
    <2>1. wire'[c] = [op |-> "art", id |-> e, art |-> art, done |-> FALSE, here |-> TRUE,
                      previous |-> imageMap[CardOf[e]], was |-> dialog.active, latest |-> TRUE]
      OBVIOUS
    <2> QED
      BY <2>1 DEF IsPick, HasFields
  <1>5. \A d \in Conn \ {c} : Formed(wire'[d]) /\ ~Decides(wire'[d])
    BY <1>1, NoLatestForms
  <1>6. WireFormed'
    BY <1>4, <1>5 DEF WireFormed, Formed
  <1>7. \A d \in Conn : Decides(wire[d])' => d = c
    BY <1>5 DEF Decides, IsLatest
  <1> QED
    BY <1>2, <1>3, <1>4, <1>6, <1>7
       DEF IInv, DialogFormed, LatestIsShown, OneLatest, SavedMeansSaved

\* The server carries a request out: of the entry the dialog is open for, it saves a picture.
LEMMA CarryStep ==
  ASSUME IInv, NEW c \in Conn, Carry(c)
  PROVE  IInv'
  <1> DEFINE m == wire[c]
  <1>1. m # None /\ Formed(m) /\ wire = [d \in Conn |-> wire[d]]
    BY DEF Carry, IInv, WireFormed
  <1>2. PICK e : /\ AnswerOn(c, e)
                 /\ m.op = "art" => e = m.id
    BY DEF Carry
  <1>3. PICK id, active, state, wrote : dialog = DialogOf(id, active, state, wrote)
    BY DEF IInv, DialogFormed
  <1>4. \E more : /\ dialog' = DialogOf(id, active, state, wrote \cup more)
                  /\ m.op = "art" /\ IsOpen /\ id = m.id => more = {m.art}
    <2>1. CASE m.op = "art" /\ IsOpen /\ dialog.id = m.id
      <3>1. dialog' = [dialog EXCEPT !.wrote = @ \cup {m.art}]
        BY <2>1 DEF Carry
      <3>2. dialog' = DialogOf(id, active, state, wrote \cup {m.art})
        BY <1>3, <3>1 DEF DialogOf
      <3> QED
        BY <3>2
    <2>2. CASE ~(m.op = "art" /\ IsOpen /\ dialog.id = m.id)
      <3>1. dialog' = dialog /\ dialog.id = id
        BY <1>3, <2>2 DEF Carry, DialogOf
      <3>2. dialog' = DialogOf(id, active, state, wrote \cup {})
        BY <1>3, <3>1
      <3> QED
        BY <2>2, <3>1, <3>2
    <2> QED
      BY <2>1, <2>2
  <1>5. /\ dialog'.id = dialog.id /\ dialog'.active = dialog.active
        /\ dialog'.state = dialog.state /\ dialog.wrote \subseteq dialog'.wrote
        /\ m.op = "art" /\ IsOpen /\ dialog.id = m.id => m.art \in dialog'.wrote
    BY <1>3, <1>4 DEF DialogOf
  <1>6. DialogFormed' /\ SavedMeansSaved'
    BY <1>4, <1>5 DEF IInv, DialogFormed, SavedMeansSaved
  <1>7. CASE wire' = [wire EXCEPT ![c].id = e, ![c].done = TRUE]
    <2>1. wire'[c] = Done(m, e)
      BY <1>1, <1>7 DEF Done
    <2>2. /\ Formed(wire'[c])
          /\ Decides(wire'[c]) => /\ IsLatest(m) /\ wire'[c].id = m.id
                                  /\ wire'[c].art = m.art
      <3>1. Formed(Done(m, e)) /\ (IsLatest(Done(m, e)) =>
              IsLatest(m) /\ Done(m, e).id = e /\ Done(m, e).art = m.art)
        BY <1>1, DoneForms
      <3> QED
        BY <1>2, <2>1, <3>1 DEF Decides, IsLatest
    <2>3. wire' = [d \in Conn |-> wire'[d]] /\ \A d \in Conn \ {c} : wire'[d] = wire[d]
      BY <1>1, <1>7
    <2>4. WireFormed'
      BY <2>2, <2>3 DEF WireFormed, IInv, Formed
    <2>5. \A d \in Conn : Decides(wire[d])' => Decides(wire[d])
      BY <1>1, <2>2, <2>3 DEF Decides, IsLatest
    <2>6. OneLatest'
      BY <2>5 DEF IInv, OneLatest
    <2>7. LatestIsShown'
      <3> SUFFICES ASSUME NEW d \in Conn, Decides(wire[d])'
                   PROVE  /\ dialog'.state = "saving" /\ dialog'.id = wire'[d].id
                          /\ dialog'.active = wire'[d].art
                          /\ wire'[d].done => wire'[d].art \in dialog'.wrote
        BY DEF LatestIsShown
      <3>1. /\ dialog.state = "saving" /\ dialog.id = wire[d].id /\ dialog.active = wire[d].art
            /\ wire[d].done => wire[d].art \in dialog.wrote
        BY <2>5 DEF IInv, LatestIsShown
      <3>2. CASE d = c
        <4>1. wire'[c].id = m.id /\ wire'[c].art = m.art /\ m.op = "art"
          BY <2>2, <3>2 DEF Decides, IsLatest
        <4> QED
          BY <1>5, <3>1, <3>2, <4>1 DEF IsOpen
      <3>3. CASE d # c
        BY <1>5, <2>3, <3>1, <3>3
      <3> QED
        BY <3>2, <3>3
    <2> QED
      BY <1>6, <2>4, <2>6, <2>7 DEF IInv
  <1>8. CASE Hangup(c)
    <2>1. wire' = [d \in Conn |-> IF d = c THEN None ELSE wire[d]]
      BY <1>1, <1>8 DEF Hangup
    <2>2. WireFormed'
      BY <2>1 DEF WireFormed, IInv, Formed
    <2>3. \A d \in Conn : Decides(wire[d])' => Decides(wire[d]) /\ wire'[d] = wire[d]
      BY <2>1 DEF Decides, IsLatest
    <2>4. OneLatest'
      BY <2>3 DEF IInv, OneLatest
    <2>5. LatestIsShown'
      BY <1>5, <2>3 DEF IInv, LatestIsShown
    <2> QED
      BY <1>6, <2>2, <2>4, <2>5 DEF IInv
  <1> QED
    BY <1>2, <1>7, <1>8 DEF AnswerOn

\* An answer or a failure is heard.  Of the latest pick, the dialog then says so.
LEMMA EndStep ==
  ASSUME IInv, NEW c \in Conn, HearAnswer(c) \/ Fail(c)
  PROVE  IInv'
  <1> DEFINE m == wire[c]
  <1>1. m # None /\ Hangup(c) /\ wire = [d \in Conn |-> wire[d]]
    BY DEF HearAnswer, Fail, IInv, WireFormed
  <1>2. wire' = [d \in Conn |-> IF d = c THEN None ELSE wire[d]]
    BY <1>1 DEF Hangup
  <1>3. WireFormed'
    BY <1>2 DEF WireFormed, IInv, Formed
  <1>4. \A d \in Conn : Decides(wire[d])' => d # c /\ Decides(wire[d]) /\ wire'[d] = wire[d]
    BY <1>2 DEF Decides, IsLatest
  <1>5. CASE dialog' = dialog
    BY <1>3, <1>4, <1>5, Elsewhere DEF IInv, LatestIsShown, OneLatest, DialogFormed, SavedMeansSaved
  <1>6. CASE dialog' # dialog
    <2>1. Decides(m)
      BY <1>1, <1>6 DEF HearAnswer, Fail, Decides
    <2>2. \A d \in Conn : ~Decides(wire[d])'
      BY <1>4, <2>1 DEF IInv, OneLatest
    <2>3. PICK id, active, state, wrote : dialog = DialogOf(id, active, state, wrote)
      BY DEF IInv, DialogFormed
    <2>4. DialogFormed' /\ SavedMeansSaved'
      <3>1. CASE HearAnswer(c)
        <4>1. m.done /\ dialog' = [dialog EXCEPT !.state = "saved"]
          BY <1>6, <3>1 DEF HearAnswer
        <4>2. dialog' = DialogOf(id, active, "saved", wrote)
          BY <2>3, <4>1 DEF DialogOf
        <4>3. dialog.active \in dialog.wrote
          BY <2>1, <4>1 DEF IInv, LatestIsShown
        <4>4. dialog'.active \in dialog'.wrote
          BY <2>3, <4>2, <4>3 DEF DialogOf
        <4> QED
          BY <4>2, <4>4 DEF DialogFormed, SavedMeansSaved
      <3>2. CASE Fail(c)
        <4>1. dialog' = [dialog EXCEPT !.active = m.was, !.state = "error"]
          BY <1>6, <3>2 DEF Fail
        <4>2. dialog' = DialogOf(id, m.was, "error", wrote)
          BY <2>3, <4>1 DEF DialogOf
        <4>3. dialog'.state = "error"
          BY <4>2 DEF DialogOf
        <4> QED
          BY <4>2, <4>3 DEF DialogFormed, SavedMeansSaved
      <3> QED
        BY <3>1, <3>2
    <2> QED
      BY <1>3, <2>2, <2>4 DEF IInv, LatestIsShown, OneLatest
  <1> QED
    BY <1>5, <1>6

LEMMA StepInvariant == IInv /\ [Next]_vars => IInv'
  <1> SUFFICES ASSUME IInv, [Next]_vars PROVE IInv'
    OBVIOUS
  <1>1. ASSUME UNCHANGED <<wire, dialog>> PROVE IInv'
    BY <1>1, Elsewhere DEF IInv, WireFormed, Formed
  <1>2. CASE \/ OpenPage \/ ReadDeck \/ Load \/ ImageArrives \/ CachedElsewhere \/ DropCard
             \/ UNCHANGED vars
    <2>1. UNCHANGED <<wire, dialog>>
      BY <1>2 DEF OpenPage, ReadDeck, Load, ImageArrives, CachedElsewhere, DropCard, vars, shown
    <2> QED
      BY <1>1, <2>1
  <1> QED
    BY <1>2, UserStep, CloseStep, OpenStep, PickStep, CarryStep, EndStep DEF Next

LEMMA Invariance == Spec => []IInv
  BY InitInvariant, StepInvariant, PTL DEF Spec

--------------------------------------------------------------------------------
(***************************************************************************)
(* The theorem about the dialog.                                           *)
(***************************************************************************)

\* The dialog says "Saved" of a picture the server took, and of no other (SavedMeansSaved),
\* whatever picks are under way and however they end (CardImageModal.tsx handlePick,
\* DeckEditorPage.tsx handlePickArt).
THEOREM SavedIsSaved == Spec => []SavedMeansSaved
<1>1. IInv => SavedMeansSaved
  BY DEF IInv
<1> QED
  BY <1>1, Invariance, PTL

--------------------------------------------------------------------------------
(***************************************************************************)
(* Lists: numbers in their order, those of a list that are in a set, and   *)
(* one that takes the place of another.                                    *)
(***************************************************************************)

\* What is in a list.
LEMMA InList ==
  ASSUME NEW ids, NEW x
  PROVE  x \in ToSet(ids) <=> \E i \in DOMAIN ids : ids[i] = x
BY DEF ToSet

\* However many of the numbers a number does not fall short of, no other has as many.
LEMMA AscendingLists ==
  ASSUME NEW S \in SUBSET Nat, IsFiniteSet(S)
  PROVE  /\ Ascending(S) \in [1 .. Cardinality(S) -> S] /\ Cardinality(S) \in Nat
         /\ ToSet(Ascending(S)) = S /\ IsInjective(Ascending(S))
         /\ \A i, j \in 1 .. Cardinality(S) : i < j => Ascending(S)[i] < Ascending(S)[j]
<1> DEFINE n == Cardinality(S)
           upTo(x) == {y \in S : y <= x}
           rank == [x \in S |-> Cardinality(upTo(x))]
<1>1. n \in Nat
  BY FS_CardinalityType
<1>2. ASSUME NEW x \in S
      PROVE  IsFiniteSet(upTo(x)) /\ rank[x] = Cardinality(upTo(x)) /\ rank[x] \in 1 .. n
  <2>1. upTo(x) \in SUBSET S /\ x \in upTo(x)
    OBVIOUS
  <2>2. IsFiniteSet(upTo(x)) /\ Cardinality(upTo(x)) <= n
    BY <2>1, FS_Subset
  <2>3. Cardinality(upTo(x)) \in Nat /\ Cardinality(upTo(x)) # 0
    BY <2>1, <2>2, FS_CardinalityType, FS_EmptySet
  <2> QED
    BY <1>1, <2>2, <2>3
<1>3. ASSUME NEW x \in S, NEW y \in S, x < y
      PROVE  rank[x] < rank[y]
  <2>1. upTo(x) \in SUBSET upTo(y) /\ upTo(x) # upTo(y)
    <3>1. y \in upTo(y) /\ y \notin upTo(x)
      BY <1>3
    <3>2. \A z \in S : z <= x => z <= y
      BY <1>3
    <3>3. upTo(x) \in SUBSET upTo(y)
      BY <3>2
    <3> QED
      BY <3>1, <3>3
  <2>2. Cardinality(upTo(x)) <= Cardinality(upTo(y)) /\ Cardinality(upTo(x)) # Cardinality(upTo(y))
    BY <1>2, <2>1, FS_Subset
  <2> QED
    BY <1>2, <2>2
<1> HIDE DEF rank, n, upTo
<1>4. \A x, y \in S : rank[x] = rank[y] => x = y
  <2> SUFFICES ASSUME NEW x \in S, NEW y \in S, rank[x] = rank[y], x # y
               PROVE  FALSE
    OBVIOUS
  <2>1. x < y \/ y < x
    OBVIOUS
  <2> QED
    BY <1>2, <1>3, <2>1
<1>5. rank \in Injection(S, 1 .. n)
  BY <1>2, <1>4 DEF Injection, IsInjective, rank
<1>6. IsFiniteSet(1 .. n) /\ Cardinality(1 .. n) = n
  BY <1>1, FS_Interval
<1>7. rank \in Surjection(S, 1 .. n)
  BY <1>5, <1>6, FS_Injection DEF n
<1>8. ASSUME NEW i \in 1 .. n
      PROVE  Ascending(S)[i] \in S /\ rank[Ascending(S)[i]] = i
  <2>1. \E x \in S : rank[x] = i
    BY <1>7 DEF Surjection
  <2>2. \A x \in S : rank[x] = Cardinality({y \in S : y <= x})
    BY <1>2 DEF upTo
  <2>3. Ascending(S)[i] = CHOOSE x \in S : Cardinality({y \in S : y <= x}) = i
    BY DEF Ascending, n
  <2> QED
    BY <2>1, <2>2, <2>3
<1>9. Ascending(S) \in [1 .. n -> S]
  BY <1>8 DEF Ascending, n
<1>10. IsInjective(Ascending(S))
  BY <1>8, <1>9 DEF IsInjective
<1>11. ToSet(Ascending(S)) = S
  <2>1. \A x \in S : Ascending(S)[rank[x]] = x
    BY <1>2, <1>4, <1>8
  <2> QED
    BY <1>2, <1>9, <2>1 DEF ToSet
<1>12. \A i, j \in 1 .. n : i < j => Ascending(S)[i] < Ascending(S)[j]
  <2> SUFFICES ASSUME NEW i \in 1 .. n, NEW j \in 1 .. n, i < j
               PROVE  Ascending(S)[i] < Ascending(S)[j]
    OBVIOUS
  <2>1. PICK x, y \in S : x = Ascending(S)[i] /\ y = Ascending(S)[j] /\ rank[x] = i /\ rank[y] = j
    BY <1>8
  <2>2. ~(y < x) /\ x # y
    BY <1>3, <2>1
  <2> QED
    BY <2>1, <2>2
<1> QED
  BY <1>1, <1>9, <1>10, <1>11, <1>12 DEF n

\* What is filtered are the elements that are in the set, each as often as it was.
LEMMA FilteredLists ==
  ASSUME NEW T, NEW ids \in Seq(T), NEW S
  PROVE  /\ Filtered(ids, S) \in Seq(T) /\ ToSet(Filtered(ids, S)) = ToSet(ids) \cap S
         /\ IsInjective(ids) => IsInjective(Filtered(ids, S))
<1> DEFINE places == {i \in DOMAIN ids : ids[i] \in S}
           at == Ascending(places)
<1>1. ids \in [1 .. Len(ids) -> T] /\ Len(ids) \in Nat /\ DOMAIN ids = 1 .. Len(ids)
  BY LenProperties
<1>2. places \in SUBSET Nat /\ IsFiniteSet(places)
  <2>1. places \in SUBSET (1 .. Len(ids)) /\ IsFiniteSet(1 .. Len(ids))
    BY <1>1, FS_Interval
  <2> QED
    BY <2>1, FS_Subset
<1>3. PICK n \in Nat : /\ at \in [1 .. n -> places] /\ ToSet(at) = places /\ IsInjective(at)
                       /\ n = Cardinality(places)
  BY <1>2, AscendingLists
<1>4. Filtered(ids, S) = [i \in 1 .. n |-> ids[at[i]]]
  BY <1>3 DEF Filtered
<1>5. /\ \A i \in 1 .. n : at[i] \in DOMAIN ids /\ ids[at[i]] \in S
      /\ \A p \in DOMAIN ids : ids[p] \in S => \E i \in 1 .. n : at[i] = p
      /\ \A i, j \in 1 .. n : at[i] = at[j] => i = j
  BY <1>3 DEF ToSet, IsInjective
<1> HIDE DEF at, places
<1>6. Filtered(ids, S) \in Seq(T)
  BY <1>1, <1>4, <1>5
<1>7. ToSet(Filtered(ids, S)) = ToSet(ids) \cap S
  <2>1. DOMAIN Filtered(ids, S) = 1 .. n /\ \A i \in 1 .. n : Filtered(ids, S)[i] = ids[at[i]]
    BY <1>4
  <2>2. ASSUME NEW x
        PROVE  x \in ToSet(Filtered(ids, S)) <=> x \in ToSet(ids) /\ x \in S
    <3>1. (\E i \in 1 .. n : Filtered(ids, S)[i] = x) <=> \E p \in DOMAIN ids : ids[p] = x /\ x \in S
      BY <1>5, <2>1
    <3> QED
      BY <2>1, <3>1, InList
  <2> QED
    BY <2>2
<1>8. IsInjective(ids) => IsInjective(Filtered(ids, S))
  BY <1>4, <1>5 DEF IsInjective
<1> QED
  BY <1>6, <1>7, <1>8

\* The cards of a list that are some card, if it has any.
LEMMA FirstOfCard ==
  ASSUME NEW ids \in Seq(Entry), NEW e \in ToSet(ids)
  PROVE  /\ OfCard(ids, CardOf[e]) # <<>>
         /\ OfCard(ids, CardOf[e])[1] \in ToSet(ids)
         /\ CardOf[OfCard(ids, CardOf[e])[1]] = CardOf[e]
<1> DEFINE own == OfCard(ids, CardOf[e])
<1>1. own \in Seq(Entry) /\ ToSet(own) = ToSet(ids) \cap {x \in Entry : CardOf[x] = CardOf[e]}
  BY FilteredLists DEF OfCard
<1>2. e \in Entry
  BY ElementOfSeq, LenProperties DEF ToSet
<1>3. e \in ToSet(own)
  BY <1>1, <1>2
<1> HIDE DEF own
<1>4. own # <<>> /\ 1 \in DOMAIN own
  <2>1. PICK i \in DOMAIN own : own[i] = e
    BY <1>3 DEF ToSet
  <2>2. Len(own) \in Nat /\ DOMAIN own = 1 .. Len(own)
    BY <1>1, LenProperties
  <2> QED
    BY <2>1, <2>2
<1>5. own[1] \in ToSet(own)
  BY <1>4 DEF ToSet
<1> QED
  BY <1>1, <1>4, <1>5 DEF own

\* A list without repetitions is as long as it has elements.
LEMMA LengthOfList ==
  ASSUME NEW T, NEW ids \in Seq(T), IsInjective(ids)
  PROVE  Len(ids) = Cardinality(ToSet(ids))
<1>1. Len(ids) \in Nat /\ DOMAIN ids = 1 .. Len(ids) /\ ids \in [1 .. Len(ids) -> T]
  BY LenProperties
<1>2. ids \in Bijection(1 .. Len(ids), ToSet(ids))
  BY <1>1 DEF Bijection, Injection, Surjection, IsInjective, ToSet
<1>3. ExistsBijection(1 .. Len(ids), ToSet(ids))
  BY <1>2 DEF ExistsBijection
<1> QED
  BY <1>1, <1>3, FS_CountingElements

\* Lists with nothing in common, one after the other.
LEMMA JoinedLists ==
  ASSUME NEW T, NEW one \in Seq(T), NEW two \in Seq(T)
  PROVE  /\ one \o two \in Seq(T) /\ ToSet(one \o two) = ToSet(one) \cup ToSet(two)
         /\ IsInjective(one) /\ IsInjective(two) /\ ToSet(one) \cap ToSet(two) = {} =>
              IsInjective(one \o two)
<1> DEFINE m == Len(one)
           n == Len(two)
           both == one \o two
<1>1. /\ m \in Nat /\ DOMAIN one = 1 .. m
      /\ n \in Nat /\ DOMAIN two = 1 .. n
  BY LenProperties
<1>2. /\ both \in Seq(T) /\ Len(both) = m + n
      /\ \A i \in 1 .. m + n : both[i] = IF i <= m THEN one[i] ELSE two[i - m]
  BY ConcatProperties
<1>3. DOMAIN both = 1 .. m + n
  BY <1>2, LenProperties
<1> HIDE DEF m, n, both
<1>6. /\ \A i \in 1 .. m : i \in 1 .. m + n /\ both[i] = one[i]
      /\ \A i \in 1 .. n : i + m \in 1 .. m + n /\ both[i + m] = two[i]
      /\ \A i \in 1 .. m + n : i \in DOMAIN one \/ (i - m \in DOMAIN two /\ i = (i - m) + m)
  <2>1. ASSUME NEW i \in 1 .. n
        PROVE  i + m \in 1 .. m + n /\ both[i + m] = two[i]
    <3>1. i + m \in 1 .. m + n /\ ~(i + m <= m) /\ (i + m) - m = i
      BY <1>1
    <3> QED
      BY <1>2, <3>1
  <2> QED
    BY <1>1, <1>2, <2>1
<1>4. ToSet(both) = ToSet(one) \cup ToSet(two)
  <2>1. ASSUME NEW i \in 1 .. m + n
        PROVE  both[i] \in ToSet(one) \cup ToSet(two)
    <3>1. CASE i \in DOMAIN one
      BY <1>1, <1>6, <3>1, InList
    <3>2. CASE i - m \in DOMAIN two /\ i = (i - m) + m
      <4>1. both[i] = two[i - m]
        BY <1>1, <1>6, <3>2
      <4> QED
        BY <3>2, <4>1, InList
    <3> QED
      BY <1>6, <3>1, <3>2
  <2>2. ASSUME NEW x, x \in ToSet(one) \/ x \in ToSet(two)
        PROVE  x \in ToSet(both)
    <3>1. (\E i \in 1 .. m : one[i] = x) \/ \E i \in 1 .. n : two[i] = x
      BY <1>1, <2>2, InList
    <3>2. \E i \in 1 .. m + n : both[i] = x
      BY <1>6, <3>1
    <3> QED
      BY <1>3, <3>2, InList
  <2>3. ASSUME NEW x \in ToSet(both)
        PROVE  x \in ToSet(one) \cup ToSet(two)
    BY <1>3, <2>1, <2>3, InList
  <2> QED
    BY <2>2, <2>3
<1>5. ASSUME IsInjective(one), IsInjective(two), ToSet(one) \cap ToSet(two) = {}
      PROVE  IsInjective(both)
  <2>1. ASSUME NEW i \in 1 .. m + n, NEW j \in 1 .. m + n, both[i] = both[j]
        PROVE  i = j
    <3>1. \A p \in DOMAIN one, q \in DOMAIN two : one[p] # two[q]
      <4>1. \A p \in DOMAIN one : one[p] \in ToSet(one)
        BY InList
      <4>2. \A q \in DOMAIN two : two[q] \in ToSet(two)
        BY InList
      <4> QED
        BY <1>5, <4>1, <4>2
    <3>2. CASE i \in DOMAIN one
      <4>1. both[i] = one[i]
        BY <1>1, <1>6, <3>2
      <4>2. j \in DOMAIN one
        <5> SUFFICES ASSUME j \notin DOMAIN one PROVE FALSE
          OBVIOUS
        <5>1. j - m \in DOMAIN two /\ both[j] = two[j - m]
          BY <1>1, <1>6
        <5> QED
          BY <2>1, <3>1, <3>2, <4>1, <5>1
      <4>3. both[j] = one[j]
        BY <1>1, <1>6, <4>2
      <4> QED
        BY <1>5, <2>1, <3>2, <4>1, <4>2, <4>3 DEF IsInjective
    <3>3. CASE i \notin DOMAIN one
      <4>1. i - m \in DOMAIN two /\ both[i] = two[i - m]
        BY <1>1, <1>6, <3>3
      <4>2. j - m \in DOMAIN two /\ both[j] = two[j - m]
        BY <1>1, <1>6, <2>1, <3>1, <4>1
      <4>3. i - m = j - m
        BY <1>5, <2>1, <4>1, <4>2 DEF IsInjective
      <4> QED
        BY <1>1, <4>3
    <3> QED
      BY <3>2, <3>3
  <2> QED
    BY <1>3, <2>1 DEF IsInjective
<1> QED
  BY <1>2, <1>4, <1>5 DEF both

\* A part of a list without repetitions.
LEMMA PartsOfLists ==
  ASSUME NEW T, NEW ids \in Seq(T), IsInjective(ids),
         NEW m \in 1 .. Len(ids) + 1, NEW n \in 0 .. Len(ids)
  PROVE  /\ SubSeq(ids, m, n) \in Seq(T) /\ IsInjective(SubSeq(ids, m, n))
         /\ Len(SubSeq(ids, m, n)) = IF m <= n THEN n - m + 1 ELSE 0
         /\ \A x : x \in ToSet(SubSeq(ids, m, n)) <=> \E i \in m .. n : ids[i] = x
<1> DEFINE part == SubSeq(ids, m, n)
           l == IF m <= n THEN n - m + 1 ELSE 0
<1>1. Len(ids) \in Nat /\ DOMAIN ids = 1 .. Len(ids) /\ ids \in [1 .. Len(ids) -> T]
  BY LenProperties
<1>2. /\ part \in Seq(T) /\ Len(part) = l
      /\ \A i \in 1 .. n - m + 1 : part[i] = ids[m + i - 1]
  <2>1. m \in Int /\ n \in Int /\ \A i \in m .. n : ids[i] \in T
    BY <1>1
  <2> QED
    BY <2>1, SubSeqProperties
<1>3. l \in Nat /\ DOMAIN part = 1 .. l
  <2>1. l \in Nat
    BY <1>1
  <2> QED
    BY <1>2, <2>1, LenProperties
<1> HIDE DEF part
<1>4. \A i \in 1 .. l : m + i - 1 \in m .. n /\ m + i - 1 \in 1 .. Len(ids) /\ part[i] = ids[m + i - 1]
  BY <1>1, <1>2
<1>5. \A i \in m .. n : i - m + 1 \in 1 .. l /\ m + (i - m + 1) - 1 = i
  BY <1>1
<1> HIDE DEF l
<1>6. IsInjective(part)
  <2>1. ASSUME NEW i \in 1 .. l, NEW j \in 1 .. l, part[i] = part[j]
        PROVE  i = j
    <3>1. m + i - 1 = m + j - 1
      BY <1>1, <1>4, <2>1 DEF IsInjective
    <3> QED
      BY <1>3, <3>1
  <2> QED
    BY <1>3, <2>1 DEF IsInjective
<1>7. ASSUME NEW x
      PROVE  x \in ToSet(part) <=> \E i \in m .. n : ids[i] = x
  <2>1. ASSUME NEW i \in m .. n, ids[i] = x
        PROVE  \E j \in 1 .. l : part[j] = x
    BY <1>4, <1>5, <2>1
  <2>2. ASSUME NEW j \in 1 .. l, part[j] = x
        PROVE  \E i \in m .. n : ids[i] = x
    BY <1>4, <2>2
  <2> QED
    BY <1>3, <2>1, <2>2, InList
<1> QED
  BY <1>2, <1>6, <1>7 DEF part, l

\* A list of one.
LEMMA ListOfOne ==
  ASSUME NEW T, NEW e \in T
  PROVE  <<e>> \in Seq(T) /\ ToSet(<<e>>) = {e} /\ IsInjective(<<e>>)
<1>1. <<e>> \in Seq(T) /\ DOMAIN <<e>> = {1} /\ <<e>>[1] = e
  OBVIOUS
<1>2. IsInjective(<<e>>)
  BY <1>1 DEF IsInjective
<1>3. \A x : x \in ToSet(<<e>>) <=> x = e
  BY <1>1, InList
<1> QED
  BY <1>1, <1>2, <1>3

\* One more, at the end.
LEMMA LongerLists ==
  ASSUME NEW T, NEW ids \in Seq(T), IsInjective(ids), NEW e \in T, e \notin ToSet(ids)
  PROVE  /\ Append(ids, e) \in Seq(T) /\ IsInjective(Append(ids, e))
         /\ ToSet(Append(ids, e)) = ToSet(ids) \cup {e}
<1>1. Append(ids, e) = ids \o <<e>>
  BY AppendIsConcat
<1>2. <<e>> \in Seq(T) /\ ToSet(<<e>>) = {e} /\ IsInjective(<<e>>)
  BY ListOfOne
<1> DEFINE last == <<e>>
<1> HIDE DEF last
<1>3. last \in Seq(T) /\ ToSet(last) = {e} /\ IsInjective(last) /\ Append(ids, e) = ids \o last
  BY <1>1, <1>2 DEF last
<1> QED
  BY <1>3, JoinedLists

\* One is taken out.
LEMMA ShorterLists ==
  ASSUME NEW T, NEW ids \in Seq(T), IsInjective(ids), NEW i \in 1 .. Len(ids)
  PROVE  /\ RemoveAt(ids, i) \in Seq(T) /\ IsInjective(RemoveAt(ids, i))
         /\ ToSet(RemoveAt(ids, i)) = ToSet(ids) \ {ids[i]}
         /\ Len(RemoveAt(ids, i)) = Len(ids) - 1
<1> DEFINE l == Len(ids)
           before == SubSeq(ids, 1, i - 1)
           behind == SubSeq(ids, i + 1, l)
<1>1. l \in Nat /\ DOMAIN ids = 1 .. l
  BY LenProperties
<1>2. 1 \in 1 .. l + 1 /\ i - 1 \in 0 .. l /\ i + 1 \in 1 .. l + 1 /\ l \in 0 .. l
  BY <1>1
<1>3. /\ before \in Seq(T) /\ IsInjective(before)
      /\ Len(before) = IF 1 <= i - 1 THEN i - 1 - 1 + 1 ELSE 0
      /\ \A x : x \in ToSet(before) <=> \E j \in 1 .. i - 1 : ids[j] = x
  BY <1>2, PartsOfLists
<1>4. /\ behind \in Seq(T) /\ IsInjective(behind)
      /\ Len(behind) = IF i + 1 <= l THEN l - (i + 1) + 1 ELSE 0
      /\ \A x : x \in ToSet(behind) <=> \E j \in i + 1 .. l : ids[j] = x
  BY <1>2, PartsOfLists
<1>5. RemoveAt(ids, i) = before \o behind
  BY DEF RemoveAt
<1> HIDE DEF before, behind, l
<1>6. \A x : ~(x \in ToSet(before) /\ x \in ToSet(behind))
  <2>1. \A j \in 1 .. i - 1, k \in i + 1 .. l : ids[j] # ids[k]
    BY <1>1, <1>2 DEF IsInjective
  <2> QED
    BY <1>3, <1>4, <2>1
<1>7. \A x : x \in ToSet(before) \/ x \in ToSet(behind) <=> x \in ToSet(ids) /\ x # ids[i]
  <2>1. ASSUME NEW x
        PROVE  (\E j \in 1 .. i - 1 : ids[j] = x) \/ (\E k \in i + 1 .. l : ids[k] = x)
                 <=> \E j \in 1 .. l : ids[j] = x /\ x # ids[i]
    <3>1. \A j \in 1 .. l : j # i => j \in 1 .. i - 1 \/ j \in i + 1 .. l
      BY <1>1
    <3>2. \A j : j \in 1 .. i - 1 \/ j \in i + 1 .. l => j \in 1 .. l /\ j # i
      BY <1>1, <1>2
    <3>3. \A j \in 1 .. l : ids[j] = ids[i] => j = i
      BY <1>1, <1>2 DEF IsInjective, l
    <3> QED
      BY <3>1, <3>2, <3>3
  <2> QED
    BY <1>1, <1>3, <1>4, <2>1, InList
<1>8. /\ before \o behind \in Seq(T) /\ ToSet(before \o behind) = ToSet(before) \cup ToSet(behind)
      /\ IsInjective(before \o behind)
  BY <1>3, <1>4, <1>6, JoinedLists
<1>9. Len(before \o behind) = l - 1
  <2>1. Len(before \o behind) = Len(before) + Len(behind)
    BY <1>3, <1>4, ConcatProperties
  <2> QED
    BY <1>1, <1>2, <1>3, <1>4, <2>1
<1> QED
  BY <1>5, <1>7, <1>8, <1>9 DEF l

\* One is put in.
LEMMA FilledLists ==
  ASSUME NEW T, NEW ids \in Seq(T), IsInjective(ids), NEW i \in 1 .. Len(ids) + 1,
         NEW e \in T, e \notin ToSet(ids)
  PROVE  /\ InsertAt(ids, i, e) \in Seq(T) /\ IsInjective(InsertAt(ids, i, e))
         /\ ToSet(InsertAt(ids, i, e)) = ToSet(ids) \cup {e}
<1> DEFINE l == Len(ids)
           before == SubSeq(ids, 1, i - 1)
           behind == SubSeq(ids, i, l)
<1>1. l \in Nat /\ DOMAIN ids = 1 .. l
  BY LenProperties
<1>2. 1 \in 1 .. l + 1 /\ i - 1 \in 0 .. l /\ i \in 1 .. l + 1 /\ l \in 0 .. l
  BY <1>1
<1>3. /\ before \in Seq(T) /\ IsInjective(before)
      /\ \A x : x \in ToSet(before) <=> \E j \in 1 .. i - 1 : ids[j] = x
  BY <1>2, PartsOfLists
<1>4. /\ behind \in Seq(T) /\ IsInjective(behind)
      /\ \A x : x \in ToSet(behind) <=> \E j \in i .. l : ids[j] = x
  BY <1>2, PartsOfLists
<1> DEFINE one == <<e>>
<1>5. InsertAt(ids, i, e) = (before \o one) \o behind
  BY DEF InsertAt
<1>10. one \in Seq(T) /\ ToSet(one) = {e} /\ IsInjective(one)
  BY ListOfOne
<1> HIDE DEF before, behind, l, one
<1>6. \A x : ~(x \in ToSet(before) /\ x \in ToSet(behind))
  <2>1. \A j \in 1 .. i - 1, k \in i .. l : ids[j] # ids[k]
    BY <1>1, <1>2 DEF IsInjective
  <2> QED
    BY <1>3, <1>4, <2>1
<1>7. \A x : x \in ToSet(before) \/ x \in ToSet(behind) <=> x \in ToSet(ids)
  <2>1. \A j : j \in 1 .. l <=> j \in 1 .. i - 1 \/ j \in i .. l
    BY <1>1, <1>2
  <2> QED
    BY <1>1, <1>3, <1>4, <2>1, InList
<1>8. /\ before \o one \in Seq(T) /\ ToSet(before \o one) = ToSet(before) \cup {e}
      /\ IsInjective(before \o one)
  <2>1. ToSet(before) \cap {e} = {}
    BY <1>7
  <2> QED
    BY <1>3, <1>10, <2>1, JoinedLists
<1>9. ToSet(before \o one) \cap ToSet(behind) = {}
  BY <1>6, <1>7, <1>8
<1>11. /\ InsertAt(ids, i, e) \in Seq(T) /\ IsInjective(InsertAt(ids, i, e))
       /\ ToSet(InsertAt(ids, i, e)) = ToSet(before \o one) \cup ToSet(behind)
  <2> DEFINE first == before \o one
  <2>1. first \in Seq(T) /\ IsInjective(first) /\ ToSet(first) \cap ToSet(behind) = {}
    BY <1>8, <1>9
  <2>2. InsertAt(ids, i, e) = first \o behind /\ ToSet(first) = ToSet(before \o one)
    BY <1>5
  <2> HIDE DEF first
  <2> QED
    BY <1>4, <2>1, <2>2, JoinedLists
<1> QED
  BY <1>7, <1>8, <1>11

\* In its section, a card takes the place of another: all are still there, once.
LEMMA MovedLists ==
  ASSUME NEW T, NEW ids \in Seq(T), IsInjective(ids),
         NEW from \in ToSet(ids), NEW to \in ToSet(ids)
  PROVE  /\ Move(ids, from, to) \in Seq(T) /\ IsInjective(Move(ids, from, to))
         /\ ToSet(Move(ids, from, to)) = ToSet(ids)
<1>1. Len(ids) \in Nat /\ DOMAIN ids = 1 .. Len(ids) /\ ids \in [1 .. Len(ids) -> T]
  BY LenProperties
<1>2. ASSUME NEW e \in ToSet(ids)
      PROVE  IndexOf(ids, e) \in 1 .. Len(ids) /\ ids[IndexOf(ids, e)] = e
  <2>1. \E i \in DOMAIN ids : ids[i] = e
    BY InList
  <2> QED
    BY <1>1, <2>1 DEF IndexOf
<1> DEFINE rest == RemoveAt(ids, IndexOf(ids, from))
<1>3. /\ rest \in Seq(T) /\ IsInjective(rest) /\ ToSet(rest) = ToSet(ids) \ {from}
      /\ Len(rest) = Len(ids) - 1
  BY <1>2, ShorterLists
<1>4. IndexOf(ids, to) \in 1 .. Len(rest) + 1
  BY <1>1, <1>2, <1>3
<1>5. from \in T /\ from \notin ToSet(rest)
  <2>1. from = ids[IndexOf(ids, from)]
    BY <1>2
  <2> QED
    BY <1>1, <1>2, <1>3, <2>1
<1>6. Move(ids, from, to) = InsertAt(rest, IndexOf(ids, to), from)
  BY DEF Move
<1> DEFINE place == IndexOf(ids, to)
<1> HIDE DEF rest, place
<1>7. /\ InsertAt(rest, place, from) \in Seq(T) /\ IsInjective(InsertAt(rest, place, from))
      /\ ToSet(InsertAt(rest, place, from)) = ToSet(rest) \cup {from}
  BY <1>3, <1>4, <1>5, FilledLists DEF place
<1> QED
  BY <1>3, <1>6, <1>7 DEF place

--------------------------------------------------------------------------------
(***************************************************************************)
(* The invariant of the cards.                                             *)
(***************************************************************************)

Shown == {e \in Entry : copy[e] # None}

\* The message asks for op on entry e.
Asks(m, op, e) == m # None /\ m.op = op /\ m.id = e

\* The server has done what it asks for, and the page will hear.
Tells(m, op, e) == Asks(m, op, e) /\ m.done /\ m.here

\* The message is a pick of this page of card k.
PickOf(m, k) == m # None /\ m.op = "art" /\ m.here /\ CardOf[m.id] = k

\* Entries that were never given are nowhere.
BornOK ==
  /\ \A e \in Entry : rows[e] # None \/ copy[e] # None \/ answer[e] # None => e \in born
  /\ \A c \in Conn : wire[c] # None /\ wire[c].id # None => wire[c].id \in born
  /\ IsOpen => dialog.id \in born

\* What goes with the page is there with it only.
PageOK ==
  /\ page # "editor" =>
       /\ copy = Nothing /\ imageMap = NoImages /\ fetched = {}
       /\ ~IsOpen /\ \A f \in fetches : ~f.here
  /\ \A c \in Conn : wire[c] # None /\ wire[c].here => page = "editor"
  /\ page = "editor" => \A e \in Shown : CardOf[e] \in fetched
  /\ IsOpen => CardOf[dialog.id] \in fetched

\* The page's entries and the gallery's are the same, each in one place.
OrderOK ==
  /\ ToSet(entries) = Shown /\ IsInjective(entries)
  /\ ToSet(order) = Shown /\ IsInjective(order)

\* What is known of an entry that was added or deleted, while the answer is on its way.
AddFits(c) ==
  wire[c] # None /\ wire[c].op = "add" =>
    IF wire[c].done
    THEN /\ wire[c].here /\ wire[c].id # None
         /\ copy[wire[c].id] = None /\ rows[wire[c].id] = [count |-> 1, art |-> None]
         /\ IsOpen => dialog.id # wire[c].id
         /\ \A d \in Conn \ {c} : wire[d] # None => wire[d].id # wire[c].id
    ELSE wire[c].id = None

DeleteFits(c) ==
  wire[c] # None /\ wire[c].op = "delete" /\ wire[c].done => rows[wire[c].id] = None

DialogFits == IsOpen /\ rows[dialog.id] # None => copy[dialog.id] # None

\* Page and server agree on e but for an answer on its way.
Follows(e) ==
  /\ rows[e] # None /\ copy[e] = None => \E c \in Conn : Tells(wire[c], "add", e)
  /\ rows[e] = None /\ copy[e] # None => \E c \in Conn : Tells(wire[c], "delete", e)
  /\ rows[e] # None /\ copy[e] # None =>
       /\ copy[e].count = rows[e].count \/ \E c \in Conn : Tells(wire[c], "count", e)
       /\ copy[e].art = rows[e].art \/ \E c \in Conn : Tells(wire[c], "art", e)
       /\ \A c \in Conn :
            /\ Tells(wire[c], "count", e) => wire[c].count = rows[e].count
            /\ Tells(wire[c], "art", e) => wire[c].art = rows[e].art

\* Of one kind there is one change of e under way.
OneChange(e) ==
  \A op \in {"count", "art"}, c, d \in Conn :
    Asks(wire[c], op, e) /\ wire[c].here /\ Asks(wire[d], op, e) /\ wire[d].here => c = d

ServerFits ==
  /\ \A c \in Conn : AddFits(c) /\ DeleteFits(c)
  /\ DialogFits

\* The server's answer to the page is what it has, but for what changed since.
AnswerFits == page = "answered" => \A e \in Entry \ untold : answer[e] = rows[e]

EntriesFollow ==
  page = "editor" => \A e \in Entry \ (untold \cup raced) : Follows(e) /\ OneChange(e)

OnePick(k) == \A c, d \in Conn : PickOf(wire[c], k) /\ PickOf(wire[d], k) => c = d

\* While a pick of card k is under way.
PickFits(m, k) ==
  /\ imageMap[k] = m.art /\ m.previous = due[k]
  /\ k \in fetched /\ \A f \in fetches : f.card = k => ~f.here

PicksFit(k) == \A c \in Conn : PickOf(wire[c], k) => PickFits(wire[c], k)

ImageFits(k) == (\A c \in Conn : ~PickOf(wire[c], k)) => imageMap[k] = due[k]

ArtFits(k) == OnePick(k) /\ PicksFit(k) /\ ImageFits(k)

ArtOK == page = "editor" => \A k \in Card \ mixed : ArtFits(k)

CardsInv ==
  /\ TypeOK
  /\ BornOK
  /\ PageOK
  /\ OrderOK
  /\ ServerFits
  /\ AnswerFits
  /\ EntriesFollow
  /\ ArtOK

--------------------------------------------------------------------------------
(***************************************************************************)
(* Messages and what becomes of them.                                      *)
(***************************************************************************)

\* What a message has, and what it is when it has it.
LEMMA MessageParts ==
  ASSUME NEW m \in Message
  PROVE  /\ m # None /\ m.op \in {"add", "count", "delete", "art"}
         /\ m.done \in BOOLEAN /\ m.here \in BOOLEAN
         /\ m.op = "add" => m.id \in Entry \cup {None} /\ m.card \in Card
         /\ m.op # "add" => m.id \in Entry
         /\ m.op = "count" => m.count \in 1 .. MaxCount
         /\ m.op = "art" => /\ m.art \in Art /\ m.previous \in Image /\ m.was \in Image
                            /\ m.latest \in BOOLEAN
BY NoneIsNoRecord DEF Message

\* The same request, whatever it knows of the dialog.
Alike(m, n) ==
  /\ m = None <=> n = None
  /\ m # None => /\ n.op = m.op /\ n.id = m.id /\ n.done = m.done /\ n.here = m.here
                 /\ m.op = "count" => n.count = m.count
                 /\ m.op = "art" => n.art = m.art /\ n.previous = m.previous

LEMMA NoLatestAlike ==
  ASSUME NEW m \in Message \cup {None}
  PROVE  NoLatest(m) \in Message \cup {None} /\ Alike(m, NoLatest(m))
<1>1. CASE m = None
  BY <1>1 DEF NoLatest, Alike
<1>2. CASE m # None /\ m.op = "art"
  <2>1. NoLatest(m) = [m EXCEPT !.latest = FALSE]
    BY <1>2 DEF NoLatest
  <2>2. m \in [op : {"art"}, id : Entry, art : Art, done : BOOLEAN, here : BOOLEAN,
               previous : Image, was : Image, latest : BOOLEAN]
    BY <1>2 DEF Message
  <2>3. /\ [m EXCEPT !.latest = FALSE] \in
             [op : {"art"}, id : Entry, art : Art, done : BOOLEAN, here : BOOLEAN,
              previous : Image, was : Image, latest : BOOLEAN]
        /\ Alike(m, [m EXCEPT !.latest = FALSE]) \/ [m EXCEPT !.latest = FALSE] = None
    BY <1>2, <2>2 DEF Alike
  <2>4. NoLatest(m) \in Message
    BY <2>1, <2>3 DEF Message
  <2> QED
    BY <2>1, <2>3, <2>4, MessageParts
<1>3. CASE m # None /\ m.op # "art"
  BY <1>3 DEF NoLatest, Alike
<1> QED
  BY <1>1, <1>2, <1>3

\* What is left of a request of a page that is.
LEMMA OrphanIs ==
  ASSUME NEW m \in Message \cup {None}
  PROVE  /\ Orphan(m) \in Message \cup {None}
         /\ Orphan(m) # None =>
              /\ m # None /\ Orphan(m).op = m.op /\ Orphan(m).id = m.id
              /\ Orphan(m).done = m.done /\ Orphan(m).here = FALSE
              /\ m.op # "art" => ~m.done
         /\ m = None => Orphan(m) = None
<1>1. CASE m = None
  BY <1>1 DEF Orphan
<1>2. CASE m # None /\ m.op = "art"
  <2>1. Orphan(m) = [m EXCEPT !.here = FALSE, !.latest = FALSE]
    BY <1>2 DEF Orphan
  <2>2. m \in [op : {"art"}, id : Entry, art : Art, done : BOOLEAN, here : BOOLEAN,
               previous : Image, was : Image, latest : BOOLEAN]
    BY <1>2 DEF Message
  <2>3. /\ Orphan(m) \in [op : {"art"}, id : Entry, art : Art, done : BOOLEAN, here : BOOLEAN,
                          previous : Image, was : Image, latest : BOOLEAN]
        /\ Orphan(m).op = m.op /\ Orphan(m).id = m.id
        /\ Orphan(m).done = m.done /\ Orphan(m).here = FALSE
    BY <2>1, <2>2
  <2> QED
    BY <1>2, <2>3 DEF Message
<1>3. CASE m # None /\ m.op # "art" /\ m.done
  BY <1>3 DEF Orphan
<1>4. CASE m # None /\ m.op # "art" /\ ~m.done
  <2>1. Orphan(m) = [m EXCEPT !.here = FALSE]
    BY <1>4 DEF Orphan
  <2>2. m \in Message
    BY <1>4
  <2>3. /\ [m EXCEPT !.here = FALSE] \in Message
        /\ [m EXCEPT !.here = FALSE].op = m.op /\ [m EXCEPT !.here = FALSE].id = m.id
        /\ [m EXCEPT !.here = FALSE].done = m.done /\ [m EXCEPT !.here = FALSE].here = FALSE
    BY <1>4, <2>2 DEF Message
  <2> QED
    BY <1>4, <2>1, <2>3
<1> QED
  BY <1>1, <1>2, <1>3, <1>4

\* What the server has carried out.
LEMMA DoneIs ==
  ASSUME NEW m \in Message, NEW e \in Entry, m.op # "add" => e = m.id
  PROVE  /\ Done(m, e) \in Message
         /\ Done(m, e).op = m.op /\ Done(m, e).id = e
         /\ Done(m, e).done = TRUE /\ Done(m, e).here = m.here
         /\ m.op = "count" => Done(m, e).count = m.count
         /\ m.op = "art" => Done(m, e).art = m.art /\ Done(m, e).previous = m.previous
<1>1. m.op \in {"add", "count", "delete", "art"}
  BY MessageParts
<1>2. CASE m.op = "add"
  <2>1. m \in [op : {"add"}, id : Entry \cup {None}, card : Card, done : BOOLEAN, here : BOOLEAN]
    BY <1>2 DEF Message
  <2>2. /\ Done(m, e) \in
             [op : {"add"}, id : Entry \cup {None}, card : Card, done : BOOLEAN, here : BOOLEAN]
        /\ Done(m, e).op = m.op /\ Done(m, e).id = e
        /\ Done(m, e).done = TRUE /\ Done(m, e).here = m.here
    BY <2>1 DEF Done
  <2> QED
    BY <1>2, <2>2 DEF Message
<1>3. CASE m.op = "count"
  <2>1. m \in [op : {"count"}, id : Entry, count : 1 .. MaxCount, done : BOOLEAN, here : BOOLEAN]
    BY <1>3 DEF Message
  <2>2. /\ Done(m, e) \in
             [op : {"count"}, id : Entry, count : 1 .. MaxCount, done : BOOLEAN, here : BOOLEAN]
        /\ Done(m, e).op = m.op /\ Done(m, e).id = e
        /\ Done(m, e).done = TRUE /\ Done(m, e).here = m.here /\ Done(m, e).count = m.count
    BY <2>1 DEF Done
  <2> QED
    BY <1>3, <2>2 DEF Message
<1>4. CASE m.op = "delete"
  <2>1. m \in [op : {"delete"}, id : Entry, done : BOOLEAN, here : BOOLEAN]
    BY <1>4 DEF Message
  <2>2. /\ Done(m, e) \in [op : {"delete"}, id : Entry, done : BOOLEAN, here : BOOLEAN]
        /\ Done(m, e).op = m.op /\ Done(m, e).id = e
        /\ Done(m, e).done = TRUE /\ Done(m, e).here = m.here
    BY <2>1 DEF Done
  <2> QED
    BY <1>4, <2>2 DEF Message
<1>5. CASE m.op = "art"
  <2>1. m \in [op : {"art"}, id : Entry, art : Art, done : BOOLEAN, here : BOOLEAN,
               previous : Image, was : Image, latest : BOOLEAN]
    BY <1>5 DEF Message
  <2>2. /\ Done(m, e) \in [op : {"art"}, id : Entry, art : Art, done : BOOLEAN, here : BOOLEAN,
                           previous : Image, was : Image, latest : BOOLEAN]
        /\ Done(m, e).op = m.op /\ Done(m, e).id = e
        /\ Done(m, e).done = TRUE /\ Done(m, e).here = m.here
        /\ Done(m, e).art = m.art /\ Done(m, e).previous = m.previous
    BY <2>1 DEF Done
  <2> QED
    BY <1>5, <2>2 DEF Message
<1> QED
  BY <1>1, <1>2, <1>3, <1>4, <1>5

\* Requests that are alike say the same.
LEMMA AlikeSays ==
  ASSUME NEW m, NEW n, Alike(m, n)
  PROVE  /\ \A op, e : Asks(m, op, e) <=> Asks(n, op, e)
         /\ \A op, e : Tells(m, op, e) <=> Tells(n, op, e)
         /\ \A k : PickOf(m, k) <=> PickOf(n, k)
BY DEF Alike, Asks, Tells, PickOf

LEMMA SameAlike ==
  ASSUME NEW m
  PROVE  Alike(m, m)
BY DEF Alike

--------------------------------------------------------------------------------
(***************************************************************************)
(* The images when the entries are new.                                    *)
(***************************************************************************)

\* The entries of a list are entries.
LEMMA EntriesAreEntries ==
  ASSUME NEW ids \in Seq(Entry)
  PROVE  ToSet(ids) \subseteq Entry
<1>1. DOMAIN ids = 1 .. Len(ids) /\ \A i \in 1 .. Len(ids) : ids[i] \in Entry
  BY LenProperties
<1> QED
  BY <1>1, InList

\* Nothing becomes of the image of a card the page shows.
Untouched(k) ==
  /\ imageMap'[k] = imageMap[k]
  /\ \A f \in fetches' : f.card = k /\ f.here => f \in fetches

ImageTypes ==
  /\ cache \in [Card -> Image] /\ imageMap \in [Card -> Image]
  /\ fetched \subseteq Card /\ fetches \subseteq [card : Card, here : BOOLEAN]

LEMMA FetchedImages ==
  ASSUME ImageTypes, NEW ids \in Seq(Entry), NEW list \in [Entry -> Row \cup {None}],
         \A e \in ToSet(ids) : list[e] # None, FetchImages(ids, list)
  PROVE  /\ ImageTypes'
         /\ fetched' = fetched \cup {CardOf[e] : e \in ToSet(ids)}
         /\ \A k \in Card : k \in fetched => Untouched(k)
<1> DEFINE cards == {CardOf[e] : e \in ToSet(ids)}
           new == {c \in cards \ fetched : cache[c] = None}
           image(c) == IF c \in new THEN ArtIn(ids, list, c) ELSE cache[c]
<1>1. /\ fetched' = fetched \cup cards
      /\ imageMap' = [c \in Card |->
           IF c \in cards \ fetched /\ (c \in new \/ imageMap[c] = None) /\ image(c) # None
           THEN image(c) ELSE imageMap[c]]
      /\ cache' = [c \in Card |-> IF c \in new THEN image(c) ELSE cache[c]]
      /\ fetches' = fetches \cup {[card |-> c, here |-> TRUE] : c \in {d \in new : image(d) = None}}
  BY Zenon DEF FetchImages
<1>2. ToSet(ids) \subseteq Entry
  BY EntriesAreEntries
<1>3. cards \subseteq Card
  BY <1>2, EditorCardsAssumption
<1>4. ASSUME NEW c \in cards
      PROVE  ArtIn(ids, list, c) \in Image
  <2>1. PICK x \in ToSet(ids) : ArtIn(ids, list, c) = list[x].art
    BY FirstOfCard DEF ArtIn
  <2>2. list[x] \in Row
    BY <1>2
  <2> QED
    BY <2>1, <2>2 DEF Row
<1>5. \A c \in Card : image(c) \in Image
  BY <1>4 DEF ImageTypes
<1>6. new \subseteq Card /\ \A c \in new : c \notin fetched
  BY <1>3
<1>7. \A f \in fetches' : f \in fetches \/ \E c \in new : f = [card |-> c, here |-> TRUE]
  BY <1>1
<1> HIDE DEF cards, new, image
<1>8. ImageTypes'
  <2>1. cache' \in [Card -> Image] /\ imageMap' \in [Card -> Image]
    BY <1>1, <1>5 DEF ImageTypes
  <2>2. \A c \in Card : [card |-> c, here |-> TRUE] \in [card : Card, here : BOOLEAN]
    OBVIOUS
  <2>3. \A f \in fetches' : f \in [card : Card, here : BOOLEAN]
    BY <1>6, <1>7, <2>2 DEF ImageTypes
  <2> QED
    BY <1>1, <1>3, <2>1, <2>3 DEF ImageTypes
<1>9. ASSUME NEW k \in Card, k \in fetched
      PROVE  Untouched(k)
  BY <1>1, <1>6, <1>7, <1>9 DEF Untouched
<1> QED
  BY <1>1, <1>8, <1>9 DEF cards

--------------------------------------------------------------------------------
(***************************************************************************)
(* What a step leaves alone: an entry, a card, the messages.               *)
(***************************************************************************)

\* The page is about to hear the same of an entry.
SameNews(e) ==
  \A c \in Conn :
    /\ \A op : Tells(wire'[c], op, e) <=> Tells(wire[c], op, e)
    /\ Tells(wire[c], "count", e) => wire'[c].count = wire[c].count
    /\ Tells(wire[c], "art", e) => wire'[c].art = wire[c].art

\* No more changes of an entry are under way.
NoMoreChanges(e) ==
  \A op \in {"count", "art"}, c \in Conn :
    Asks(wire'[c], op, e) /\ wire'[c].here => Asks(wire[c], op, e) /\ wire[c].here

LEMMA EntryFrame ==
  ASSUME NEW e \in Entry
  PROVE  /\ Follows(e) /\ SameNews(e) /\ rows'[e] = rows[e] /\ copy'[e] = copy[e] => Follows(e)'
         /\ OneChange(e) /\ NoMoreChanges(e) => OneChange(e)'
<1>1. ASSUME Follows(e), SameNews(e), rows'[e] = rows[e], copy'[e] = copy[e]
      PROVE  Follows(e)'
  BY <1>1 DEF Follows, SameNews
<1>2. ASSUME OneChange(e), NoMoreChanges(e)
      PROVE  OneChange(e)'
  BY <1>2 DEF OneChange, NoMoreChanges
<1> QED
  BY <1>1, <1>2

\* The same picks of the art of a card are under way.
SamePicks(k) ==
  \A c \in Conn :
    /\ PickOf(wire'[c], k) <=> PickOf(wire[c], k)
    /\ PickOf(wire[c], k) => wire'[c].art = wire[c].art /\ wire'[c].previous = wire[c].previous

LEMMA CardFrame ==
  ASSUME NEW k, ArtFits(k), SamePicks(k), Untouched(k), due'[k] = due[k], fetched \subseteq fetched'
  PROVE  ArtFits(k)'
<1>1. OnePick(k)'
  BY DEF ArtFits, OnePick, SamePicks
<1>2. PicksFit(k)'
  BY DEF ArtFits, PicksFit, PickFits, SamePicks, Untouched
<1>3. ImageFits(k)'
  BY DEF ArtFits, ImageFits, SamePicks, Untouched
<1> QED
  BY <1>1, <1>2, <1>3 DEF ArtFits

\* Requests that are alike.
LEMMA AlikeFrame ==
  ASSUME \A c \in Conn : Alike(wire[c], wire'[c])
  PROVE  /\ \A e : SameNews(e) /\ NoMoreChanges(e)
         /\ \A k : SamePicks(k)
<1>1. \A e : SameNews(e)
  BY AlikeSays DEF SameNews, Alike, Tells, Asks
<1>2. \A e : NoMoreChanges(e)
  BY AlikeSays DEF NoMoreChanges, Alike, Asks
<1>3. \A k : SamePicks(k)
  BY AlikeSays DEF SamePicks, Alike, PickOf
<1> QED
  BY <1>1, <1>2, <1>3

\* A request under way is one of the messages.
LEMMA OnTheWire ==
  ASSUME TypeOK, NEW c \in Conn, wire[c] # None
  PROVE  /\ wire[c] \in Message /\ wire[c].op \in {"add", "count", "delete", "art"}
         /\ wire[c].done \in BOOLEAN /\ wire[c].here \in BOOLEAN
         /\ wire[c].op = "add" => wire[c].id \in Entry \cup {None} /\ wire[c].card \in Card
         /\ wire[c].op # "add" => wire[c].id \in Entry
         /\ wire[c].op = "count" => wire[c].count \in 1 .. MaxCount
         /\ wire[c].op = "art" => /\ wire[c].art \in Art /\ wire[c].previous \in Image
                                  /\ wire[c].was \in Image
<1>1. wire[c] \in Message
  BY DEF TypeOK
<1> DEFINE m == wire[c]
<1>2. m \in Message
  BY <1>1
<1> HIDE DEF m
<1>3. /\ m.op \in {"add", "count", "delete", "art"}
      /\ m.done \in BOOLEAN /\ m.here \in BOOLEAN
      /\ m.op = "add" => m.id \in Entry \cup {None} /\ m.card \in Card
      /\ m.op # "add" => m.id \in Entry
      /\ m.op = "count" => m.count \in 1 .. MaxCount
      /\ m.op = "art" => m.art \in Art /\ m.previous \in Image /\ m.was \in Image
  BY <1>2, MessageParts
<1> QED
  BY <1>1, <1>3 DEF m

--------------------------------------------------------------------------------
(***************************************************************************)
(* The invariant of the cards holds at first.                              *)
(***************************************************************************)
LEMMA CardsInit == Init => CardsInv
<1> SUFFICES ASSUME Init PROVE CardsInv
  OBVIOUS
<1> USE EditorCardsAssumption
<1>1. \A e \in Entry : [count |-> 1, art |-> SavedArt[e]] \in Row
  BY DEF Row, Image
<1>2. ToSet(<<>>) = {} /\ IsInjective(<<>>) /\ <<>> \in Seq(Entry)
  <2>1. DOMAIN <<>> = {} /\ <<>> \in Seq(Entry)
    OBVIOUS
  <2> QED
    BY <2>1, InList DEF IsInjective
<1>3. Closed \in Dialog /\ Closed.state = "closed"
  BY DEF Closed, Dialog, Image
<1>4. ~IsOpen /\ \A c \in Conn : wire[c] = None
  BY <1>3 DEF Init, IsOpen
<1>5. \A e \in Entry : copy[e] = None /\ answer[e] = None
  BY DEF Init, Nothing
<1>6. TypeOK
  <2>1. /\ rows \in [Entry -> Row \cup {None}] /\ born \subseteq Entry
        /\ copy \in [Entry -> Row \cup {None}] /\ answer \in [Entry -> Row \cup {None}]
    BY <1>1 DEF Init, Nothing
  <2>2. cache \in [Card -> Image] /\ imageMap \in [Card -> Image] /\ due \in [Card -> Image]
    BY DEF Init, NoImages, Image
  <2> QED
    BY <1>2, <1>3, <2>1, <2>2 DEF Init, TypeOK
<1>8. \A e \in Entry : rows[e] # None => e \in born
  BY DEF Init
<1>9. BornOK
  BY <1>4, <1>5, <1>8 DEF BornOK
<1>10. PageOK
  BY <1>4 DEF Init, PageOK
<1>11. OrderOK
  BY <1>2, <1>5 DEF Init, OrderOK, Shown
<1>12. ServerFits /\ EntriesFollow
  BY <1>4 DEF Init, ServerFits, AddFits, DeleteFits, DialogFits, EntriesFollow
<1>13. AnswerFits /\ ArtOK
  BY DEF Init, AnswerFits, ArtOK
<1> QED
  BY <1>6, <1>9, <1>10, <1>11, <1>12, <1>13 DEF CardsInv

--------------------------------------------------------------------------------
(***************************************************************************)
(* The steps of the user.                                                  *)
(***************************************************************************)

\* The dialog opens for an entry that is shown, or stays what it is, or closes.
DialogMoves ==
  /\ dialog' \in Dialog
  /\ IsOpen' => page = "editor" /\ ((IsOpen /\ dialog'.id = dialog.id) \/ dialog'.id \in Shown)

OrderMoves == order' \in Seq(Entry) /\ ToSet(order') = Shown /\ IsInjective(order')

\* Nothing but the look of the page changes, or the cache.
LEMMA LookStep ==
  ASSUME CardsInv, cache' \in [Card -> Image],
         UNCHANGED <<server, page, answer, entries, copy, imageMap, fetched, fetches, ghosts>>,
         wire' \in [Conn -> Message \cup {None}], \A c \in Conn : Alike(wire[c], wire'[c]),
         view' \in {"gallery", "list"}, OrderMoves, DialogMoves
  PROVE  CardsInv'
<1> USE DEF server, ghosts
<1>1. TypeOK'
  BY DEF CardsInv, TypeOK, OrderMoves, DialogMoves
<1>2. \A e : e \in Shown' <=> e \in Shown
  BY DEF Shown
<1>3. BornOK'
  <2>1. \A c \in Conn : wire'[c] # None => wire[c] # None /\ wire'[c].id = wire[c].id
    BY DEF Alike
  <2>2. \A e \in Shown : e \in born
    BY DEF CardsInv, BornOK, Shown
  <2> QED
    BY <2>1, <2>2 DEF CardsInv, BornOK, DialogMoves
<1>4. PageOK'
  BY <1>2 DEF CardsInv, PageOK, DialogMoves, Alike
<1>5. OrderOK'
  BY <1>2 DEF CardsInv, OrderOK, OrderMoves
<1>6. ServerFits'
  <2>1. ASSUME NEW c \in Conn
        PROVE  AddFits(c)' /\ DeleteFits(c)'
    <3>1. AddFits(c) /\ DeleteFits(c)
      BY DEF CardsInv, ServerFits
    <3>2. wire'[c] # None => /\ wire[c] # None /\ wire'[c].op = wire[c].op
                             /\ wire'[c].id = wire[c].id /\ wire'[c].done = wire[c].done
                             /\ wire'[c].here = wire[c].here
      BY DEF Alike
    <3>3. \A d \in Conn : wire'[d] # None => wire[d] # None /\ wire'[d].id = wire[d].id
      BY DEF Alike
    <3> QED
      BY <3>1, <3>2, <3>3 DEF AddFits, DeleteFits, DialogMoves, Shown
  <2>2. DialogFits'
    BY DEF CardsInv, ServerFits, DialogFits, DialogMoves, Shown
  <2> QED
    BY <2>1, <2>2 DEF ServerFits
<1>7. EntriesFollow' /\ AnswerFits'
  <2>1. AnswerFits'
    BY DEF CardsInv, AnswerFits
  <2> SUFFICES ASSUME page = "editor", NEW e \in Entry \ (untold \cup raced)
               PROVE  Follows(e)' /\ OneChange(e)'
    BY <2>1 DEF EntriesFollow
  <2>2. Follows(e) /\ OneChange(e)
    BY DEF CardsInv, EntriesFollow
  <2> QED
    BY <2>2, EntryFrame, AlikeFrame
<1>8. ArtOK'
  <2> SUFFICES ASSUME page = "editor", NEW k \in Card \ mixed
               PROVE  ArtFits(k)'
    BY DEF ArtOK
  <2>1. ArtFits(k) /\ Untouched(k)
    BY DEF CardsInv, ArtOK, Untouched
  <2> QED
    BY <2>1, CardFrame, AlikeFrame
<1> QED
  BY <1>1, <1>3, <1>4, <1>5, <1>6, <1>7, <1>8 DEF CardsInv

\* Sections join to what is in any of them.
LEMMA SectionsJoin ==
  ASSUME NEW a \in Seq(Entry), NEW b \in Seq(Entry), NEW c \in Seq(Entry),
         IsInjective(a), IsInjective(b), IsInjective(c),
         ToSet(a) \cap ToSet(b) = {}, ToSet(a) \cap ToSet(c) = {}, ToSet(b) \cap ToSet(c) = {}
  PROVE  /\ a \o b \o c \in Seq(Entry) /\ IsInjective(a \o b \o c)
         /\ ToSet(a \o b \o c) = ToSet(a) \cup ToSet(b) \cup ToSet(c)
<1> DEFINE ab == a \o b
<1>1. ab \in Seq(Entry) /\ IsInjective(ab) /\ ToSet(ab) = ToSet(a) \cup ToSet(b)
  BY JoinedLists
<1> HIDE DEF ab
<1>2. ToSet(ab) \cap ToSet(c) = {}
  BY <1>1
<1>3. /\ ab \o c \in Seq(Entry) /\ IsInjective(ab \o c)
      /\ ToSet(ab \o c) = ToSet(ab) \cup ToSet(c)
  BY <1>1, <1>2, JoinedLists
<1> QED
  BY <1>1, <1>3 DEF ab

\* A card is dropped on another of its section.
LEMMA DropOrder ==
  ASSUME CardsInv, DropCard
  PROVE  OrderMoves
<1> PICK from \in ToSet(order), to \in ToSet(order) :
      /\ Section(from) = Section(to)
      /\ LET rest(s) == InSection(order, s)
             one(s) == IF s = Section(from) THEN Move(rest(s), from, to) ELSE rest(s)
         IN order' = one("pokemon") \o one("trainer") \o one("energy")
  BY Zenon DEF DropCard
<1> DEFINE rest(s) == InSection(order, s)
           one(s) == IF s = Section(from) THEN Move(rest(s), from, to) ELSE rest(s)
<1>1. order \in Seq(Entry) /\ ToSet(order) = Shown /\ IsInjective(order) /\ Shown \subseteq Entry
  BY DEF CardsInv, TypeOK, OrderOK, Shown
<1>2. ASSUME NEW s
      PROVE  /\ rest(s) \in Seq(Entry) /\ IsInjective(rest(s))
             /\ \A e : e \in ToSet(rest(s)) <=> e \in Shown /\ Section(e) = s
  BY <1>1, FilteredLists DEF InSection
<1>3. ASSUME NEW s
      PROVE  /\ one(s) \in Seq(Entry) /\ IsInjective(one(s))
             /\ \A e : e \in ToSet(one(s)) <=> e \in Shown /\ Section(e) = s
  <2>1. CASE s = Section(from)
    <3>1. from \in ToSet(rest(s)) /\ to \in ToSet(rest(s))
      BY <1>1, <1>2, <2>1
    <3> HIDE DEF rest
    <3>2. /\ Move(rest(s), from, to) \in Seq(Entry) /\ IsInjective(Move(rest(s), from, to))
          /\ ToSet(Move(rest(s), from, to)) = ToSet(rest(s))
      BY <1>2, <3>1, MovedLists
    <3> QED
      BY <1>2, <2>1, <3>2
  <2>2. CASE s # Section(from)
    BY <1>2, <2>2
  <2> QED
    BY <2>1, <2>2
<1>4. \A e \in Shown : Section(e) \in {"pokemon", "trainer", "energy"}
  BY <1>1, EditorCardsAssumption DEF Section
<1> DEFINE a == one("pokemon")
           b == one("trainer")
           c == one("energy")
<1>5. order' = a \o b \o c
  OBVIOUS
<1> HIDE DEF one
<1>6. /\ a \in Seq(Entry) /\ IsInjective(a) /\ b \in Seq(Entry) /\ IsInjective(b)
      /\ c \in Seq(Entry) /\ IsInjective(c)
      /\ \A e : e \in ToSet(a) <=> e \in Shown /\ Section(e) = "pokemon"
      /\ \A e : e \in ToSet(b) <=> e \in Shown /\ Section(e) = "trainer"
      /\ \A e : e \in ToSet(c) <=> e \in Shown /\ Section(e) = "energy"
  BY <1>3
<1> HIDE DEF a, b, c
<1>7. /\ ToSet(a) \cap ToSet(b) = {} /\ ToSet(a) \cap ToSet(c) = {} /\ ToSet(b) \cap ToSet(c) = {}
      /\ ToSet(a) \cup ToSet(b) \cup ToSet(c) = Shown
  BY <1>4, <1>6
<1>8. /\ a \o b \o c \in Seq(Entry) /\ IsInjective(a \o b \o c)
      /\ ToSet(a \o b \o c) = ToSet(a) \cup ToSet(b) \cup ToSet(c)
  BY <1>6, <1>7, SectionsJoin
<1> QED
  BY <1>5, <1>7, <1>8 DEF OrderMoves

LEMMA LookSteps ==
  ASSUME CardsInv,
         ToggleView \/ DropCard \/ OpenDialog \/ CloseDialog \/ CachedElsewhere \/ UNCHANGED vars
  PROVE  CardsInv'
<1> DEFINE Rest == UNCHANGED <<server, page, answer, entries, copy, imageMap, fetched, fetches, ghosts>>
<1> USE DEF server, images, ghosts
<1>1. /\ OrderOK /\ entries \in Seq(Entry) /\ order \in Seq(Entry) /\ view \in {"gallery", "list"}
      /\ wire \in [Conn -> Message \cup {None}] /\ dialog \in Dialog
      /\ cache \in [Card -> Image] /\ (IsOpen => page = "editor")
  BY DEF CardsInv, TypeOK, PageOK
<1>2. \A c \in Conn : Alike(wire[c], wire[c])
  BY SameAlike
<1>3. Closed \in Dialog /\ Closed.state = "closed"
  BY DEF Closed, Dialog, Image
<1>4. ASSUME dialog' = Closed
      PROVE  DialogMoves
  BY <1>3, <1>4 DEF DialogMoves, IsOpen
<1>5. ASSUME dialog' = dialog
      PROVE  DialogMoves
  BY <1>1, <1>5 DEF DialogMoves, IsOpen
<1>6. ASSUME wire' = [c \in Conn |-> NoLatest(wire[c])]
      PROVE  wire' \in [Conn -> Message \cup {None}] /\ \A c \in Conn : Alike(wire[c], wire'[c])
  <2>1. ASSUME NEW c \in Conn
        PROVE  NoLatest(wire[c]) \in Message \cup {None} /\ Alike(wire[c], NoLatest(wire[c]))
    <3>1. wire[c] \in Message \cup {None}
      BY <1>1
    <3> QED
      BY <3>1, NoLatestAlike
  <2> QED
    BY <1>6, <2>1
<1>7. ASSUME order' = order
      PROVE  OrderMoves
  BY <1>1, <1>7 DEF OrderOK, OrderMoves
<1>8. CASE ToggleView
  <2>1. /\ Rest /\ cache' = cache
        /\ view' \in {"gallery", "list"} /\ order' = entries /\ dialog' = Closed
        /\ wire' = [c \in Conn |-> NoLatest(wire[c])]
    BY <1>8 DEF ToggleView
  <2>2. OrderMoves
    BY <1>1, <2>1 DEF OrderOK, OrderMoves
  <2> QED
    BY <1>1, <1>4, <1>6, <2>1, <2>2, LookStep
<1>9. CASE DropCard
  <2>1. Rest /\ UNCHANGED <<cache, wire, view, dialog>>
    BY <1>9 DEF DropCard
  <2> QED
    BY <1>1, <1>2, <1>5, <1>9, <2>1, DropOrder, LookStep
<1>10. CASE OpenDialog
  <2>1. Rest /\ UNCHANGED <<cache, wire, view, order>>
    BY <1>10 DEF OpenDialog
  <2>2. PICK e \in ToSet(entries) :
          dialog' = [id |-> e, active |-> imageMap[CardOf[e]], state |-> "idle", wrote |-> {}]
    BY <1>10 DEF OpenDialog
  <2>3. e \in Shown /\ e \in Entry
    BY <1>1, EntriesAreEntries DEF OrderOK
  <2>4. imageMap[CardOf[e]] \in Image
    BY <2>3, EditorCardsAssumption DEF CardsInv, TypeOK
  <2>5. page = "editor"
    BY <1>10 DEF OpenDialog
  <2>6. DialogMoves
    BY <2>2, <2>3, <2>4, <2>5 DEF DialogMoves, Dialog
  <2> QED
    BY <1>1, <1>2, <1>7, <2>1, <2>6, LookStep
<1>11. CASE CloseDialog
  <2>1. /\ Rest /\ UNCHANGED <<cache, view, order>>
        /\ dialog' = Closed /\ wire' = [c \in Conn |-> NoLatest(wire[c])]
    BY <1>11 DEF CloseDialog
  <2> QED
    BY <1>1, <1>4, <1>6, <1>7, <2>1, LookStep
<1>12. CASE CachedElsewhere
  <2>1. /\ Rest /\ UNCHANGED <<wire, view, order, dialog>>
        /\ \E card \in Card, image \in Art : cache' = [cache EXCEPT ![card] = image]
    BY <1>12 DEF CachedElsewhere, shown
  <2>2. cache' \in [Card -> Image]
    BY <1>1, <2>1 DEF Image
  <2> QED
    BY <1>1, <1>2, <1>5, <1>7, <2>1, <2>2, LookStep
<1>13. CASE UNCHANGED vars
  <2>1. Rest /\ UNCHANGED <<cache, wire, view, order, dialog>>
    BY <1>13 DEF vars, shown
  <2> QED
    BY <1>1, <1>2, <1>5, <1>7, <2>1, LookStep
<1> QED
  BY <1>8, <1>9, <1>10, <1>11, <1>12, <1>13

\* A request is sent for an entry that is shown or that the dialog is of.
Sent(c, m) ==
  /\ wire[c] = None /\ wire'[c] = m /\ m \in Message /\ m.done = FALSE /\ m.here = TRUE
  /\ page = "editor" /\ \A d \in Conn \ {c} : Alike(wire[d], wire'[d])
  /\ m.op = "add" => m.id = None
  /\ m.op # "add" => m.id \in Shown \/ (IsOpen /\ m.id = dialog.id)
  /\ raced \subseteq raced'
  /\ m.op \in {"count", "art"} /\ m.id \notin raced' => Pending(m.op, m.id) = {}

\* Neither server nor page are other for it.
LEMMA SentRows ==
  ASSUME CardsInv, NEW c \in Conn, NEW m, Sent(c, m),
         UNCHANGED <<server, page, answer, copy, untold>>,
         IsOpen' = IsOpen, dialog'.id = dialog.id
  PROVE  /\ BornOK' /\ ServerFits' /\ EntriesFollow' /\ AnswerFits'
         /\ \A d \in Conn : wire'[d] # None => page' = "editor" \/ ~wire'[d].here
<1> USE DEF server
<1>1. /\ m # None /\ m.op \in {"add", "count", "delete", "art"}
      /\ m.op # "add" => m.id \in Entry /\ m.id # None
  BY MessageParts, EditorCardsAssumption DEF Sent
<1>2. m.op # "add" => m.id \in born
  BY <1>1 DEF Sent, CardsInv, BornOK, Shown
<1>3. ASSUME NEW d \in Conn, d # c
      PROVE  wire'[d] # None => /\ wire[d] # None /\ wire'[d].op = wire[d].op
                                /\ wire'[d].id = wire[d].id /\ wire'[d].done = wire[d].done
                                /\ wire'[d].here = wire[d].here
  BY <1>3 DEF Sent, Alike
<1>4. BornOK'
  BY <1>1, <1>2, <1>3 DEF Sent, CardsInv, BornOK, IsOpen
<1>5. ServerFits'
  <2>1. ASSUME NEW d \in Conn
        PROVE  AddFits(d)' /\ DeleteFits(d)'
    <3>1. CASE d = c
      <4>1. m.op = "add" => m.id = None
        BY DEF Sent
      <4> QED
        BY <3>1, <4>1 DEF Sent, AddFits, DeleteFits
    <3>2. CASE d # c
      <4>1. AddFits(d) /\ DeleteFits(d)
        BY DEF CardsInv, ServerFits
      <4>2. DeleteFits(d)'
        BY <1>3, <3>2, <4>1 DEF DeleteFits
      <4>3. ASSUME wire'[d] # None, wire'[d].op = "add", wire'[d].done
            PROVE  /\ m.id # wire'[d].id
                   /\ IsOpen' => dialog'.id # wire'[d].id
                   /\ \A x \in Conn \ {d} : wire'[x] # None => wire'[x].id # wire'[d].id
        <5>1. /\ wire[d] # None /\ wire[d].op = "add" /\ wire[d].done /\ wire[d].id = wire'[d].id
              /\ wire[d].id # None /\ copy[wire[d].id] = None
              /\ IsOpen => dialog.id # wire[d].id
              /\ \A x \in Conn \ {d} : wire[x] # None => wire[x].id # wire[d].id
          BY <1>3, <3>2, <4>1, <4>3 DEF AddFits
        <5>2. m.id # wire[d].id
          BY <1>1, <5>1 DEF Sent, Shown
        <5>3. \A x \in Conn \ {d} : wire'[x] # None => wire'[x].id # wire[d].id
          <6> SUFFICES ASSUME NEW x \in Conn \ {d}, wire'[x] # None
                       PROVE  wire'[x].id # wire[d].id
            OBVIOUS
          <6>1. CASE x = c
            BY <5>2, <6>1 DEF Sent
          <6>2. CASE x # c
            BY <1>3, <5>1, <6>2
          <6> QED
            BY <6>1, <6>2
        <5> QED
          BY <5>1, <5>2, <5>3
      <4>4. AddFits(d)'
        BY <1>3, <3>2, <4>1, <4>3 DEF AddFits
      <4> QED
        BY <4>2, <4>4
    <3> QED
      BY <3>1, <3>2
  <2>2. DialogFits'
    BY DEF CardsInv, ServerFits, DialogFits
  <2> QED
    BY <2>1, <2>2 DEF ServerFits
<1>6. EntriesFollow'
  <2> SUFFICES ASSUME page = "editor", NEW e \in Entry \ (untold \cup raced')
               PROVE  Follows(e)' /\ OneChange(e)'
    BY DEF EntriesFollow
  <2>1. Follows(e) /\ OneChange(e)
    BY DEF CardsInv, EntriesFollow, Sent
  <2>2. \A d \in Conn \ {c} : /\ \A op : Tells(wire'[d], op, e) <=> Tells(wire[d], op, e)
                              /\ \A op : Asks(wire'[d], op, e) <=> Asks(wire[d], op, e)
    BY AlikeSays DEF Sent
  <2>3. SameNews(e)
    <3>1. \A op : ~Tells(wire[c], op, e) /\ ~Tells(wire'[c], op, e)
      BY DEF Sent, Tells, Asks
    <3>2. ASSUME NEW d \in Conn \ {c}
          PROVE  /\ Tells(wire[d], "count", e) => wire'[d].count = wire[d].count
                 /\ Tells(wire[d], "art", e) => wire'[d].art = wire[d].art
      BY DEF Sent, Alike, Tells, Asks
    <3> QED
      BY <2>2, <3>1, <3>2 DEF SameNews
  <2>4. OneChange(e)'
    <3> SUFFICES ASSUME NEW op \in {"count", "art"}, NEW x \in Conn, NEW y \in Conn,
                        Asks(wire'[x], op, e), wire'[x].here, Asks(wire'[y], op, e), wire'[y].here
                 PROVE  x = y
      BY DEF OneChange
    <3>1. ASSUME NEW d \in Conn, d # c, Asks(wire'[d], op, e), wire'[d].here
          PROVE  Asks(wire[d], op, e) /\ wire[d].here /\ ~Asks(wire'[c], op, e)
      <4>1. Asks(wire[d], op, e) /\ wire[d].here
        BY <1>3, <2>2, <3>1 DEF Asks
      <4>2. d \in Pending(op, e)
        BY <4>1 DEF Pending, Asks
      <4>3. ~(m.op = op /\ m.id = e)
        BY <4>2 DEF Sent
      <4> QED
        BY <4>1, <4>3 DEF Sent, Asks
    <3>2. CASE x # c /\ y # c
      BY <2>1, <3>1, <3>2 DEF OneChange
    <3>3. CASE x = c \/ y = c
      BY <3>1, <3>3
    <3> QED
      BY <3>2, <3>3
  <2> QED
    BY <2>1, <2>3, <2>4, EntryFrame
<1>7. AnswerFits' /\ \A d \in Conn : wire'[d] # None => page' = "editor" \/ ~wire'[d].here
  BY DEF Sent, CardsInv, AnswerFits
<1> QED
  BY <1>4, <1>5, <1>6, <1>7

\* A card is asked for, or a count, or that an entry be deleted.
LEMMA AskStep ==
  ASSUME CardsInv, UNCHANGED <<server, shown, images, untold, due, mixed>>,
         raced' \subseteq Entry,
         NEW c \in Conn, NEW m, wire' = [wire EXCEPT ![c] = m], Sent(c, m), m.op # "art"
  PROVE  CardsInv'
<1> USE DEF server, shown, images
<1>1. TypeOK'
  BY DEF Sent, CardsInv, TypeOK
<1>2. IsOpen' = IsOpen
  BY DEF IsOpen
<1>3. /\ BornOK' /\ ServerFits' /\ EntriesFollow' /\ AnswerFits'
      /\ \A d \in Conn : wire'[d] # None => page' = "editor" \/ ~wire'[d].here
  BY <1>2, SentRows
<1>4. OrderOK' /\ Shown' = Shown
  BY DEF CardsInv, OrderOK, Shown
<1>5. PageOK'
  BY <1>2, <1>3, <1>4 DEF CardsInv, PageOK, Sent
<1>6. ArtOK'
  <2> SUFFICES ASSUME page = "editor", NEW k \in Card \ mixed
               PROVE  ArtFits(k)'
    BY DEF ArtOK
  <2>1. ArtFits(k) /\ Untouched(k)
    BY DEF CardsInv, ArtOK, Untouched
  <2>2. SamePicks(k)
    <3>1. wire \in [Conn -> Message \cup {None}]
      BY DEF CardsInv, TypeOK
    <3>2. ~PickOf(wire[c], k) /\ ~PickOf(wire'[c], k) /\ \A d \in Conn \ {c} : wire'[d] = wire[d]
      BY <3>1 DEF Sent, PickOf
    <3> QED
      BY <3>2 DEF SamePicks
  <2> QED
    BY <2>1, <2>2, CardFrame
<1> QED
  BY <1>1, <1>3, <1>4, <1>5, <1>6 DEF CardsInv

\* A count is sent for an entry that is shown.
LEMMA CountStep ==
  ASSUME CardsInv, page = "editor", UNCHANGED <<server, shown, images, untold, due, mixed>>,
         NEW e \in Shown, NEW count, SendCount(e, count)
  PROVE  CardsInv'
<1> DEFINE m == [op |-> "count", id |-> e, count |-> count, done |-> FALSE, here |-> TRUE]
<1>1. PICK c \in Conn : wire[c] = None /\ wire' = [wire EXCEPT ![c] = m]
  BY DEF SendCount, Send
<1>2. m \in Message /\ m.op = "count" /\ m.id = e /\ m.done = FALSE /\ m.here = TRUE
  BY DEF SendCount, Message, Shown
<1>3. /\ raced \subseteq raced' /\ raced' \subseteq Entry
      /\ e \notin raced' => Pending("count", e) = {}
  BY DEF SendCount, Race, CardsInv, TypeOK, Shown
<1> HIDE DEF m
<1>4. wire'[c] = m /\ \A d \in Conn \ {c} : wire'[d] = wire[d]
  BY <1>1 DEF CardsInv, TypeOK
<1>5. Sent(c, m)
  BY <1>1, <1>2, <1>3, <1>4, SameAlike DEF Sent
<1> QED
  BY <1>1, <1>2, <1>3, <1>5, AskStep

LEMMA AskSteps ==
  ASSUME CardsInv, SelectCard \/ ChangeCount \/ RemoveCard
  PROVE  CardsInv'
<1>1. /\ ToSet(entries) = Shown /\ entries \in Seq(Entry) /\ Shown \subseteq Entry
      /\ wire \in [Conn -> Message \cup {None}] /\ raced \subseteq Entry
  BY DEF CardsInv, OrderOK, TypeOK, Shown
<1>2. /\ page = "editor" /\ UNCHANGED <<server, shown, images, untold, due, mixed>>
  BY DEF SelectCard, ChangeCount, RemoveCard, ghosts
<1>3. ASSUME NEW m \in Message, m.op \in {"add", "delete"}, m.done = FALSE, m.here = TRUE,
             m.op = "add" => m.id = None, m.op # "add" => m.id \in Shown,
             Send(m), UNCHANGED raced
      PROVE  CardsInv'
  <2>1. PICK c \in Conn : wire[c] = None /\ wire' = [wire EXCEPT ![c] = m]
    BY <1>3 DEF Send
  <2>2. wire'[c] = m /\ \A d \in Conn \ {c} : wire'[d] = wire[d]
    BY <1>1, <2>1
  <2>3. Sent(c, m)
    BY <1>2, <1>3, <2>1, <2>2, SameAlike DEF Sent
  <2> QED
    BY <1>1, <1>2, <1>3, <2>1, <2>3, AskStep
<1>4. CASE SelectCard
  <2> PICK card \in Card :
        LET existing == OfCard(entries, card)
        IN IF existing # <<>> THEN SendCount(existing[1], copy[existing[1]].count + 1)
           ELSE /\ Send([op |-> "add", id |-> None, card |-> card, done |-> FALSE, here |-> TRUE])
                /\ UNCHANGED raced
    BY <1>4, Zenon DEF SelectCard
  <2> DEFINE existing == OfCard(entries, card)
  <2>1. CASE existing # <<>>
    <3>1. existing \in Seq(Entry) /\ ToSet(existing) \subseteq Shown
      BY <1>1, FilteredLists DEF OfCard
    <3>2. existing[1] \in Shown
      <4> HIDE DEF existing
      <4>1. DOMAIN existing = 1 .. Len(existing) /\ Len(existing) \in Nat /\ Len(existing) # 0
        BY <2>1, <3>1, LenProperties, EmptySeq
      <4> QED
        BY <3>1, <4>1, InList
    <3>3. SendCount(existing[1], copy[existing[1]].count + 1)
      BY <2>1
    <3> HIDE DEF existing
    <3> QED
      BY <1>2, <3>2, <3>3, CountStep
  <2>2. CASE existing = <<>>
    <3> DEFINE m == [op |-> "add", id |-> None, card |-> card, done |-> FALSE, here |-> TRUE]
    <3>1. Send(m) /\ UNCHANGED raced
      BY <2>2
    <3>2. m \in Message /\ m.op = "add" /\ m.done = FALSE /\ m.here = TRUE /\ m.id = None
      BY DEF Message
    <3> HIDE DEF m
    <3> QED
      BY <1>3, <3>1, <3>2
  <2> QED
    BY <2>1, <2>2
<1>5. CASE ChangeCount
  <2>1. \E count : \E e \in Shown : SendCount(e, count)
    BY <1>1, <1>5, Zenon DEF ChangeCount
  <2> QED
    BY <1>2, <2>1, CountStep
<1>6. CASE RemoveCard
  <2> PICK e \in Shown : Send([op |-> "delete", id |-> e, done |-> FALSE, here |-> TRUE])
    BY <1>1, <1>6 DEF RemoveCard
  <2> DEFINE m == [op |-> "delete", id |-> e, done |-> FALSE, here |-> TRUE]
  <2>1. Send(m) /\ UNCHANGED raced
    BY <1>6 DEF RemoveCard, ghosts
  <2>2. m \in Message /\ m.op = "delete" /\ m.done = FALSE /\ m.here = TRUE /\ m.id \in Shown
    BY <1>1 DEF Message
  <2> HIDE DEF m
  <2> QED
    BY <1>3, <2>1, <2>2
<1> QED
  BY <1>4, <1>5, <1>6

\* The art of a card is picked.  If its card is not mixed, no other pick of it is under way,
\* nor its lookup.
LEMMA PickArtStep ==
  ASSUME CardsInv, PickArt
  PROVE  CardsInv'
<1> PICK e : e = dialog.id
  OBVIOUS
<1> PICK art \in Art \ {dialog.active}, c \in Conn :
      /\ wire[c] = None
      /\ wire' = [d \in Conn |->
           IF d = c THEN [op |-> "art", id |-> e, art |-> art, done |-> FALSE, here |-> TRUE,
                          previous |-> imageMap[CardOf[e]], was |-> dialog.active,
                          latest |-> TRUE]
           ELSE NoLatest(wire[d])]
      /\ dialog' = [dialog EXCEPT !.active = art, !.state = "saving"]
      /\ OverrideImage(CardOf[e], art, TRUE)
      /\ Race("art", e)
      /\ mixed' = IF Picks(CardOf[e]) # {} \/ [card |-> CardOf[e], here |-> TRUE] \in fetches
                  THEN mixed \cup {CardOf[e]} ELSE mixed
  BY Zenon DEF PickArt
<1>1. /\ IsOpen
      /\ UNCHANGED <<rows, born, page, answer, view, entries, copy, order, fetched, fetches,
                     untold, due>>
  BY DEF PickArt, server
<1>2. /\ TypeOK /\ page = "editor" /\ e \in born /\ e \in Entry /\ e # None
      /\ dialog \in Dialog /\ CardOf[e] \in Card
  BY <1>1, EditorCardsAssumption DEF CardsInv, PageOK, BornOK, TypeOK
<1> DEFINE m == [op |-> "art", id |-> e, art |-> art, done |-> FALSE, here |-> TRUE,
                 previous |-> imageMap[CardOf[e]], was |-> dialog.active, latest |-> TRUE]
<1>3. /\ m \in Message /\ m.op = "art" /\ m.id = e /\ m.art = art /\ m.done = FALSE
      /\ m.here = TRUE /\ m.previous = imageMap[CardOf[e]]
  <2>1. imageMap[CardOf[e]] \in Image /\ dialog.active \in Image
    BY <1>2 DEF TypeOK, Dialog
  <2> QED
    BY <1>2, <2>1 DEF Message
<1>4. wire'[c] = m
  OBVIOUS
<1> HIDE DEF m
<1>5. ASSUME NEW d \in Conn, d # c
      PROVE  wire'[d] \in Message \cup {None} /\ Alike(wire[d], wire'[d])
  <2>1. wire[d] \in Message \cup {None} /\ wire'[d] = NoLatest(wire[d])
    BY <1>2, <1>5 DEF TypeOK
  <2> QED
    BY <2>1, NoLatestAlike
<1>6. /\ raced \subseteq raced' /\ raced' \subseteq Entry
      /\ e \notin raced' => Pending("art", e) = {}
  BY <1>2 DEF Race, TypeOK
<1>7. Sent(c, m)
  BY <1>1, <1>2, <1>3, <1>4, <1>5, <1>6 DEF Sent
<1>8. /\ cache' = [cache EXCEPT ![CardOf[e]] = art]
      /\ imageMap' = [imageMap EXCEPT ![CardOf[e]] = art]
  BY DEF OverrideImage, With
<1>9. dialog' \in Dialog /\ dialog'.id = dialog.id /\ IsOpen'
  BY <1>2 DEF Dialog, Image, IsOpen
<1>10. TypeOK'
  <2>1. wire' \in [Conn -> Message \cup {None}]
    BY <1>3, <1>4, <1>5
  <2>2. cache' \in [Card -> Image] /\ imageMap' \in [Card -> Image]
    BY <1>2, <1>8 DEF TypeOK, Image
  <2>3. mixed' \subseteq Card
    BY <1>2 DEF TypeOK
  <2> QED
    BY <1>1, <1>2, <1>6, <1>9, <2>1, <2>2, <2>3 DEF TypeOK
<1>11. /\ BornOK' /\ ServerFits' /\ EntriesFollow' /\ AnswerFits'
       /\ \A d \in Conn : wire'[d] # None => page' = "editor" \/ ~wire'[d].here
  <2>1. UNCHANGED <<server, page, answer, copy, untold>> /\ IsOpen' = IsOpen
    BY <1>1, <1>9 DEF server
  <2> QED
    BY <1>7, <1>9, <2>1, SentRows
<1>12. OrderOK' /\ Shown' = Shown
  BY <1>1 DEF CardsInv, OrderOK, Shown
<1>13. PageOK'
  BY <1>1, <1>2, <1>9, <1>11, <1>12 DEF CardsInv, PageOK
<1>14. ArtOK'
  <2> SUFFICES ASSUME NEW k \in Card \ mixed'
               PROVE  ArtFits(k)'
    BY DEF ArtOK
  <2>1. ArtFits(k)
    BY <1>2 DEF CardsInv, ArtOK
  <2>2. CASE k # CardOf[e]
    <3>1. Untouched(k)
      BY <1>1, <1>2, <1>8, <2>2 DEF Untouched, TypeOK
    <3>2. SamePicks(k)
      <4>1. ~PickOf(wire[c], k) /\ ~PickOf(wire'[c], k)
        BY <1>3, <1>4, <2>2 DEF PickOf
      <4>2. \A d \in Conn \ {c} : Alike(wire[d], wire'[d]) /\ (PickOf(wire[d], k) <=> PickOf(wire'[d], k))
        BY <1>5, AlikeSays
      <4> QED
        BY <4>1, <4>2 DEF SamePicks, Alike, PickOf
    <3> QED
      BY <1>1, <2>1, <3>1, <3>2, CardFrame
  <2>3. CASE k = CardOf[e]
    <3>1. Picks(k) = {} /\ [card |-> k, here |-> TRUE] \notin fetches
      BY <2>3
    <3>2. \A d \in Conn : ~PickOf(wire[d], k)
      BY <3>1 DEF Picks, PickOf
    <3>3. \A f \in fetches : f.card = k => ~f.here
      <4> SUFFICES ASSUME NEW f \in fetches, f.card = k, f.here PROVE FALSE
        OBVIOUS
      <4>1. f \in [card : Card, here : BOOLEAN]
        BY <1>2 DEF TypeOK
      <4>2. f = [card |-> k, here |-> TRUE]
        BY <4>1
      <4> QED
        BY <3>1, <4>2
    <3>4. \A d \in Conn \ {c} : ~PickOf(wire'[d], k)
      BY <1>5, <3>2, AlikeSays
    <3>5. PickOf(wire'[c], k)
      BY <1>3, <1>4, <2>3, MessageParts DEF PickOf
    <3>6. imageMap[k] = due[k] /\ k \in fetched
      BY <1>1, <2>1, <2>3, <3>2 DEF ArtFits, ImageFits, CardsInv, PageOK
    <3>7. imageMap'[k] = art
      BY <1>2, <1>8, <2>3 DEF TypeOK
    <3>8. PickFits(wire[c], k)'
      BY <1>1, <1>3, <1>4, <2>3, <3>3, <3>6, <3>7 DEF PickFits
    <3> QED
      BY <3>4, <3>5, <3>8 DEF ArtFits, OnePick, PicksFit, ImageFits
  <2> QED
    BY <2>2, <2>3
<1> QED
  BY <1>10, <1>11, <1>12, <1>13, <1>14 DEF CardsInv

--------------------------------------------------------------------------------
(***************************************************************************)
(* The page comes and goes.                                                *)
(***************************************************************************)

\* The page asks for the deck, and the server answers with what it has.
LEMMA OpenPageStep ==
  ASSUME CardsInv, OpenPage \/ ReadDeck
  PROVE  CardsInv'
<1>1. /\ page # "editor" /\ page' \in {"loading", "answered"}
      /\ page' = "answered" => answer' = rows
      /\ answer' \in {answer, rows}
      /\ UNCHANGED <<rows, born, wire, view, entries, copy, order, dialog, cache, imageMap,
                     fetched, fetches, untold, raced, due, mixed>>
  BY DEF OpenPage, ReadDeck, server, images, ghosts
<1>2. TypeOK' /\ BornOK' /\ OrderOK' /\ (IsOpen' <=> IsOpen)
  BY <1>1 DEF CardsInv, TypeOK, BornOK, OrderOK, Shown, IsOpen
<1>3. PageOK'
  BY <1>1, <1>2 DEF CardsInv, PageOK
<1>4. ServerFits' /\ EntriesFollow' /\ AnswerFits' /\ ArtOK'
  BY <1>1, <1>2
     DEF CardsInv, ServerFits, AddFits, DeleteFits, DialogFits, EntriesFollow, AnswerFits, ArtOK
<1> QED
  BY <1>2, <1>3, <1>4 DEF CardsInv

\* The page is loaded: it has what the server answered, and knows of nothing under way.
LEMMA LoadStep ==
  ASSUME CardsInv, Load
  PROVE  CardsInv'
<1>1. /\ page = "answered" /\ page' = "editor" /\ copy' = answer /\ answer' = Nothing
      /\ entries' = Ascending({e \in Entry : answer[e] # None}) /\ order' = entries'
      /\ FetchImages(entries', answer) /\ due' = imageMap'
      /\ UNCHANGED <<rows, born, wire, view, dialog, untold, raced, mixed>>
  BY DEF Load, server
<1>2. /\ TypeOK /\ ~IsOpen /\ ~IsOpen'
      /\ \A c \in Conn : wire[c] # None => wire[c].here = FALSE
  <2>1. \A c \in Conn : wire[c] # None => ~wire[c].here
    BY <1>1 DEF CardsInv, PageOK
  <2>2. TypeOK /\ ~IsOpen /\ ~IsOpen'
    BY <1>1 DEF CardsInv, PageOK, IsOpen
  <2> QED
    BY <2>1, <2>2, OnTheWire
<1>3. Shown' = {e \in Entry : answer[e] # None} /\ Shown' \subseteq Entry
  BY <1>1 DEF Shown
<1>4. entries' \in Seq(Entry) /\ ToSet(entries') = Shown' /\ IsInjective(entries')
  <2> DEFINE S == {e \in Entry : answer[e] # None}
  <2>1. S \in SUBSET Nat /\ IsFiniteSet(S)
    BY FS_Subset, EditorCardsAssumption
  <2>2. S \subseteq Entry
    OBVIOUS
  <2>3. entries' = Ascending(S) /\ S = Shown'
    BY <1>1, <1>3
  <2> HIDE DEF S
  <2>4. /\ Ascending(S) \in [1 .. Cardinality(S) -> S] /\ Cardinality(S) \in Nat
        /\ ToSet(Ascending(S)) = S /\ IsInjective(Ascending(S))
    BY <2>1, AscendingLists
  <2>5. Ascending(S) \in Seq(Entry)
    BY <2>2, <2>4
  <2> QED
    BY <2>3, <2>4, <2>5
<1>5. \A e \in ToSet(entries') : answer[e] # None
  BY <1>3, <1>4
<1>6. ImageTypes' /\ fetched' = fetched \cup {CardOf[e] : e \in ToSet(entries')}
  <2> DEFINE ids == entries'
  <2>1. ids \in Seq(Entry) /\ FetchImages(ids, answer) /\ \A e \in ToSet(ids) : answer[e] # None
    BY <1>1, <1>4, <1>5
  <2>2. ImageTypes /\ answer \in [Entry -> Row \cup {None}]
    BY <1>2 DEF TypeOK, ImageTypes
  <2> HIDE DEF ids
  <2>3. ImageTypes' /\ fetched' = fetched \cup {CardOf[e] : e \in ToSet(ids)}
    BY <2>1, <2>2, FetchedImages
  <2> QED
    BY <2>3 DEF ids
<1>7. TypeOK'
  <2>1. answer' \in [Entry -> Row \cup {None}]
    BY <1>1 DEF Nothing
  <2> QED
    BY <1>1, <1>2, <1>4, <1>6, <2>1 DEF TypeOK, ImageTypes
<1>8. BornOK'
  <2>1. \A e \in Entry : answer'[e] = None
    BY <1>1 DEF Nothing
  <2> QED
    BY <1>1, <1>2, <2>1 DEF CardsInv, BornOK
<1>9. PageOK'
  BY <1>1, <1>2, <1>4, <1>6 DEF PageOK
<1>10. OrderOK'
  BY <1>1, <1>4 DEF OrderOK
<1>11. ServerFits' /\ AnswerFits'
  <2>1. \A c \in Conn : ~(wire[c] # None /\ wire[c].op = "add" /\ wire[c].done)
    BY <1>2 DEF CardsInv, ServerFits, AddFits
  <2> QED
    BY <1>1, <1>2, <2>1 DEF CardsInv, ServerFits, AddFits, DeleteFits, DialogFits, AnswerFits
<1>12. EntriesFollow'
  <2> SUFFICES ASSUME NEW e \in Entry \ (untold \cup raced)
               PROVE  Follows(e)' /\ OneChange(e)'
    BY <1>1 DEF EntriesFollow
  <2>1. \A op : \A c \in Conn : ~Tells(wire'[c], op, e) /\ ~(Asks(wire'[c], op, e) /\ wire'[c].here)
    BY <1>1, <1>2 DEF Tells, Asks
  <2>2. copy'[e] = rows'[e]
    BY <1>1 DEF CardsInv, AnswerFits
  <2> QED
    BY <2>1, <2>2 DEF Follows, OneChange
<1>13. ArtOK'
  <2>1. \A k : \A c \in Conn : ~PickOf(wire'[c], k)
    BY <1>1, <1>2 DEF PickOf
  <2> QED
    BY <1>1, <2>1 DEF ArtOK, ArtFits, OnePick, PicksFit, ImageFits
<1> QED
  BY <1>7, <1>8, <1>9, <1>10, <1>11, <1>12, <1>13 DEF CardsInv

\* The page is left.
LEMMA LeaveStep ==
  ASSUME CardsInv, Leave
  PROVE  CardsInv'
<1>1. /\ page' = "away" /\ answer' = Nothing /\ view' = "gallery"
      /\ entries' = <<>> /\ copy' = Nothing /\ order' = <<>> /\ dialog' = Closed
      /\ wire' = [c \in Conn |-> Orphan(wire[c])]
      /\ imageMap' = NoImages /\ fetched' = {}
      /\ fetches' = {[f EXCEPT !.here = FALSE] : f \in fetches}
      /\ untold' = {} /\ raced' = {} /\ due' = NoImages /\ mixed' = {}
      /\ UNCHANGED <<rows, born, cache>>
  BY DEF Leave, server
<1>2. TypeOK
  BY DEF CardsInv
<1>3. ASSUME NEW c \in Conn
      PROVE  /\ wire'[c] \in Message \cup {None}
             /\ wire'[c] # None =>
                  /\ wire[c] # None /\ wire'[c].op = wire[c].op /\ wire'[c].id = wire[c].id
                  /\ wire'[c].done = wire[c].done /\ wire'[c].here = FALSE
                  /\ wire[c].op # "art" => ~wire[c].done
             /\ wire[c] = None => wire'[c] = None
  <2>1. wire[c] \in Message \cup {None} /\ wire'[c] = Orphan(wire[c])
    BY <1>1, <1>2 DEF TypeOK
  <2> QED
    BY <2>1, OrphanIs
<1>4. ~IsOpen' /\ dialog' \in Dialog
  BY <1>1 DEF IsOpen, Closed, Dialog, Image
<1>5. /\ copy' \in [Entry -> Row \cup {None}] /\ answer' \in [Entry -> Row \cup {None}]
      /\ \A e \in Entry : copy'[e] = None /\ answer'[e] = None
  BY <1>1 DEF Nothing
<1>6. ToSet(<<>>) = {} /\ IsInjective(<<>>) /\ <<>> \in Seq(Entry)
  <2>1. DOMAIN <<>> = {} /\ <<>> \in Seq(Entry)
    OBVIOUS
  <2> QED
    BY <2>1, InList DEF IsInjective
<1>7. ASSUME NEW g \in fetches'
      PROVE  g \in [card : Card, here : BOOLEAN] /\ g.here = FALSE /\ \E f \in fetches : f.card = g.card
  <2>1. PICK f \in fetches : g = [f EXCEPT !.here = FALSE]
    BY <1>1
  <2>2. f \in [card : Card, here : BOOLEAN]
    BY <1>2 DEF TypeOK
  <2> QED
    BY <2>1, <2>2
<1>8. TypeOK'
  <2>1. wire' \in [Conn -> Message \cup {None}]
    BY <1>1, <1>3
  <2>2. /\ imageMap' \in [Card -> Image] /\ due' \in [Card -> Image]
        /\ fetches' \subseteq [card : Card, here : BOOLEAN]
    BY <1>1, <1>7 DEF NoImages, Image
  <2> QED
    BY <1>1, <1>2, <1>4, <1>5, <1>6, <2>1, <2>2 DEF TypeOK
<1>9. BornOK'
  BY <1>1, <1>3, <1>4, <1>5 DEF CardsInv, BornOK
<1>10. PageOK'
  BY <1>1, <1>3, <1>4, <1>7 DEF PageOK
<1>11. OrderOK'
  BY <1>1, <1>5, <1>6 DEF OrderOK, Shown
<1>12. ServerFits' /\ EntriesFollow' /\ AnswerFits' /\ ArtOK'
  <2>1. ASSUME NEW c \in Conn
        PROVE  AddFits(c)' /\ DeleteFits(c)'
    <3>1. AddFits(c) /\ DeleteFits(c)
      BY DEF CardsInv, ServerFits
    <3> QED
      BY <1>1, <1>3, <3>1 DEF AddFits, DeleteFits
  <2> QED
    BY <1>1, <1>4, <2>1 DEF ServerFits, DialogFits, EntriesFollow, AnswerFits, ArtOK
<1> QED
  BY <1>8, <1>9, <1>10, <1>11, <1>12 DEF CardsInv

\* A lookup is back: of a card no pick of which is under way.
LEMMA ImageStep ==
  ASSUME CardsInv, ImageArrives
  PROVE  CardsInv'
<1>1. UNCHANGED <<rows, born, wire, page, answer, view, entries, copy, order, dialog, fetched,
                  untold, raced, mixed>>
  BY DEF ImageArrives, server, shown
<1>2. PICK f \in fetches, found \in BOOLEAN :
        /\ fetches' = fetches \ {f}
        /\ IF found /\ Default[f.card] # None
           THEN /\ cache' = [cache EXCEPT ![f.card] = Default[f.card]]
                /\ imageMap' = With(imageMap, f.card, Default[f.card], f.here)
                /\ due' = With(due, f.card, Default[f.card], f.here)
           ELSE UNCHANGED <<cache, imageMap, due>>
  BY DEF ImageArrives
<1>3. TypeOK /\ f.card \in Card /\ Default[f.card] \in Image /\ f.here \in BOOLEAN
  BY EditorCardsAssumption DEF CardsInv, TypeOK, Image
<1>4. /\ cache' \in [Card -> Image] /\ imageMap' \in [Card -> Image] /\ due' \in [Card -> Image]
      /\ \A k \in Card : k # f.card \/ ~f.here => imageMap'[k] = imageMap[k] /\ due'[k] = due[k]
      /\ imageMap[f.card] = due[f.card] => imageMap'[f.card] = due'[f.card]
      /\ ~f.here => imageMap' = imageMap
  <2> DEFINE k == f.card
             image == Default[f.card]
  <2>1. /\ cache \in [Card -> Image] /\ imageMap \in [Card -> Image] /\ due \in [Card -> Image]
        /\ k \in Card /\ image \in Image
    BY <1>3 DEF TypeOK
  <2>2. \/ UNCHANGED <<cache, imageMap, due>>
        \/ cache' = [cache EXCEPT ![k] = image] /\ UNCHANGED <<imageMap, due>> /\ ~f.here
        \/ /\ cache' = [cache EXCEPT ![k] = image] /\ imageMap' = [imageMap EXCEPT ![k] = image]
           /\ due' = [due EXCEPT ![k] = image] /\ f.here
    BY <1>2 DEF With
  <2> HIDE DEF k, image
  <2>3. /\ cache' \in [Card -> Image] /\ imageMap' \in [Card -> Image] /\ due' \in [Card -> Image]
        /\ \A x \in Card : x # k \/ ~f.here => imageMap'[x] = imageMap[x] /\ due'[x] = due[x]
        /\ imageMap[k] = due[k] => imageMap'[k] = due'[k]
        /\ ~f.here => imageMap' = imageMap
    BY <2>1, <2>2
  <2> QED
    BY <2>3 DEF k
<1>5. TypeOK'
  BY <1>1, <1>2, <1>3, <1>4 DEF TypeOK
<1>6. BornOK' /\ OrderOK' /\ (IsOpen' <=> IsOpen)
  BY <1>1 DEF CardsInv, BornOK, OrderOK, Shown, IsOpen
<1>7. PageOK'
  BY <1>1, <1>2, <1>4, <1>6 DEF CardsInv, PageOK, Shown
<1>8. ServerFits' /\ EntriesFollow' /\ AnswerFits'
  <2>1. \A c \in Conn : AddFits(c)' /\ DeleteFits(c)'
    BY <1>1, <1>6 DEF CardsInv, ServerFits, AddFits, DeleteFits
  <2>2. DialogFits'
    BY <1>1, <1>6 DEF CardsInv, ServerFits, DialogFits
  <2>3. \A e \in Entry : (Follows(e) => Follows(e)') /\ (OneChange(e) => OneChange(e)')
    BY <1>1 DEF Follows, OneChange
  <2>4. AnswerFits'
    BY <1>1 DEF CardsInv, AnswerFits
  <2> QED
    BY <1>1, <2>1, <2>2, <2>3, <2>4 DEF CardsInv, ServerFits, EntriesFollow
<1>9. ArtOK'
  <2> SUFFICES ASSUME page = "editor", NEW k \in Card \ mixed
               PROVE  ArtFits(k)'
    BY <1>1 DEF ArtOK
  <2>1. ArtFits(k) /\ SamePicks(k)
    BY <1>1 DEF CardsInv, ArtOK, SamePicks
  <2>2. CASE k # f.card \/ ~f.here
    <3>1. Untouched(k) /\ due'[k] = due[k] /\ fetched \subseteq fetched'
      BY <1>1, <1>2, <1>4, <2>2 DEF Untouched
    <3> QED
      BY <2>1, <3>1, CardFrame
  <2>3. CASE k = f.card /\ f.here
    <3>1. \A c \in Conn : ~PickOf(wire[c], k) /\ ~PickOf(wire'[c], k)
      BY <1>1, <2>1, <2>3 DEF ArtFits, PicksFit, PickFits
    <3> QED
      BY <1>4, <2>1, <2>3, <3>1 DEF ArtFits, OnePick, PicksFit, ImageFits
  <2> QED
    BY <2>2, <2>3
<1> QED
  BY <1>5, <1>6, <1>7, <1>8, <1>9 DEF CardsInv

--------------------------------------------------------------------------------
(***************************************************************************)
(* The server carries a request out.                                       *)
(***************************************************************************)

\* The server does what m asks for on e.
Carried(m, e) ==
  /\ e \in Entry /\ \A x \in Entry : x # e => rows'[x] = rows[x]
  /\ m.op = "add" => e \notin born /\ born' = born \cup {e}
                     /\ rows'[e] = [count |-> 1, art |-> None]
  /\ m.op # "add" => e = m.id /\ e # None /\ e \in born /\ born' = born /\ rows[e] # None
  /\ m.op = "count" => /\ rows'[e] # None
                       /\ rows'[e].count = m.count /\ rows'[e].art = rows[e].art
  /\ m.op = "art" => /\ rows'[e] # None
                     /\ rows'[e].count = rows[e].count /\ rows'[e].art = m.art
  /\ m.op = "delete" => rows'[e] = None

\* The answer to c is on its way, or there is nobody to hear it.
Answered(c, e) ==
  /\ \A d \in Conn \ {c} : wire'[d] = wire[d]
  /\ wire'[c] = None \/
       /\ wire'[c] \in Message /\ wire'[c] # None /\ wire'[c].op = wire[c].op /\ wire'[c].id = e
       /\ wire'[c].done = TRUE /\ wire'[c].here = wire[c].here
       /\ wire[c].op = "count" => wire'[c].count = wire[c].count
       /\ wire[c].op = "art" => /\ wire'[c].art = wire[c].art
                                /\ wire'[c].previous = wire[c].previous
  /\ wire'[c] # None <=> wire[c].here \/ wire[c].op = "art"
  /\ untold \subseteq untold' /\ untold' \subseteq Entry
  /\ page \in {"answered", "editor"} /\ ~wire[c].here => e \in untold'

LEMMA CarryIs ==
  ASSUME CardsInv, NEW c \in Conn, Carry(c)
  PROVE  /\ wire[c] # None /\ wire[c].done = FALSE
         /\ UNCHANGED <<page, answer, view, entries, copy, order, images, raced, due, mixed>>
         /\ rows' \in [Entry -> Row \cup {None}]
         /\ dialog' \in Dialog /\ dialog'.id = dialog.id /\ dialog'.state = dialog.state
         /\ \E e \in Entry : Carried(wire[c], e) /\ Answered(c, e)
<1> USE DEF images
<1>1. TypeOK /\ wire[c] # None /\ ~wire[c].done
  BY DEF CardsInv, Carry
<1> PICK m : m = wire[c]
  OBVIOUS
<1>2. /\ m \in Message /\ m.done = FALSE /\ m.here \in BOOLEAN
      /\ m.op \in {"add", "count", "delete", "art"} /\ (m.op # "add" => m.id \in Entry)
      /\ (m.op = "count" => m.count \in 1 .. MaxCount) /\ (m.op = "art" => m.art \in Art)
  BY <1>1, OnTheWire
<1>3. PICK e : /\ AnswerOn(c, e)
               /\ \/ /\ m.op = "add" /\ e \in Entry \ born
                     /\ rows' = [rows EXCEPT ![e] = [count |-> 1, art |-> None]]
                     /\ born' = born \cup {e}
                  \/ /\ m.op # "add" /\ e = m.id /\ InDeck(e) /\ born' = born
                     /\ \/ m.op = "count" /\ rows' = [rows EXCEPT ![e].count = m.count]
                        \/ m.op = "art" /\ rows' = [rows EXCEPT ![e].art = m.art]
                        \/ m.op = "delete" /\ rows' = [rows EXCEPT ![e] = None]
  BY DEF Carry
<1>4. e \in Entry /\ e # None
  BY <1>2, <1>3, EditorCardsAssumption
<1>5. rows' \in [Entry -> Row \cup {None}] /\ Carried(m, e)
  <2>1. rows \in [Entry -> Row \cup {None}] /\ [count |-> 1, art |-> None] \in Row
    BY <1>1, EditorCardsAssumption DEF TypeOK, Row, Image
  <2>2. m.op # "add" => rows[e] # None /\ rows[e] \in Row /\ e \in born
    BY <1>3, <1>4, <2>1 DEF InDeck, CardsInv, BornOK
  <2>3. CASE m.op = "add"
    BY <1>3, <1>4, <2>1, <2>3 DEF Carried
  <2>4. CASE m.op = "count"
    <3>1. /\ [rows[e] EXCEPT !.count = m.count] \in Row
          /\ [rows[e] EXCEPT !.count = m.count].count = m.count
          /\ [rows[e] EXCEPT !.count = m.count].art = rows[e].art
      BY <1>2, <2>2, <2>4 DEF Row
    <3>2. rows' = [rows EXCEPT ![e] = [rows[e] EXCEPT !.count = m.count]]
      BY <1>3, <1>4, <2>1, <2>4
    <3> QED
      BY <1>3, <1>4, <2>1, <2>2, <2>4, <3>1, <3>2, NoneIsNoRecord DEF Carried
  <2>5. CASE m.op = "art"
    <3>1. /\ [rows[e] EXCEPT !.art = m.art] \in Row
          /\ [rows[e] EXCEPT !.art = m.art].art = m.art
          /\ [rows[e] EXCEPT !.art = m.art].count = rows[e].count
      BY <1>2, <2>2, <2>5 DEF Row, Image
    <3>2. rows' = [rows EXCEPT ![e] = [rows[e] EXCEPT !.art = m.art]]
      BY <1>3, <1>4, <2>1, <2>5
    <3> QED
      BY <1>3, <1>4, <2>1, <2>2, <2>5, <3>1, <3>2, NoneIsNoRecord DEF Carried
  <2>6. CASE m.op = "delete"
    BY <1>3, <1>4, <2>1, <2>2, <2>6 DEF Carried
  <2> QED
    BY <1>2, <2>3, <2>4, <2>5, <2>6
<1>6. Answered(c, e)
  <2>1. wire \in [Conn -> Message \cup {None}]
    BY <1>1 DEF TypeOK
  <2>2. m.op # "add" => e = m.id
    BY <1>3
  <2>3. CASE m.here \/ m.op = "art"
    <3>1. wire' = [wire EXCEPT ![c].id = e, ![c].done = TRUE]
      BY <1>3, <2>3 DEF AnswerOn
    <3>2. wire'[c] = Done(m, e) /\ \A d \in Conn \ {c} : wire'[d] = wire[d]
      BY <2>1, <3>1 DEF Done
    <3>3. /\ Done(m, e) \in Message
          /\ Done(m, e).op = m.op /\ Done(m, e).id = e
          /\ Done(m, e).done = TRUE /\ Done(m, e).here = m.here
          /\ m.op = "count" => Done(m, e).count = m.count
          /\ m.op = "art" => Done(m, e).art = m.art /\ Done(m, e).previous = m.previous
      BY <1>2, <1>4, <2>2, DoneIs
    <3>4. /\ untold \subseteq untold' /\ untold' \subseteq Entry
          /\ page \in {"answered", "editor"} /\ ~wire[c].here => e \in untold'
      BY <1>1, <1>3, <1>4 DEF AnswerOn, Untold, TypeOK
    <3> QED
      BY <2>3, <3>2, <3>3, <3>4, NoneIsNoRecord DEF Answered
  <2>4. CASE ~(m.here \/ m.op = "art")
    <3>1. wire' = [wire EXCEPT ![c] = None]
      BY <1>3, <2>4 DEF AnswerOn, Hangup
    <3>2. wire'[c] = None /\ \A d \in Conn \ {c} : wire'[d] = wire[d]
      BY <2>1, <3>1
    <3>3. /\ untold \subseteq untold' /\ untold' \subseteq Entry
          /\ page \in {"answered", "editor"} /\ ~wire[c].here => e \in untold'
      BY <1>1, <1>3, <1>4 DEF AnswerOn, Untold, TypeOK
    <3> QED
      BY <2>4, <3>2, <3>3 DEF Answered
  <2> QED
    BY <2>3, <2>4
<1>7. dialog' \in Dialog /\ dialog'.id = dialog.id /\ dialog'.state = dialog.state
  <2>1. dialog \in Dialog
    BY <1>1 DEF TypeOK
  <2>2. CASE m.op = "art" /\ IsOpen /\ dialog.id = m.id
    <3>1. dialog' = [dialog EXCEPT !.wrote = @ \cup {m.art}]
      BY <2>2 DEF Carry
    <3>2. dialog.wrote \cup {m.art} \in SUBSET Art
      BY <1>2, <2>1, <2>2 DEF Dialog
    <3> QED
      BY <2>1, <3>1, <3>2 DEF Dialog
  <2>3. CASE ~(m.op = "art" /\ IsOpen /\ dialog.id = m.id)
    BY <2>1, <2>3 DEF Carry
  <2> QED
    BY <2>2, <2>3
<1>8. UNCHANGED <<page, answer, view, entries, copy, order, images, raced, due, mixed>>
  BY DEF Carry
<1> QED
  BY <1>1, <1>2, <1>4, <1>5, <1>6, <1>7, <1>8

\* An answer that is on its way to the page does not know of it.
LEMMA CarryAnswer ==
  ASSUME CardsInv, NEW c \in Conn, wire[c] # None, UNCHANGED <<page, answer>>,
         NEW e \in Entry, Carried(wire[c], e), Answered(c, e)
  PROVE  AnswerFits'
<1> SUFFICES ASSUME page = "answered", NEW x \in Entry \ untold'
             PROVE  answer[x] = rows'[x]
  BY DEF AnswerFits
<1>1. ~wire[c].here
  BY DEF CardsInv, PageOK
<1>2. x # e /\ x \notin untold
  BY <1>1 DEF Answered
<1> QED
  BY <1>2 DEF CardsInv, AnswerFits, Carried

\* What the page will hear of an entry is what the server has.
LEMMA CarryFollows ==
  ASSUME CardsInv, NEW c \in Conn, wire[c] # None, wire[c].done = FALSE,
         UNCHANGED <<page, copy, raced>>, NEW e \in Entry, Carried(wire[c], e), Answered(c, e)
  PROVE  EntriesFollow'
<1> PICK m : m = wire[c]
  OBVIOUS
<1>1. /\ m.op \in {"add", "count", "delete", "art"} /\ m.here \in BOOLEAN
      /\ m.op = "add" => m.id = None
      /\ e # None
  BY OnTheWire, EditorCardsAssumption DEF CardsInv, ServerFits, AddFits
<1> SUFFICES ASSUME page = "editor", NEW x \in Entry \ (untold' \cup raced)
             PROVE  Follows(x)' /\ OneChange(x)'
  BY DEF EntriesFollow
<1>2. Follows(x) /\ OneChange(x) /\ x # None
  BY EditorCardsAssumption DEF CardsInv, EntriesFollow, Answered
<1>3. \A d \in Conn \ {c} : wire'[d] = wire[d]
  BY DEF Answered
<1>4. \A op : ~Tells(wire[c], op, x)
  BY DEF Tells
<1>5. OneChange(x)'
  <2>1. NoMoreChanges(x)
    <3> SUFFICES ASSUME NEW op \in {"count", "art"}, Asks(wire'[c], op, x), wire'[c].here
                 PROVE  Asks(wire[c], op, x) /\ wire[c].here
      BY <1>3 DEF NoMoreChanges
    <3> QED
      BY DEF Asks, Answered, Carried
  <2> QED
    BY <1>2, <2>1, EntryFrame
<1>6. CASE x # e
  <2>1. SameNews(x)
    <3>1. \A op : ~Tells(wire'[c], op, x)
      BY <1>6 DEF Tells, Asks, Answered
    <3> QED
      BY <1>3, <1>4, <3>1 DEF SameNews
  <2>2. rows'[x] = rows[x] /\ copy'[x] = copy[x]
    BY <1>6 DEF Carried
  <2> QED
    BY <1>2, <1>5, <2>1, <2>2, EntryFrame
<1>7. CASE x = e
  <2>1. m.here
    BY <1>7 DEF Answered
  <2>2. /\ wire'[c] # None /\ wire'[c].op = m.op /\ wire'[c].id = e
        /\ wire'[c].done = TRUE /\ wire'[c].here = TRUE
        /\ m.op = "count" => wire'[c].count = m.count
        /\ m.op = "art" => wire'[c].art = m.art
    BY <1>1, <2>1 DEF Answered
  <2>3. \A op : Tells(wire'[c], op, e) <=> op = m.op
    BY <2>2 DEF Tells, Asks
  <2>4. \A op : \A d \in Conn : Tells(wire[d], op, e) => Tells(wire'[d], op, e)
    BY <1>3, <1>4, <1>7
  <2>5. \A op : \A d \in Conn : Tells(wire'[d], op, e) => Tells(wire[d], op, e) \/ (d = c /\ op = m.op)
    BY <1>3, <2>3
  <2>6. CASE m.op = "add"
    <3>1. copy[e] = None /\ rows[e] = None
      BY <2>6 DEF Carried, CardsInv, BornOK
    <3> QED
      BY <1>5, <1>7, <2>3, <2>6, <3>1 DEF Follows
  <2>7. CASE m.op = "delete"
    <3>1. rows'[e] = None
      BY <2>7 DEF Carried
    <3> QED
      BY <1>5, <1>7, <2>3, <2>7, <3>1 DEF Follows
  <2>8. CASE m.op = "count"
    <3>1. /\ rows[e] # None /\ rows'[e] # None
          /\ rows'[e].count = m.count /\ rows'[e].art = rows[e].art
      BY <2>8 DEF Carried
    <3>2. \A d \in Conn : Tells(wire'[d], "count", e) => d = c
      <4> SUFFICES ASSUME NEW d \in Conn, d # c, Tells(wire[d], "count", e)
                   PROVE  FALSE
        BY <1>3
      <4>1. Asks(wire[c], "count", e) /\ wire[c].here
        BY <2>1, <2>8 DEF Asks, Carried
      <4> QED
        BY <1>2, <1>7, <4>1 DEF OneChange, Tells
    <3>3. \A d \in Conn : Tells(wire'[d], "art", e) => Tells(wire[d], "art", e) /\ wire'[d] = wire[d]
      BY <1>3, <2>3, <2>8
    <3>4. \E d \in Conn : Tells(wire'[d], "count", e)
      BY <2>3, <2>8
    <3> QED
      BY <1>2, <1>5, <1>7, <2>2, <2>4, <2>8, <3>1, <3>2, <3>3, <3>4 DEF Follows
  <2>9. CASE m.op = "art"
    <3>1. /\ rows[e] # None /\ rows'[e] # None
          /\ rows'[e].count = rows[e].count /\ rows'[e].art = m.art
      BY <2>9 DEF Carried
    <3>2. \A d \in Conn : Tells(wire'[d], "art", e) => d = c
      <4> SUFFICES ASSUME NEW d \in Conn, d # c, Tells(wire[d], "art", e)
                   PROVE  FALSE
        BY <1>3
      <4>1. Asks(wire[c], "art", e) /\ wire[c].here
        BY <2>1, <2>9 DEF Asks, Carried
      <4> QED
        BY <1>2, <1>7, <4>1 DEF OneChange, Tells
    <3>3. \A d \in Conn : Tells(wire'[d], "count", e) => Tells(wire[d], "count", e) /\ wire'[d] = wire[d]
      BY <1>3, <2>3, <2>9
    <3>4. \E d \in Conn : Tells(wire'[d], "art", e)
      BY <2>3, <2>9
    <3> QED
      BY <1>2, <1>5, <1>7, <2>2, <2>4, <2>9, <3>1, <3>2, <3>3, <3>4 DEF Follows
  <2> QED
    BY <1>1, <2>6, <2>7, <2>8, <2>9
<1> QED
  BY <1>6, <1>7

LEMMA CarryFits ==
  ASSUME CardsInv, NEW c \in Conn, wire[c] # None, wire[c].done = FALSE,
         UNCHANGED <<copy, answer>>, dialog'.id = dialog.id, dialog'.state = dialog.state,
         NEW e \in Entry, Carried(wire[c], e), Answered(c, e)
  PROVE  BornOK' /\ ServerFits'
<1> PICK m : m = wire[c]
  OBVIOUS
<1>1. /\ m.op \in {"add", "count", "delete", "art"} /\ m.here \in BOOLEAN
      /\ m.op = "add" => m.id = None
      /\ e # None /\ None \notin Entry /\ born \subseteq Entry
  BY OnTheWire, EditorCardsAssumption DEF CardsInv, ServerFits, AddFits, TypeOK
<1>2. /\ \A d \in Conn \ {c} : wire'[d] = wire[d]
      /\ wire'[c] # None => /\ wire'[c].op = m.op /\ wire'[c].id = e /\ wire'[c].done = TRUE
                            /\ wire'[c].here = m.here /\ (m.here \/ m.op = "art")
  BY DEF Answered
<1>3. BornOK /\ IsOpen' = IsOpen
  BY DEF CardsInv, IsOpen
<1>4. born \subseteq born' /\ e \in born' /\ \A x \in born : x # e => rows'[x] = rows[x]
  BY <1>1 DEF Carried
<1>5. \A x \in Entry : rows'[x] # None => x \in born' /\ (x \in born => rows[x] # None)
  BY <1>1, <1>3, <1>4 DEF Carried, BornOK
<1>6. BornOK'
  BY <1>2, <1>3, <1>4, <1>5 DEF BornOK
<1>7. ASSUME NEW d \in Conn, AddFits(d)
      PROVE  AddFits(d)'
  <2>1. CASE d = c
    <3> SUFFICES ASSUME wire'[c] # None, m.op = "add"
                 PROVE  /\ m.here /\ copy[e] = None /\ rows'[e] = [count |-> 1, art |-> None]
                        /\ IsOpen => dialog.id # e
                        /\ \A x \in Conn \ {c} : wire[x] # None => wire[x].id # e
      BY <1>1, <1>2, <1>3, <2>1 DEF AddFits
    <3>1. e \notin born /\ rows'[e] = [count |-> 1, art |-> None]
      BY DEF Carried
    <3> QED
      BY <1>1, <1>2, <1>3, <3>1 DEF BornOK
  <2>2. CASE d # c
    <3> SUFFICES ASSUME wire[d] # None, wire[d].op = "add", wire[d].done
                 PROVE  AddFits(d)'
      BY <1>2, <1>7, <2>2 DEF AddFits
    <3> PICK i : i = wire[d].id
      OBVIOUS
    <3>1. /\ wire[d].here /\ i # None /\ copy[i] = None /\ rows[i] = [count |-> 1, art |-> None]
          /\ IsOpen => dialog.id # i
          /\ \A x \in Conn \ {d} : wire[x] # None => wire[x].id # i
      BY <1>7 DEF AddFits
    <3>2. i \in born
      BY <1>3, <3>1 DEF BornOK
    <3>3. e # i
      BY <1>1, <2>2, <3>1, <3>2 DEF Carried
    <3>4. rows'[i] = rows[i]
      BY <1>4, <3>2, <3>3
    <3>5. \A x \in Conn \ {d} : wire'[x] # None => wire'[x].id # i
      BY <1>2, <3>1, <3>3
    <3> QED
      BY <1>2, <1>3, <2>2, <3>1, <3>4, <3>5 DEF AddFits
  <2> QED
    BY <2>1, <2>2
<1>8. ASSUME NEW d \in Conn, DeleteFits(d)
      PROVE  DeleteFits(d)'
  <2>1. CASE d = c
    BY <1>2, <2>1 DEF DeleteFits, Carried
  <2>2. CASE d # c
    <3> SUFFICES ASSUME wire[d] # None, wire[d].op = "delete", wire[d].done
                 PROVE  rows'[wire[d].id] = None
      BY <1>2, <2>2 DEF DeleteFits
    <3>1. wire[d].id \in Entry /\ wire[d].id \in born /\ rows[wire[d].id] = None
      BY <1>1, <1>3, <1>8, OnTheWire DEF DeleteFits, BornOK, CardsInv
    <3> QED
      BY <1>5, <3>1
  <2> QED
    BY <2>1, <2>2
<1>9. DialogFits'
  <2> SUFFICES ASSUME IsOpen, rows'[dialog.id] # None
               PROVE  copy[dialog.id] # None
    BY <1>3 DEF DialogFits
  <2>1. dialog.id \in born /\ dialog.id \in Entry
    BY <1>1, <1>3 DEF BornOK
  <2> QED
    BY <1>5, <2>1 DEF CardsInv, ServerFits, DialogFits
<1> QED
  BY <1>6, <1>7, <1>8, <1>9 DEF CardsInv, ServerFits

\* The page hears nothing of it yet, and the picks under way are those that were.
LEMMA CarryArt ==
  ASSUME CardsInv, NEW c \in Conn, wire[c] # None,
         UNCHANGED <<page, images, due, mixed>>, NEW e \in Entry, Carried(wire[c], e), Answered(c, e)
  PROVE  ArtOK'
<1> SUFFICES ASSUME page = "editor", NEW k \in Card \ mixed
             PROVE  ArtFits(k)'
  BY DEF ArtOK
<1>1. ArtFits(k) /\ Untouched(k) /\ fetched' = fetched
  BY DEF CardsInv, ArtOK, Untouched, images
<1>2. SamePicks(k)
  <2>1. \A d \in Conn \ {c} : wire'[d] = wire[d]
    BY DEF Answered
  <2>2. /\ PickOf(wire'[c], k) <=> PickOf(wire[c], k)
        /\ PickOf(wire[c], k) => wire'[c].art = wire[c].art /\ wire'[c].previous = wire[c].previous
    BY DEF PickOf, Answered, Carried
  <2> QED
    BY <2>1, <2>2 DEF SamePicks
<1> QED
  BY <1>1, <1>2, CardFrame

LEMMA CarryCards ==
  ASSUME CardsInv, NEW c \in Conn, Carry(c)
  PROVE  CardsInv'
<1>1. /\ wire[c] # None /\ wire[c].done = FALSE
      /\ UNCHANGED <<page, answer, view, entries, copy, order, images, raced, due, mixed>>
      /\ rows' \in [Entry -> Row \cup {None}]
      /\ dialog' \in Dialog /\ dialog'.id = dialog.id /\ dialog'.state = dialog.state
  BY CarryIs
<1>2. PICK e \in Entry : Carried(wire[c], e) /\ Answered(c, e)
  BY CarryIs
<1>3. BornOK' /\ ServerFits' /\ EntriesFollow' /\ AnswerFits' /\ ArtOK'
  <2>1. /\ UNCHANGED <<copy, answer>> /\ UNCHANGED <<page, copy, raced>>
        /\ UNCHANGED <<page, answer>> /\ UNCHANGED <<page, images, due, mixed>>
    BY <1>1
  <2> QED
    BY <1>1, <1>2, <2>1, CarryFollows, CarryAnswer, CarryFits, CarryArt
<1>4. TypeOK'
  <2>1. wire' \in [Conn -> Message \cup {None}]
    <3>1. wire' = [d \in Conn |-> wire'[d]]
      BY DEF Carry, AnswerOn, Hangup, CardsInv, TypeOK
    <3>2. \A d \in Conn : wire'[d] \in Message \cup {None}
      BY <1>2 DEF Answered, CardsInv, TypeOK
    <3> QED
      BY <3>1, <3>2
  <2>2. born' \subseteq Entry /\ untold' \subseteq Entry
    <3>1. born' \subseteq born \cup {e}
      BY <1>2, OnTheWire, <1>1 DEF Carried, CardsInv
    <3> QED
      BY <1>2, <3>1 DEF Answered, CardsInv, TypeOK
  <2> QED
    BY <1>1, <2>1, <2>2 DEF CardsInv, TypeOK, images
<1>5. OrderOK' /\ Shown' = Shown /\ IsOpen' = IsOpen
  BY <1>1 DEF CardsInv, OrderOK, Shown, IsOpen
<1>6. PageOK'
  <2>1. \A d \in Conn : wire'[d] # None /\ wire'[d].here => page = "editor"
    BY <1>1, <1>2 DEF Answered, CardsInv, PageOK
  <2> QED
    BY <1>1, <1>5, <2>1 DEF CardsInv, PageOK, images
<1> QED
  BY <1>3, <1>4, <1>5, <1>6 DEF CardsInv

--------------------------------------------------------------------------------
(***************************************************************************)
(* The page hears an answer.                                               *)
(***************************************************************************)

\* A request is no longer under way.
Ended(c) == wire[c] # None /\ wire'[c] = None /\ \A d \in Conn \ {c} : wire'[d] = wire[d]

LEMMA EndedIs ==
  ASSUME CardsInv, NEW c \in Conn, wire[c] # None, Hangup(c)
  PROVE  Ended(c) /\ wire' \in [Conn -> Message \cup {None}]
BY DEF CardsInv, TypeOK, Hangup, Ended

LEMMA EndedFrame ==
  ASSUME NEW c \in Conn, Ended(c)
  PROVE  /\ \A e : NoMoreChanges(e)
         /\ \A e : (\A op : ~Tells(wire[c], op, e)) => SameNews(e)
         /\ \A k : ~PickOf(wire[c], k) => SamePicks(k)
<1>1. \A op, e : ~Asks(wire'[c], op, e) /\ ~Tells(wire'[c], op, e)
  BY DEF Ended, Asks, Tells
<1>2. \A e : NoMoreChanges(e)
  BY <1>1 DEF NoMoreChanges, Ended
<1>3. ASSUME NEW e, \A op : ~Tells(wire[c], op, e)
      PROVE  SameNews(e)
  BY <1>1, <1>3 DEF SameNews, Ended
<1>4. ASSUME NEW k, ~PickOf(wire[c], k)
      PROVE  SamePicks(k)
  <2>1. ~PickOf(wire'[c], k)
    BY DEF Ended, PickOf
  <2> QED
    BY <1>4, <2>1 DEF SamePicks, Ended
<1> QED
  BY <1>2, <1>3, <1>4

\* The dialog is what it was, but for what it says of the pick.
DialogStays ==
  /\ dialog' \in Dialog /\ dialog'.id = dialog.id /\ (IsOpen' <=> IsOpen)

LEMMA LatestIsOpen ==
  ASSUME IInv, NEW c \in Conn, wire[c] # None, IsLatest(wire[c])
  PROVE  IsOpen
BY DEF IInv, LatestIsShown, Decides, IsOpen

\* What the server knows of is left as it was.
LEMMA EndedFits ==
  ASSUME CardsInv, NEW c \in Conn, Ended(c), UNCHANGED <<server, page, answer>>, DialogStays,
         \A x \in Entry : x # wire[c].id => copy'[x] = copy[x],
         \A x \in Entry : copy'[x] # None => copy[x] # None \/ x \in born,
         \A x \in Entry : rows[x] # None /\ copy[x] # None => copy'[x] # None
  PROVE  BornOK' /\ ServerFits'
<1> USE DEF server
<1>1. BornOK'
  BY DEF CardsInv, BornOK, Ended, DialogStays
<1>2. ASSUME NEW d \in Conn
      PROVE  AddFits(d)' /\ DeleteFits(d)'
  <2>1. CASE d = c
    BY <2>1 DEF AddFits, DeleteFits, Ended
  <2>2. CASE d # c
    <3>1. AddFits(d) /\ DeleteFits(d) /\ wire'[d] = wire[d]
      BY <2>2 DEF CardsInv, ServerFits, Ended
    <3>2. DeleteFits(d)'
      BY <3>1 DEF DeleteFits
    <3>3. AddFits(d)'
      <4> SUFFICES ASSUME wire[d] # None, wire[d].op = "add", wire[d].done
                   PROVE  AddFits(d)'
        BY <3>1 DEF AddFits
      <4>1. /\ wire[d].here /\ wire[d].id # None
            /\ copy[wire[d].id] = None /\ rows[wire[d].id] = [count |-> 1, art |-> None]
            /\ IsOpen => dialog.id # wire[d].id
            /\ \A x \in Conn \ {d} : wire[x] # None => wire[x].id # wire[d].id
        BY <3>1 DEF AddFits
      <4>2. copy'[wire[d].id] = None
        <5>1. wire[d].id \in Entry
          BY <4>1, OnTheWire DEF CardsInv
        <5>2. wire[d].id # wire[c].id
          BY <2>2, <4>1 DEF Ended
        <5> QED
          BY <4>1, <5>1, <5>2
      <4>3. \A x \in Conn \ {d} : wire'[x] # None => wire'[x].id # wire[d].id
        BY <4>1 DEF Ended
      <4> QED
        BY <3>1, <4>1, <4>2, <4>3 DEF AddFits, DialogStays
    <3> QED
      BY <3>2, <3>3
  <2> QED
    BY <2>1, <2>2
<1>3. DialogFits'
  <2>1. IsOpen => dialog.id \in Entry
    BY DEF CardsInv, BornOK, TypeOK
  <2> QED
    BY <2>1 DEF CardsInv, ServerFits, DialogFits, DialogStays
<1> QED
  BY <1>1, <1>2, <1>3 DEF ServerFits

\* Nobody hears it.
LEMMA UnheardStep ==
  ASSUME CardsInv, NEW c \in Conn, HearAnswer(c), ~wire[c].here
  PROVE  CardsInv'
<1>1. /\ wire[c] # None /\ Hangup(c)
      /\ UNCHANGED <<copy, entries, order, images, dialog, server, page, answer, view, ghosts>>
  BY DEF HearAnswer, ghosts
<1> USE DEF server, images, ghosts
<1>2. Ended(c) /\ wire' \in [Conn -> Message \cup {None}]
  BY <1>1, EndedIs
<1>3. TypeOK' /\ DialogStays
  BY <1>1, <1>2 DEF CardsInv, TypeOK, DialogStays, IsOpen
<1>4. BornOK' /\ ServerFits'
  BY <1>1, <1>2, <1>3, EndedFits
<1>5. OrderOK' /\ Shown' = Shown
  BY <1>1 DEF CardsInv, OrderOK, Shown
<1>6. PageOK'
  BY <1>1, <1>2, <1>3, <1>5 DEF CardsInv, PageOK, DialogStays, Ended
<1>7. EntriesFollow' /\ AnswerFits'
  <2>1. AnswerFits'
    BY <1>1 DEF CardsInv, AnswerFits
  <2> SUFFICES ASSUME page = "editor", NEW e \in Entry \ (untold \cup raced)
               PROVE  Follows(e)' /\ OneChange(e)'
    BY <1>1, <2>1 DEF EntriesFollow
  <2>2. Follows(e) /\ OneChange(e)
    BY DEF CardsInv, EntriesFollow
  <2>3. SameNews(e) /\ NoMoreChanges(e)
    BY <1>2, EndedFrame DEF Tells
  <2> QED
    BY <1>1, <2>2, <2>3, EntryFrame
<1>8. ArtOK'
  <2> SUFFICES ASSUME page = "editor", NEW k \in Card \ mixed
               PROVE  ArtFits(k)'
    BY <1>1 DEF ArtOK
  <2>1. ArtFits(k) /\ Untouched(k) /\ due'[k] = due[k] /\ fetched' = fetched
    BY <1>1 DEF CardsInv, ArtOK, Untouched
  <2>2. SamePicks(k)
    BY <1>2, EndedFrame DEF PickOf
  <2> QED
    BY <2>1, <2>2, CardFrame
<1> QED
  BY <1>3, <1>4, <1>5, <1>6, <1>7, <1>8 DEF CardsInv

\* What the page makes of an answer it hears.
Heard(m) ==
  /\ m.id \in Entry /\ m.id \in born
  /\ \A x \in Entry : x # m.id => copy'[x] = copy[x]
  /\ m.op = "add" => /\ copy[m.id] = None /\ copy'[m.id] # None
                     /\ copy'[m.id] = rows[m.id] /\ copy'[m.id].art = None
  /\ m.op = "delete" => copy'[m.id] = None /\ rows[m.id] = None
  /\ m.op \in {"count", "art"} => (copy'[m.id] = None <=> copy[m.id] = None)
  /\ m.op = "count" /\ copy[m.id] # None =>
       copy'[m.id].count = m.count /\ copy'[m.id].art = copy[m.id].art
  /\ m.op = "art" /\ copy[m.id] # None =>
       copy'[m.id].count = copy[m.id].count /\ copy'[m.id].art = m.art

HeardEntries ==
  /\ copy' \in [Entry -> Row \cup {None}]
  /\ entries' \in Seq(Entry) /\ ToSet(entries') = Shown' /\ IsInjective(entries')

LEMMA HeardIs ==
  ASSUME CardsInv, NEW c \in Conn, HearAnswer(c), wire[c].here
  PROVE  Heard(wire[c]) /\ HeardEntries
<1> PICK m : m = wire[c]
  OBVIOUS
<1>1. m # None /\ m.done /\ copy' = Told(m) /\ entries' = ToldEntries(m)
  BY DEF HearAnswer
<1>2. /\ m.op \in {"add", "count", "delete", "art"} /\ (m.op # "add" => m.id \in Entry)
      /\ (m.op = "count" => m.count \in 1 .. MaxCount) /\ (m.op = "art" => m.art \in Art)
      /\ (m.op = "add" => m.id \in Entry \cup {None})
  BY <1>1, OnTheWire DEF CardsInv
<1>3. /\ m.op = "add" => /\ m.id # None /\ copy[m.id] = None
                         /\ rows[m.id] = [count |-> 1, art |-> None]
      /\ m.op = "delete" => rows[m.id] = None
  BY <1>1 DEF CardsInv, ServerFits, AddFits, DeleteFits
<1>4. m.id \in Entry /\ m.id \in born
  <2>1. m.id \in Entry /\ m.id # None
    BY <1>2, <1>3, EditorCardsAssumption
  <2> QED
    BY <1>1, <2>1 DEF CardsInv, BornOK
<1>5. /\ copy \in [Entry -> Row \cup {None}] /\ entries \in Seq(Entry)
      /\ ToSet(entries) = Shown /\ IsInjective(entries)
      /\ [count |-> 1, art |-> None] \in Row
  BY EditorCardsAssumption DEF CardsInv, TypeOK, OrderOK, Row, Image
<1>6. ASSUME entries' = entries, copy' \in [Entry -> Row \cup {None}],
             \A x \in Entry : x # m.id => copy'[x] = copy[x],
             copy'[m.id] = None <=> copy[m.id] = None
      PROVE  HeardEntries
  <2>1. Shown' = Shown
    BY <1>6 DEF Shown
  <2> QED
    BY <1>5, <1>6, <2>1 DEF HeardEntries
<1>7. CASE m.op = "add"
  <2>1. copy' = [copy EXCEPT ![m.id] = [count |-> 1, art |-> None]] /\ entries' = Append(entries, m.id)
    BY <1>1, <1>7 DEF Told, ToldEntries
  <2>2. Heard(m)
    BY <1>3, <1>4, <1>5, <1>7, <2>1, NoneIsNoRecord DEF Heard
  <2>3. m.id \notin ToSet(entries)
    BY <1>3, <1>5, <1>7 DEF Shown
  <2>4. /\ Append(entries, m.id) \in Seq(Entry) /\ IsInjective(Append(entries, m.id))
        /\ ToSet(Append(entries, m.id)) = ToSet(entries) \cup {m.id}
    BY <1>4, <1>5, <2>3, LongerLists
  <2>5. Shown' = Shown \cup {m.id}
    BY <1>4, <1>5, <2>1, NoneIsNoRecord DEF Shown
  <2> QED
    BY <1>5, <1>7, <2>1, <2>2, <2>4, <2>5 DEF HeardEntries
<1>8. CASE m.op = "delete"
  <2>1. copy' = [copy EXCEPT ![m.id] = None] /\ entries' = Filtered(entries, Entry \ {m.id})
    BY <1>1, <1>8 DEF Told, ToldEntries
  <2>2. Heard(m)
    BY <1>3, <1>4, <1>5, <1>8, <2>1 DEF Heard
  <2>3. /\ entries' \in Seq(Entry) /\ IsInjective(entries')
        /\ ToSet(entries') = ToSet(entries) \cap (Entry \ {m.id})
    BY <1>5, <2>1, FilteredLists
  <2>4. Shown' = Shown \cap (Entry \ {m.id})
    BY <1>4, <1>5, <2>1 DEF Shown
  <2> QED
    BY <1>5, <1>8, <2>1, <2>2, <2>3, <2>4 DEF HeardEntries
<1>9. CASE m.op \in {"count", "art"} /\ copy[m.id] = None
  <2>1. copy' = copy /\ entries' = entries
    BY <1>1, <1>9 DEF Told, ToldEntries
  <2> QED
    BY <1>4, <1>5, <1>6, <1>9, <2>1 DEF Heard
<1>10. CASE m.op = "count" /\ copy[m.id] # None
  <2>1. copy' = [copy EXCEPT ![m.id].count = m.count] /\ entries' = entries
    BY <1>1, <1>10 DEF Told, ToldEntries
  <2>2. /\ [copy[m.id] EXCEPT !.count = m.count] \in Row
        /\ [copy[m.id] EXCEPT !.count = m.count].count = m.count
        /\ [copy[m.id] EXCEPT !.count = m.count].art = copy[m.id].art
    BY <1>2, <1>4, <1>5, <1>10 DEF Row
  <2>3. copy' = [copy EXCEPT ![m.id] = [copy[m.id] EXCEPT !.count = m.count]]
    BY <1>4, <1>5, <2>1
  <2>4. /\ copy' \in [Entry -> Row \cup {None}] /\ copy'[m.id] # None
        /\ \A x \in Entry : x # m.id => copy'[x] = copy[x]
        /\ copy'[m.id].count = m.count /\ copy'[m.id].art = copy[m.id].art
    BY <1>4, <1>5, <2>2, <2>3, NoneIsNoRecord
  <2> QED
    BY <1>4, <1>6, <1>10, <2>1, <2>4 DEF Heard
<1>11. CASE m.op = "art" /\ copy[m.id] # None
  <2>1. copy' = [copy EXCEPT ![m.id].art = m.art] /\ entries' = entries
    BY <1>1, <1>11 DEF Told, ToldEntries
  <2>2. /\ [copy[m.id] EXCEPT !.art = m.art] \in Row
        /\ [copy[m.id] EXCEPT !.art = m.art].art = m.art
        /\ [copy[m.id] EXCEPT !.art = m.art].count = copy[m.id].count
    BY <1>2, <1>4, <1>5, <1>11 DEF Row, Image
  <2>3. copy' = [copy EXCEPT ![m.id] = [copy[m.id] EXCEPT !.art = m.art]]
    BY <1>4, <1>5, <2>1
  <2>4. /\ copy' \in [Entry -> Row \cup {None}] /\ copy'[m.id] # None
        /\ \A x \in Entry : x # m.id => copy'[x] = copy[x]
        /\ copy'[m.id].count = copy[m.id].count /\ copy'[m.id].art = m.art
    BY <1>4, <1>5, <2>2, <2>3, NoneIsNoRecord
  <2> QED
    BY <1>4, <1>6, <1>11, <2>1, <2>4 DEF Heard
<1> QED
  BY <1>2, <1>7, <1>8, <1>9, <1>10, <1>11

\* The page has the entry as the server has it, or will hear more of it.
LEMMA HeardFollows ==
  ASSUME CardsInv, NEW c \in Conn, Ended(c), wire[c].done, wire[c].here,
         UNCHANGED <<rows, page, untold, raced>>, Heard(wire[c])
  PROVE  EntriesFollow'
<1> PICK m : m = wire[c]
  OBVIOUS
<1> SUFFICES ASSUME page = "editor", NEW e \in Entry \ (untold \cup raced)
             PROVE  Follows(e)' /\ OneChange(e)'
  BY DEF EntriesFollow
<1>1. Follows(e) /\ OneChange(e)
  BY DEF CardsInv, EntriesFollow
<1>2. OneChange(e)'
  BY <1>1, EndedFrame, EntryFrame
<1>3. m.op \in {"add", "count", "delete", "art"} /\ m # None
  BY OnTheWire DEF CardsInv, Ended
<1>4. CASE e # m.id
  <2>1. SameNews(e)
    BY <1>4, EndedFrame DEF Tells, Asks
  <2>2. rows'[e] = rows[e] /\ copy'[e] = copy[e]
    BY <1>4 DEF Heard
  <2> QED
    BY <1>1, <1>2, <2>1, <2>2, EntryFrame
<1>5. CASE e = m.id
  <2>1. /\ \A op : \A d \in Conn : Tells(wire'[d], op, e) => Tells(wire[d], op, e) /\ wire'[d] = wire[d]
        /\ \A op : \A d \in Conn : Tells(wire[d], op, e) /\ op # m.op =>
             Tells(wire'[d], op, e) /\ wire'[d] = wire[d]
    BY DEF Ended, Tells, Asks
  <2>2. \A op : Tells(wire[c], op, e) <=> op = m.op
    BY <1>3, <1>5 DEF Tells, Asks
  <2>3. CASE m.op = "add"
    <3>1. \A op : \A d \in Conn : ~Tells(wire'[d], op, e)
      BY <1>3, <1>5, <2>3 DEF CardsInv, ServerFits, AddFits, Ended, Tells, Asks
    <3>2. copy'[e] # None /\ copy'[e] = rows[e]
      BY <1>5, <2>3 DEF Heard
    <3> QED
      BY <1>2, <3>1, <3>2 DEF Follows
  <2>4. CASE m.op = "delete"
    <3>1. copy'[e] = None /\ rows[e] = None
      BY <1>5, <2>4 DEF Heard
    <3> QED
      BY <1>2, <3>1 DEF Follows
  <2>5. CASE m.op = "count"
    <3>1. copy'[e] = None <=> copy[e] = None
      BY <1>5, <2>5 DEF Heard
    <3>2. ASSUME rows[e] # None, copy[e] # None
          PROVE  copy'[e].count = rows[e].count /\ copy'[e].art = copy[e].art
      BY <1>1, <1>5, <2>2, <2>5, <3>2 DEF Heard, Follows
    <3> QED
      BY <1>1, <1>2, <2>1, <2>5, <3>1, <3>2 DEF Follows
  <2>6. CASE m.op = "art"
    <3>1. copy'[e] = None <=> copy[e] = None
      BY <1>5, <2>6 DEF Heard
    <3>2. ASSUME rows[e] # None, copy[e] # None
          PROVE  copy'[e].count = copy[e].count /\ copy'[e].art = rows[e].art
      BY <1>1, <1>5, <2>2, <2>6, <3>2 DEF Heard, Follows
    <3> QED
      BY <1>1, <1>2, <2>1, <2>6, <3>1, <3>2 DEF Follows
  <2> QED
    BY <1>3, <2>3, <2>4, <2>5, <2>6
<1> QED
  BY <1>4, <1>5

\* The image a card has when an answer is heard.
HeardDue(m) ==
  due' = [k \in Card |-> IF m.op = "art" /\ k = CardOf[m.id] THEN m.art
                         ELSE IF k \in fetched THEN due[k] ELSE imageMap'[k]]

\* The art that is heard to be saved is the one the page shows.
LEMMA HeardArt ==
  ASSUME CardsInv, NEW c \in Conn, Ended(c), wire[c].here, page = "editor", UNCHANGED mixed,
         fetched \subseteq fetched', \A k \in Card : k \in fetched => Untouched(k),
         HeardDue(wire[c])
  PROVE  ArtOK'
<1> PICK m : m = wire[c]
  OBVIOUS
<1> SUFFICES ASSUME NEW k \in Card \ mixed
             PROVE  ArtFits(k)'
  BY DEF ArtOK
<1>1. ArtFits(k) /\ m # None
  BY DEF CardsInv, ArtOK, Ended
<1>2. \A d \in Conn : PickOf(wire'[d], k) => PickOf(wire[d], k)
  BY DEF Ended, PickOf
<1>3. CASE PickOf(m, k)
  <2>1. PickFits(m, k) /\ m.op = "art" /\ CardOf[m.id] = k
    BY <1>1, <1>3 DEF PickOf, ArtFits, PicksFit
  <2>2. \A d \in Conn : ~PickOf(wire'[d], k)
    BY <1>1, <1>3 DEF ArtFits, OnePick, PickOf, Ended
  <2>3. imageMap'[k] = m.art /\ due'[k] = m.art
    BY <2>1 DEF PickFits, Untouched, HeardDue
  <2> QED
    BY <2>2, <2>3 DEF ArtFits, OnePick, PicksFit, ImageFits
<1>4. CASE ~PickOf(m, k) /\ k \in fetched
  <2>1. SamePicks(k) /\ Untouched(k)
    BY <1>4, EndedFrame
  <2>2. due'[k] = due[k]
    BY <1>1, <1>4 DEF HeardDue, PickOf
  <2> QED
    BY <1>1, <2>1, <2>2, CardFrame
<1>5. CASE ~PickOf(m, k) /\ k \notin fetched
  <2>1. \A d \in Conn : ~PickOf(wire'[d], k)
    BY <1>1, <1>2, <1>5 DEF ArtFits, PicksFit, PickFits
  <2>2. due'[k] = imageMap'[k]
    BY <1>1, <1>5 DEF HeardDue, PickOf
  <2> QED
    BY <2>1, <2>2 DEF ArtFits, OnePick, PicksFit, ImageFits
<1> QED
  BY <1>3, <1>4, <1>5

LEMMA HeardStep ==
  ASSUME CardsInv, IInv, NEW c \in Conn, HearAnswer(c), wire[c].here
  PROVE  CardsInv'
<1>1. /\ wire[c] # None /\ wire[c].done /\ Hangup(c) /\ order' = entries'
      /\ FetchImages(entries', copy')
      /\ HeardDue(wire[c])
      /\ dialog' = IF IsLatest(wire[c]) THEN [dialog EXCEPT !.state = "saved"] ELSE dialog
      /\ UNCHANGED <<rows, born, page, answer, view, untold, raced, mixed>>
  BY DEF HearAnswer, server, HeardDue
<1>2. Ended(c) /\ wire' \in [Conn -> Message \cup {None}]
  BY <1>1, EndedIs
<1>3. Heard(wire[c]) /\ HeardEntries
  BY HeardIs
<1>4. TypeOK /\ page = "editor"
  BY <1>1 DEF CardsInv, PageOK
<1>5. DialogStays
  <2>1. dialog \in Dialog /\ (IsLatest(wire[c]) => IsOpen)
    BY <1>1, <1>4, LatestIsOpen DEF TypeOK
  <2> QED
    BY <1>1, <2>1 DEF Dialog, DialogStays, IsOpen
<1>6. /\ ImageTypes' /\ fetched' = fetched \cup {CardOf[e] : e \in Shown'}
      /\ \A k \in Card : k \in fetched => Untouched(k)
  <2> DEFINE ids == entries'
             list == copy'
  <2>1. /\ ids \in Seq(Entry) /\ ToSet(ids) = Shown' /\ list \in [Entry -> Row \cup {None}]
        /\ FetchImages(ids, list) /\ ImageTypes /\ \A e \in ToSet(ids) : list[e] # None
    BY <1>1, <1>3, <1>4 DEF HeardEntries, Shown, TypeOK, ImageTypes
  <2> HIDE DEF ids, list
  <2>2. /\ ImageTypes'
        /\ fetched' = fetched \cup {CardOf[e] : e \in ToSet(ids)}
        /\ \A k \in Card : k \in fetched => Untouched(k)
    BY <2>1, FetchedImages
  <2> QED
    BY <2>1, <2>2
<1>7. BornOK' /\ ServerFits'
  <2>1. /\ \A x \in Entry : x # wire[c].id => copy'[x] = copy[x]
        /\ \A x \in Entry : copy'[x] # None => copy[x] # None \/ x \in born
        /\ \A x \in Entry : rows[x] # None /\ copy[x] # None => copy'[x] # None
    <3>1. wire[c].op \in {"add", "count", "delete", "art"}
      BY <1>1, <1>4, OnTheWire
    <3> QED
      BY <1>3, <3>1 DEF Heard
  <2>2. UNCHANGED <<server, page, answer>>
    BY <1>1 DEF server
  <2> QED
    BY <1>2, <1>5, <2>1, <2>2, EndedFits
<1>8. EntriesFollow' /\ AnswerFits'
  BY <1>1, <1>2, <1>3, <1>4, HeardFollows DEF AnswerFits
<1>9. ArtOK'
  BY <1>1, <1>2, <1>4, <1>6, HeardArt
<1>10. TypeOK'
  <2>1. due' \in [Card -> Image]
    <3>1. wire[c].op = "art" => wire[c].art \in Image
      BY <1>1, <1>4, OnTheWire DEF Image
    <3> QED
      BY <1>1, <1>4, <1>6, <3>1 DEF HeardDue, TypeOK, ImageTypes
  <2> QED
    BY <1>1, <1>2, <1>3, <1>4, <1>5, <1>6, <2>1 DEF TypeOK, HeardEntries, ImageTypes, DialogStays
<1>11. OrderOK'
  BY <1>1, <1>3 DEF HeardEntries, OrderOK
<1>12. PageOK'
  BY <1>1, <1>2, <1>4, <1>5, <1>6 DEF CardsInv, PageOK, DialogStays
<1> QED
  BY <1>7, <1>8, <1>9, <1>10, <1>11, <1>12 DEF CardsInv

--------------------------------------------------------------------------------
(***************************************************************************)
(* A request fails.                                                        *)
(***************************************************************************)

\* What the page shows again after a pick that failed is what it is to show.
LEMMA FailArt ==
  ASSUME CardsInv, NEW c \in Conn, Ended(c), RevertImage(wire[c]), UNCHANGED <<page, due>>,
         mixed' = IF wire[c].op = "art" /\ wire[c].here /\ wire[c].previous = None
                  THEN mixed \cup {CardOf[wire[c].id]} ELSE mixed
  PROVE  ArtOK'
<1> PICK m : m = wire[c]
  OBVIOUS
<1> SUFFICES ASSUME page = "editor", NEW k \in Card \ mixed'
             PROVE  ArtFits(k)'
  BY DEF ArtOK
<1>1. ArtFits(k) /\ TypeOK /\ m # None /\ ~(PickOf(m, k) /\ m.previous = None)
  BY DEF CardsInv, ArtOK, PickOf, Ended
<1>2. fetched' = fetched /\ fetches' = fetches
  BY DEF RevertImage, images
<1>3. CASE ~PickOf(m, k)
  <2>1. SamePicks(k)
    BY <1>3, EndedFrame
  <2>2. Untouched(k)
    <3>1. CASE m.op = "art" /\ m.previous # None
      BY <1>1, <1>2, <1>3, <3>1 DEF RevertImage, OverrideImage, With, Untouched, PickOf, TypeOK
    <3>2. CASE ~(m.op = "art" /\ m.previous # None)
      BY <3>2 DEF RevertImage, Untouched, images
    <3> QED
      BY <3>1, <3>2
  <2> QED
    BY <1>1, <1>2, <2>1, <2>2, CardFrame
<1>4. CASE PickOf(m, k)
  <2>1. PickFits(m, k) /\ m.op = "art" /\ m.here /\ CardOf[m.id] = k /\ m.previous # None
    BY <1>1, <1>4 DEF PickOf, ArtFits, PicksFit
  <2>2. \A d \in Conn : ~PickOf(wire'[d], k)
    BY <1>1, <1>4 DEF ArtFits, OnePick, PickOf, Ended
  <2>3. imageMap'[k] = m.previous
    BY <1>1, <2>1 DEF RevertImage, OverrideImage, With, TypeOK
  <2>4. imageMap'[k] = due'[k]
    BY <2>1, <2>3 DEF PickFits
  <2> QED
    BY <2>2, <2>4 DEF ArtFits, OnePick, PicksFit, ImageFits
<1> QED
  BY <1>3, <1>4

LEMMA FailStep ==
  ASSUME CardsInv, IInv, NEW c \in Conn, Fail(c)
  PROVE  CardsInv'
<1> PICK m : m = wire[c]
  OBVIOUS
<1>1. /\ m # None /\ Hangup(c) /\ RevertImage(m)
      /\ dialog' = IF IsLatest(m)
                   THEN [dialog EXCEPT !.active = m.was, !.state = "error"] ELSE dialog
      /\ IF m.done THEN Untold(m.id) ELSE UNCHANGED untold
      /\ mixed' = IF m.op = "art" /\ m.here /\ m.previous = None
                  THEN mixed \cup {CardOf[m.id]} ELSE mixed
      /\ UNCHANGED <<rows, born, page, answer, view, entries, copy, order, raced, due>>
  BY DEF Fail, server
<1>2. Ended(c) /\ wire' \in [Conn -> Message \cup {None}]
  BY <1>1, EndedIs
<1>3. TypeOK /\ m.op \in {"add", "count", "delete", "art"} /\ m.done \in BOOLEAN
  BY <1>1, OnTheWire DEF CardsInv
<1>4. /\ m.op = "art" => m.was \in Image /\ m.previous \in Image /\ CardOf[m.id] \in Card
      /\ m.done => m.id \in Entry
  <2>1. m.op # "add" => m.id \in Entry
    BY <1>1, <1>3, OnTheWire
  <2>2. m.op = "add" /\ m.done => m.id \in Entry
    BY <1>1, <1>3, OnTheWire DEF CardsInv, ServerFits, AddFits
  <2>3. m.op = "art" => m.was \in Image /\ m.previous \in Image
    BY <1>1, <1>3, OnTheWire
  <2> QED
    BY <2>1, <2>2, <2>3, EditorCardsAssumption
<1>5. DialogStays
  <2>1. CASE IsLatest(m)
    <3>1. dialog \in Dialog /\ IsOpen /\ m.op = "art"
      BY <1>1, <1>3, <2>1, LatestIsOpen DEF TypeOK, IsLatest
    <3>2. dialog' = [dialog EXCEPT !.active = m.was, !.state = "error"]
      BY <1>1, <2>1
    <3>3. dialog' \in Dialog /\ dialog'.id = dialog.id /\ dialog'.state = "error"
      BY <1>4, <3>1, <3>2 DEF Dialog
    <3> QED
      BY <3>1, <3>3 DEF DialogStays, IsOpen
  <2>2. CASE ~IsLatest(m)
    BY <1>1, <1>3, <2>2 DEF DialogStays, TypeOK, IsOpen
  <2> QED
    BY <2>1, <2>2
<1>6. /\ cache' \in [Card -> Image] /\ imageMap' \in [Card -> Image]
      /\ fetched' = fetched /\ fetches' = fetches /\ (~m.here => imageMap' = imageMap)
  <2>1. cache \in [Card -> Image] /\ imageMap \in [Card -> Image]
    BY <1>3 DEF TypeOK
  <2>2. CASE m.op = "art" /\ m.previous # None
    <3>1. OverrideImage(CardOf[m.id], m.previous, m.here) /\ fetched' = fetched /\ fetches' = fetches
      BY <1>1, <2>2 DEF RevertImage
    <3> QED
      BY <1>3, <1>4, <2>1, <2>2, <3>1 DEF OverrideImage, With
  <2>3. CASE ~(m.op = "art" /\ m.previous # None)
    BY <1>1, <2>1, <2>3 DEF RevertImage, images
  <2> QED
    BY <2>2, <2>3
<1>7. /\ untold \subseteq untold' /\ untold' \subseteq Entry
      /\ page = "editor" /\ m.done => m.id \in untold'
  BY <1>1, <1>3, <1>4 DEF Untold, TypeOK
<1>8. TypeOK'
  <2>1. mixed' \subseteq Card
    BY <1>1, <1>3, <1>4 DEF TypeOK
  <2> QED
    BY <1>1, <1>2, <1>3, <1>5, <1>6, <1>7, <2>1 DEF TypeOK, DialogStays
<1>9. BornOK' /\ ServerFits'
  BY <1>1, <1>2, <1>5, EndedFits DEF server
<1>10. OrderOK' /\ Shown' = Shown
  BY <1>1 DEF CardsInv, OrderOK, Shown
<1>11. PageOK'
  <2>1. page # "editor" => ~m.here
    BY <1>1 DEF CardsInv, PageOK
  <2> QED
    BY <1>1, <1>2, <1>5, <1>6, <1>10, <2>1 DEF CardsInv, PageOK, DialogStays, Ended
<1>12. EntriesFollow' /\ AnswerFits'
  <2>4. AnswerFits'
    BY <1>1, <1>7 DEF CardsInv, AnswerFits
  <2> SUFFICES ASSUME page = "editor", NEW e \in Entry \ (untold' \cup raced)
               PROVE  Follows(e)' /\ OneChange(e)'
    BY <1>1, <2>4 DEF EntriesFollow
  <2>1. Follows(e) /\ OneChange(e)
    BY <1>7 DEF CardsInv, EntriesFollow
  <2>2. \A op : ~Tells(wire[c], op, e)
    BY <1>7 DEF Tells, Asks
  <2>3. SameNews(e) /\ NoMoreChanges(e)
    BY <1>2, <2>2, EndedFrame
  <2> QED
    BY <1>1, <2>1, <2>3, EntryFrame
<1>13. ArtOK'
  BY <1>1, <1>2, FailArt
<1> QED
  BY <1>8, <1>9, <1>10, <1>11, <1>12, <1>13 DEF CardsInv

--------------------------------------------------------------------------------
(***************************************************************************)
(* The theorems about the cards.                                           *)
(***************************************************************************)

LEMMA CardsStep == CardsInv /\ IInv /\ [Next]_vars => CardsInv'
<1> SUFFICES ASSUME CardsInv, IInv, [Next]_vars PROVE CardsInv'
  OBVIOUS
<1>1. ASSUME NEW c \in Conn, HearAnswer(c)
      PROVE  CardsInv'
  BY <1>1, UnheardStep, HeardStep
<1> QED
  BY <1>1, OpenPageStep, LoadStep, LeaveStep, ImageStep, LookSteps, AskSteps, PickArtStep,
     CarryCards, FailStep DEF Next

LEMMA CardsInvariance == Spec => []CardsInv
<1>1. CardsInv /\ IInv /\ [Next]_vars => CardsInv'
  BY CardsStep
<1> QED
  BY <1>1, CardsInit, Invariance, PTL DEF Spec

\* Every variable keeps to its type.
THEOREM TypeCorrect == Spec => []TypeOK
<1>1. CardsInv => TypeOK
  BY DEF CardsInv
<1> QED
  BY <1>1, CardsInvariance, PTL

\* With nothing under way for an entry, the page shows of it what the server has
\* (RowsFollowServer), whatever order requests and answers come in, unless two changes of
\* it overlapped or an answer was lost (useDeck.ts updateEntry, updateEntryArt,
\* deleteEntry, DeckEditorPage.tsx handleCardSelect).
THEOREM RowsStayWithServer == Spec => []RowsFollowServer
<1>1. CardsInv => RowsFollowServer
  <2> SUFFICES ASSUME CardsInv, page = "editor", NEW e \in Entry \ (untold \cup raced), Quiet(e)
               PROVE  copy[e] = rows[e]
    BY DEF RowsFollowServer
  <2>1. \A op : \A c \in Conn : ~Tells(wire[c], op, e)
    BY DEF Quiet, Tells, Asks
  <2>2. Follows(e) /\ rows \in [Entry -> Row \cup {None}] /\ copy \in [Entry -> Row \cup {None}]
    BY DEF CardsInv, EntriesFollow, TypeOK
  <2>3. CASE rows[e] = None \/ copy[e] = None
    BY <2>1, <2>2, <2>3 DEF Follows
  <2>4. CASE rows[e] # None /\ copy[e] # None
    <3>1. copy[e].count = rows[e].count /\ copy[e].art = rows[e].art
      BY <2>1, <2>2, <2>4 DEF Follows
    <3>2. rows[e] \in Row /\ copy[e] \in Row
      BY <2>2, <2>4
    <3> QED
      BY <3>1, <3>2 DEF Row
  <2> QED
    BY <2>3, <2>4
<1> QED
  BY <1>1, CardsInvariance, PTL

\* The gallery shows every card of the deck, and each in one place (GalleryIsWhole),
\* however cards were dragged about (DeckGalleryView.tsx handleDrop).
THEOREM GalleryStaysWhole == Spec => []GalleryIsWhole
<1>1. CardsInv => GalleryIsWhole
  <2> SUFFICES ASSUME CardsInv PROVE GalleryIsWhole
    OBVIOUS
  <2>1. order \in Seq(Entry) /\ IsInjective(order) /\ ToSet(order) = {e \in Entry : copy[e] # None}
    BY DEF CardsInv, TypeOK, OrderOK, Shown
  <2>2. Len(order) = Cardinality(ToSet(order))
    BY <2>1, LengthOfList
  <2> QED
    BY <2>1, <2>2 DEF GalleryIsWhole
<1> QED
  BY <1>1, CardsInvariance, PTL

\* With no pick of a card under way, the page shows the art of its last pick that was saved
\* or, if none was, the image it had before (LastSavedPickIsShown), whatever earlier visits
\* and other pages write to the cache; cards picked during another pick or the lookup of the
\* card, or in vain with no image to go back to, excepted (useCardImages.ts overrideImage,
\* DeckEditorPage.tsx handlePickArt).
THEOREM LastSavedPickStaysShown == Spec => []LastSavedPickIsShown
<1>1. CardsInv => LastSavedPickIsShown
  <2> SUFFICES ASSUME CardsInv, page = "editor", NEW k \in Card \ mixed, Picks(k) = {}
               PROVE  imageMap[k] = due[k]
    BY DEF LastSavedPickIsShown
  <2>1. ArtFits(k)
    BY DEF CardsInv, ArtOK
  <2>2. \A c \in Conn : ~PickOf(wire[c], k)
    BY DEF Picks, PickOf
  <2> QED
    BY <2>1, <2>2 DEF ArtFits, ImageFits
<1> QED
  BY <1>1, CardsInvariance, PTL
================================================================================
