--------------------------- MODULE DeckEditorProofs ----------------------------
(***************************************************************************)
(* Proofs about DeckEditor, for any deck, any images and any number of     *)
(* requests under way.                                                     *)
(*                                                                         *)
(* What the editor has and what the server has drift apart only by what    *)
(* is under way or untold, from the moment the server reads the deck for   *)
(* it.  The invariant says so of the answers that are on their way         *)
(* (Follows), and of each of them that nothing else touches its entry      *)
(* (AnswersAreOwn): ids are never given twice, and the user deletes only   *)
(* what the editor shows.  An entry the editor has not heard of is in no   *)
(* list of covers, old or new, so that no cover is saved that it does not  *)
(* have (PutsAreOfKnownCards).                                             *)
(***************************************************************************)
EXTENDS DeckEditor, FiniteSetTheorems, SequenceTheorems, TLAPS

(***************************************************************************)
(* The inductive invariant.                                                *)
(***************************************************************************)
Distinct(list) == \A i, j \in DOMAIN list : list[i] = list[j] => i = j

\* A message of a kind is on a connection, and it has been answered.
On(c, op) == wire[c] # None /\ wire[c].op = op

AnsweredOn(c, op) == On(c, op) /\ wire[c].done

Answers(op) == {wire[c].entry : c \in {d \in Conn : AnsweredOn(d, op)}}

\* The covers that are saved are different cards of the deck.
SavedInOrder == rows \subseteq born /\ Shown(saved) \subseteq rows /\ Distinct(saved)

\* The editor has the deck, or what the server read of it is on its way.
Knows == page = "editor" \/ (page = "loading" /\ answer # None)

Known == IF page = "editor" THEN deck ELSE answer.rows

AnswerInOrder ==
  answer # None =>
    /\ page \in {"listing", "loading"} \/ run.at = "deck"
    /\ answer.rows \subseteq born /\ Shown(answer.saved) \subseteq answer.rows
    /\ Distinct(answer.saved)

\* What the effect awaits, and what it has in hand.
RunInOrder ==
  /\ run # NoRun => page \in {"tile", "editor"}
  /\ run.at = "deck" => page = "tile"
  /\ run.at = "lookups" =>
       /\ run.all \subseteq born /\ Shown(run.current) \subseteq run.all /\ Distinct(run.current)
       /\ page = "editor" => run.all = entries

CoversInOrder ==
  /\ Distinct(covers) /\ Shown(covers) \subseteq born
  /\ page = "editor" => Shown(covers) \cap rows \subseteq deck

\* What is rendered and not in the copy any more is gone from the server.
EntriesInOrder ==
  /\ deck \subseteq born /\ entries \subseteq born /\ rows \cap entries \subseteq deck
  /\ page # "editor" => deck = {} /\ entries = {}

\* A request is about entries that were given out, and an answer that is on its way is
\* for the editor that is there.
WireInOrder ==
  \A c \in Conn :
    /\ On(c, "add") /\ ~wire[c].done => wire[c].entry = None
    /\ On(c, "add") /\ wire[c].done => wire[c].entry \in rows \ deck
    /\ On(c, "delete") => wire[c].entry \in born
    /\ On(c, "delete") /\ wire[c].done => wire[c].entry \notin rows
    /\ On(c, "add") \/ On(c, "delete") =>
         /\ wire[c].done => wire[c].here
         /\ wire[c].here => page = "editor"

\* Nothing else is under way about an entry the editor is about to hear of.
AnswersAreOwn ==
  \A c, d \in Conn : AnsweredOn(c, "add") /\ c # d /\ (AnsweredOn(d, "add") \/ On(d, "delete"))
    => wire[c].entry # wire[d].entry

PutsAreOfKnownCards ==
  \A c \in Conn : On(c, "covers") =>
    /\ Shown(wire[c].ids) \subseteq born
    /\ Knows => Shown(wire[c].ids) \cap rows \subseteq Known

SavedAreKnown == Knows => Shown(saved) \subseteq Known

Follows ==
  Knows =>
    /\ rows \ Known \subseteq untold \cup Answers("add")
    /\ Known \ rows \subseteq untold \cup Answers("delete")

IInv ==
  /\ TypeOK
  /\ SavedInOrder /\ AnswerInOrder /\ RunInOrder /\ CoversInOrder /\ EntriesInOrder
  /\ WireInOrder /\ AnswersAreOwn /\ PutsAreOfKnownCards /\ SavedAreKnown /\ Follows
  /\ CoversAreInDeck /\ SlotsAreFilled

\* While the page stays as it is, so does what it knows.
LEMMA ViewStands ==
  ASSUME UNCHANGED view
  PROVE  /\ UNCHANGED <<page, answer, deck, entries>>
         /\ (Knows' <=> Knows) /\ Known' = Known
  BY DEF view, Knows, Known

\* The editor knows what it has.
LEMMA InEditor ==
  page = "editor" => Knows /\ Known = deck
  BY DEF Knows, Known

--------------------------------------------------------------------------------
(***************************************************************************)
(* Lists of covers.                                                        *)
(***************************************************************************)

LEMMA CoversAreLists ==
  ASSUME NEW list \in Covers
  PROVE  /\ list \in Seq(Entry) /\ Len(list) \in 0 .. 2 /\ DOMAIN list = 1 .. Len(list)
         /\ Shown(list) = {list[i] : i \in 1 .. Len(list)} /\ Shown(list) \subseteq Entry
  <1>1. PICK n \in 0 .. 2 : list \in [1 .. n -> Entry]
    BY DEF Covers, MaxCovers
  <1>2. list \in Seq(Entry) /\ Len(list) = n
    BY <1>1
  <1> QED
    BY <1>1, <1>2 DEF Shown

LEMMA ListsAreCovers ==
  ASSUME NEW list \in Seq(Entry), Len(list) <= 2
  PROVE  list \in Covers
  <1>1. Len(list) \in Nat /\ list \in [1 .. Len(list) -> Entry]
    BY LenProperties
  <1>2. Len(list) \in 0 .. 2
    BY <1>1
  <1> QED
    BY <1>1, <1>2 DEF Covers, MaxCovers

LEMMA ShortLists ==
  /\ <<>> \in Covers /\ Shown(<<>>) = {} /\ Distinct(<<>>) /\ Len(<<>>) = 0
  /\ \A e \in Entry : <<e>> \in Covers /\ Shown(<<e>>) = {e} /\ Distinct(<<e>>)
  <1>1. <<>> \in Covers
    <2>1. <<>> \in [1 .. 0 -> Entry]
      OBVIOUS
    <2> QED
      BY <2>1 DEF Covers, MaxCovers
  <1>2. ASSUME NEW e \in Entry
        PROVE  <<e>> \in Covers
    <2>1. <<e>> \in Seq(Entry) /\ Len(<<e>>) = 1
      OBVIOUS
    <2> QED
      BY <2>1, ListsAreCovers
  <1> QED
    BY <1>1, <1>2 DEF Shown, Distinct

\* What is left of a list when covers go.
LEMMA WithinLists ==
  ASSUME NEW list \in Covers, NEW S
  PROVE  /\ Within(list, S) \in Covers /\ Shown(Within(list, S)) = Shown(list) \cap S
         /\ Distinct(list) => Distinct(Within(list, S))
  <1> DEFINE left == Shown(list) \cap S
  <1>1. CASE left = Shown(list)
    BY <1>1 DEF Within
  <1>2. CASE left # Shown(list) /\ left = {}
    BY <1>2, ShortLists DEF Within
  <1>3. CASE left # Shown(list) /\ left # {}
    <2>1. PICK x : x = CHOOSE e \in left : TRUE
      OBVIOUS
    <2>2. x \in left
      BY <1>3, <2>1
    <2>3. left = {x}
      BY <1>3, <2>2, CoversAreLists
    <2>4. Within(list, S) = <<x>>
      BY <1>3, <2>1 DEF Within
    <2> QED
      BY <2>2, <2>3, <2>4, ShortLists, CoversAreLists
  <1> QED
    BY <1>1, <1>2, <1>3

--------------------------------------------------------------------------------
(***************************************************************************)
(* The default pick.                                                       *)
(***************************************************************************)

\* The candidates are in one order, whatever the lookups found.
LEMMA BeforeIsAnOrder ==
  ASSUME NEW known
  PROVE  /\ \A a \in Entry : ~Before(a, a, known)
         /\ \A a, b \in Entry : a # b => Before(a, b, known) \/ Before(b, a, known)
         /\ \A a, b, c \in Entry :
              Before(a, b, known) /\ Before(b, c, known) => Before(a, c, known)
  <1> DEFINE hp(e) == IF KeyOf[e] \in known THEN HP[KeyOf[e]] ELSE 0
  <1>1. \A e \in Entry : hp(e) \in Nat /\ Rank[e] \in Nat
    BY DeckEditorAssumption
  <1>2. \A a, b \in Entry : Before(a, b, known) <=>
          IF a \in Pokemon /\ b \in Pokemon
          THEN hp(a) > hp(b) \/ (hp(a) = hp(b) /\ Rank[a] < Rank[b])
          ELSE a \in Pokemon \/ (b \notin Pokemon /\ Rank[a] < Rank[b])
    BY DEF Before
  <1>3. \A a, b \in Entry : Rank[a] = Rank[b] => a = b
    BY DeckEditorAssumption
  <1> HIDE DEF hp
  <1> QED
    BY <1>1, <1>2, <1>3

\* So one of them is the first.
LEMMA FirstCandidate ==
  ASSUME NEW F \in SUBSET Entry, F # {}, NEW known
  PROVE  \E a \in F : \A b \in F \ {a} : Before(a, b, known)
  <1> DEFINE Below(a) == {b \in F : Before(b, a, known)}
             T == {Below(a) : a \in F}
  <1>1. IsFiniteSet(F)
    BY DeckEditorAssumption, FS_Subset
  <1>2. T \subseteq FiniteSubsetsOf(F) /\ T # {}
    <2>1. \A a \in F : Below(a) \in SUBSET F /\ IsFiniteSet(Below(a))
      BY <1>1, FS_Subset
    <2> QED
      BY <2>1 DEF FiniteSubsetsOf
  <1>3. PICK W \in T : \A V \in T : ~(<<V, W>> \in StrictSubsetOrdering(F))
    <2> HIDE DEF T
    <2> QED
      BY <1>2, FS_StrictSubsetOrderingWellFounded, WFMin
  <1>4. PICK a \in F : W = Below(a)
    OBVIOUS
  <1>5. ASSUME NEW b \in F \ {a}, ~Before(a, b, known)
        PROVE  FALSE
    <2>1. Before(b, a, known) /\ ~Before(b, b, known)
      BY <1>5, BeforeIsAnOrder
    <2>2. Below(b) \subseteq Below(a)
      BY <2>1, BeforeIsAnOrder
    <2>3. b \in Below(a) /\ b \notin Below(b)
      BY <2>1
    <2>4. <<Below(b), Below(a)>> \in (SUBSET F) \X (SUBSET F)
      OBVIOUS
    <2>5. <<Below(b), Below(a)>> \in StrictSubsetOrdering(F)
      BY <2>2, <2>3, <2>4 DEF StrictSubsetOrdering
    <2> QED
      BY <1>3, <1>4, <2>5
  <1> QED
    BY <1>5

\* Every card of the deck is shown by its key.
AllShown(list, all) == \A e \in all : \E c \in Shown(list) : KeyOf[c] = KeyOf[e]

\* A turn of the loop takes a card that is not shown yet, while there are a slot and a card.
LEMMA SlotFilled ==
  ASSUME NEW list \in Covers, Distinct(list), NEW all \in SUBSET Entry,
         Shown(list) \subseteq all, NEW known
  PROVE  LET next == FillSlot(list, all, known) IN
         /\ next \in Covers /\ Distinct(next) /\ Shown(next) \subseteq all
         /\ \/ next = list /\ (Len(list) = 2 \/ AllShown(list, all))
            \/ Len(next) = Len(list) + 1 /\ ~AllShown(list, all)
  <1> USE CoversAreLists
  <1>1. CASE Len(list) >= MaxCovers
    BY <1>1 DEF FillSlot, MaxCovers
  <1>2. CASE Free(list, all) = {}
    BY <1>2 DEF FillSlot, Free, AllShown
  <1>3. CASE Len(list) < MaxCovers /\ Free(list, all) # {}
    <2>1. PICK a : a = CHOOSE x \in Free(list, all) :
                         \A b \in Free(list, all) \ {x} : Before(x, b, known)
      OBVIOUS
    <2>2. Free(list, all) \in SUBSET Entry
      BY DEF Free
    <2>3. a \in Free(list, all)
      BY <1>3, <2>1, <2>2, FirstCandidate
    <2>4. a \in all /\ a \notin Shown(list) /\ ~AllShown(list, all)
      BY <2>3 DEF Free, AllShown
    <2>5. FillSlot(list, all, known) = Append(list, a)
      BY <1>3, <2>1 DEF FillSlot, MaxCovers
    <2> DEFINE next == Append(list, a)
    <2>6. /\ next \in Seq(Entry) /\ Len(next) = Len(list) + 1
          /\ \A i \in 1 .. Len(list) : next[i] = list[i]
          /\ next[Len(list) + 1] = a
      BY <2>4
    <2> HIDE DEF next
    <2>7. next \in Covers
      BY <1>3, <2>6, ListsAreCovers DEF MaxCovers
    <2>8. Shown(next) \subseteq Shown(list) \cup {a} /\ Distinct(next)
      BY <2>4, <2>6, <2>7 DEF Distinct
    <2> QED
      BY <2>4, <2>5, <2>6, <2>7, <2>8 DEF next
  <1> QED
    BY <1>1, <1>2, <1>3 DEF MaxCovers

LEMMA Filled ==
  ASSUME NEW list \in Covers, Distinct(list), NEW all \in SUBSET Entry,
         Shown(list) \subseteq all, NEW known
  PROVE  LET next == Fill(list, all, known) IN
         /\ next \in Covers /\ Distinct(next) /\ Shown(next) \subseteq all
         /\ Len(next) < MaxCovers => AllShown(next, all)
  <1>1. PICK one : one = FillSlot(list, all, known)
    OBVIOUS
  <1>2. /\ one \in Covers /\ Distinct(one) /\ Shown(one) \subseteq all
        /\ \/ one = list /\ (Len(list) = 2 \/ AllShown(list, all))
           \/ Len(one) = Len(list) + 1 /\ ~AllShown(list, all)
    BY <1>1, SlotFilled
  <1>3. PICK two : two = FillSlot(one, all, known)
    OBVIOUS
  <1>4. /\ two \in Covers /\ Distinct(two) /\ Shown(two) \subseteq all
        /\ \/ two = one /\ (Len(one) = 2 \/ AllShown(one, all))
           \/ Len(two) = Len(one) + 1 /\ ~AllShown(one, all)
    BY <1>2, <1>3, SlotFilled
  <1>5. Fill(list, all, known) = two
    BY <1>1, <1>3 DEF Fill
  <1>6. Len(list) \in 0 .. 2 /\ Len(one) \in 0 .. 2 /\ Len(two) \in 0 .. 2
    BY <1>2, <1>4, CoversAreLists
  <1>7. Len(two) < MaxCovers => AllShown(two, all)
    <2>1. CASE two = one /\ (Len(one) = 2 \/ AllShown(one, all))
      BY <2>1 DEF MaxCovers
    <2>2. CASE Len(two) = Len(one) + 1 /\ ~AllShown(one, all)
      <3>1. CASE one = list
        <4>1. Len(list) = 2
          BY <1>2, <1>6, <2>2, <3>1
        <4> QED
          BY <1>6, <2>2, <3>1, <4>1 DEF MaxCovers
      <3>2. CASE Len(one) = Len(list) + 1
        BY <1>6, <2>2, <3>2 DEF MaxCovers
      <3> QED
        BY <1>2, <3>1, <3>2
    <2> QED
      BY <1>4, <2>1, <2>2
  <1> QED
    BY <1>4, <1>5, <1>7

\* A list that is left as it is shows every card, or fills the slots.
LEMMA EnoughShown ==
  ASSUME NEW list \in Covers, NEW all \in SUBSET Entry, Shown(list) \subseteq all,
         Enough(list, all), Len(list) < MaxCovers
  PROVE  AllShown(list, all)
  <1>1. IsFiniteSet(all)
    BY DeckEditorAssumption, FS_Subset
  <1>2. Len(list) = Cardinality(all) /\ Len(list) \in 0 .. 1
    BY CoversAreLists DEF Enough, MaxCovers
  <1>3. CASE Len(list) = 0
    BY <1>1, <1>2, <1>3, FS_EmptySet DEF AllShown
  <1>4. CASE Len(list) = 1
    <2>1. PICK x : all = {x}
      BY <1>1, <1>2, <1>4, FS_Singleton
    <2>2. list[1] \in Shown(list)
      BY <1>4, CoversAreLists
    <2> QED
      BY <2>1, <2>2 DEF AllShown
  <1> QED
    BY <1>2, <1>3, <1>4

\* What the user chooses is in a slot, once, and no slot gets lost.
LEMMA CoverChosen ==
  ASSUME NEW list \in Covers, Distinct(list), NEW slot \in 1 .. MaxCovers, NEW e \in Entry
  PROVE  LET next == WithCover(list, slot, e) IN
         /\ next \in Covers /\ Distinct(next) /\ Shown(next) \subseteq Shown(list) \cup {e}
         /\ \A all : e \in all /\ Len(next) < MaxCovers
                    /\ (Len(list) < MaxCovers => AllShown(list, all)) => AllShown(next, all)
  <1> DEFINE next == WithCover(list, slot, e)
  <1> USE CoversAreLists
  <1>1. CASE slot > Len(list) /\ e \in Shown(list)
    <2>1. next = list
      BY <1>1 DEF WithCover
    <2> QED
      BY <2>1
  <1>2. CASE slot > Len(list) /\ e \notin Shown(list)
    <2>1. next = Append(list, e)
      BY <1>2 DEF WithCover
    <2>2. /\ next \in Seq(Entry) /\ Len(next) = Len(list) + 1
          /\ \A i \in 1 .. Len(list) : next[i] = list[i]
          /\ next[Len(list) + 1] = e
      BY <2>1
    <2> HIDE DEF next
    <2>3. next \in Covers
      BY <1>2, <2>2, ListsAreCovers DEF MaxCovers
    <2>4. Shown(next) \subseteq Shown(list) \cup {e}
      BY <2>2, <2>3
    <2>5. Distinct(next)
      <3>1. \A i \in 1 .. Len(list) : list[i] # e
        BY <1>2
      <3>2. ASSUME NEW i \in 1 .. Len(next), NEW j \in 1 .. Len(next), next[i] = next[j]
            PROVE  i = j
        <4>1. CASE i = Len(list) + 1 \/ j = Len(list) + 1
          BY <2>2, <3>1, <3>2, <4>1
        <4>2. CASE i \in 1 .. Len(list) /\ j \in 1 .. Len(list)
          BY <2>2, <3>2, <4>2 DEF Distinct
        <4> QED
          BY <2>2, <4>1, <4>2
      <3> QED
        BY <2>3, <3>2 DEF Distinct
    <2>6. ASSUME NEW all, e \in all, Len(next) < MaxCovers,
                 Len(list) < MaxCovers => AllShown(list, all)
          PROVE  FALSE
      <3>1. Len(list) = 0
        BY <2>2, <2>6 DEF MaxCovers
      <3> QED
        BY <2>6, <3>1 DEF AllShown, MaxCovers
    <2> QED
      BY <2>3, <2>4, <2>5, <2>6 DEF next
  <1>3. CASE slot <= Len(list)
    <2>1. next = [i \in 1 .. Len(list) |-> IF i = slot THEN e
                                          ELSE IF list[i] = e THEN list[slot] ELSE list[i]]
      BY <1>3 DEF WithCover, MaxCovers
    <2>2. next \in Seq(Entry) /\ Len(next) = Len(list) /\ slot \in 1 .. Len(list)
      BY <1>3, <2>1 DEF MaxCovers
    <2>3. \A i \in 1 .. Len(list) : next[i] = IF i = slot THEN e
                                    ELSE IF list[i] = e THEN list[slot] ELSE list[i]
      BY <2>1
    <2> HIDE DEF next
    <2>4. next \in Covers
      <3>1. Len(list) \in 0 .. 2
        BY CoversAreLists
      <3> HIDE CoversAreLists
      <3>2. Len(next) <= 2
        BY <2>2, <3>1
      <3> QED
        BY <2>2, <3>2, ListsAreCovers
    <2>5. Shown(next) \subseteq Shown(list) \cup {e}
      BY <2>2, <2>3, <2>4
    <2>6. Distinct(next)
      <3>1. \A i, j \in 1 .. Len(list) : list[i] = list[j] => i = j
        BY DEF Distinct
      <3>2. ASSUME NEW i \in 1 .. Len(list), NEW j \in 1 .. Len(list), next[i] = next[j]
            PROVE  i = j
        BY <2>2, <2>3, <3>1, <3>2
      <3> QED
        BY <2>2, <2>4, <3>2 DEF Distinct
    <2>7. ASSUME NEW all, e \in all, Len(next) < MaxCovers,
                 Len(list) < MaxCovers => AllShown(list, all)
          PROVE  AllShown(next, all)
      <3>1. Len(list) = 1 /\ slot = 1
        BY <2>2, <2>7 DEF MaxCovers
      <3>2. Shown(list) = {list[1]} /\ Shown(next) = {e}
        BY <2>2, <2>3, <2>4, <3>1
      <3>3. KeyOf[list[1]] = KeyOf[e]
        BY <2>2, <2>7, <3>2 DEF AllShown
      <3> QED
        BY <2>2, <2>7, <3>2, <3>3 DEF AllShown
    <2> QED
      BY <2>4, <2>5, <2>6, <2>7 DEF next
  <1> QED
    BY <1>1, <1>2, <1>3 DEF MaxCovers

--------------------------------------------------------------------------------
(***************************************************************************)
(* The effect.                                                             *)
(***************************************************************************)
\* The effect of now is of this deck: it has filled the slots, or works on them.
Effect(all) ==
  /\ run' \in Run /\ covers' \in Covers /\ Distinct(covers)'
  /\ run' = NoRun => /\ Shown(covers') \subseteq all
                     /\ Len(covers') < MaxCovers => AllShown(covers', all)
  /\ run'.at \in {"none", "lookups"}
  /\ run'.at = "lookups" =>
       /\ run'.all = all /\ Distinct(run'.current)
       /\ Shown(run'.current) \subseteq all

LEMMA Continued ==
  ASSUME NEW list \in Covers, Distinct(list), NEW all \in SUBSET Entry, Continue(list, all)
  PROVE  Effect(all) /\ Shown(covers') \subseteq Shown(list)
  <1>1. PICK current : current = Current(list, all)
    OBVIOUS
  <1>2. /\ current \in Covers /\ Distinct(current) /\ Shown(current) = Shown(list) \cap all
    BY <1>1, WithinLists DEF Current
  <1>3. CASE Enough(current, all)
    <2>1. covers' = current /\ run' = NoRun
      BY <1>1, <1>3 DEF Continue
    <2> QED
      BY <1>2, <1>3, <2>1, EnoughShown DEF Effect, Run, NoRun
  <1>4. CASE ~Enough(current, all)
    <2>1. covers' = list /\ run' = [at |-> "lookups", all |-> all, current |-> current]
      BY <1>1, <1>4 DEF Continue
    <2>2. run'.at = "lookups" /\ run'.all = all /\ run'.current = current /\ run' # NoRun
      BY <2>1 DEF NoRun
    <2> QED
      BY <1>2, <2>1, <2>2 DEF Effect, Run
  <1> QED
    BY <1>3, <1>4

\* One request more, or none.
Sent(ids) ==
  \/ wire' = wire
  \/ \E c \in Conn : /\ wire[c] = None
                     /\ wire' = [wire EXCEPT ![c] = [op |-> "covers", ids |-> ids, here |-> TRUE]]

LEMMA Persisted ==
  ASSUME TypeOK, NEW next \in Covers, Persist(next)
  PROVE  savedIds' \in Covers /\ Sent(next)
  BY DEF Persist, Send, Sent, TypeOK

--------------------------------------------------------------------------------
(***************************************************************************)
(* The requests under way.                                                 *)
(***************************************************************************)
Kinds == {"covers", "add", "delete"}

LEMMA Messages ==
  ASSUME TypeOK, NEW c \in Conn, wire[c] # None
  PROVE  /\ wire[c] \in Message /\ wire[c].here \in BOOLEAN /\ wire[c].op \in Kinds
         /\ On(c, "covers") => wire[c].ids \in Covers
         /\ On(c, "add") => wire[c] = [op |-> "add", card |-> wire[c].card,
                                       entry |-> wire[c].entry,
                                       done |-> wire[c].done, here |-> wire[c].here]
         /\ On(c, "add") => wire[c].card \in Key
         /\ On(c, "delete") => wire[c] = [op |-> "delete", entry |-> wire[c].entry,
                                          done |-> wire[c].done, here |-> wire[c].here]
         /\ On(c, "add") => wire[c].entry \in Entry \cup {None} /\ wire[c].done \in BOOLEAN
         /\ On(c, "delete") => wire[c].entry \in Entry /\ wire[c].done \in BOOLEAN
  <1>1. wire[c] \in Message
    BY DEF TypeOK
  <1>2. CASE wire[c] \in [op : {"covers"}, ids : Covers, here : BOOLEAN]
    BY <1>1, <1>2 DEF On, Kinds
  <1>3. CASE wire[c] \in [op : {"add"}, card : Key, entry : Entry \cup {None},
                          done : BOOLEAN, here : BOOLEAN]
    BY <1>1, <1>3 DEF On, Kinds
  <1>4. CASE wire[c] \in [op : {"delete"}, entry : Entry, done : BOOLEAN, here : BOOLEAN]
    BY <1>1, <1>4 DEF On, Kinds
  <1> QED
    BY <1>1, <1>2, <1>3, <1>4 DEF Message

\* Connection c has nothing to do with what is on the others.
Else(c) == \A d \in Conn \ {c} : wire'[d] = wire[d]

LEMMA Others ==
  ASSUME NEW c \in Conn, Else(c), NEW d \in Conn \ {c}, NEW op \in Kinds
  PROVE  (On(d, op)' <=> On(d, op)) /\ (AnsweredOn(d, op)' <=> AnsweredOn(d, op))
  BY DEF On, AnsweredOn, Else

LEMMA HungUp ==
  ASSUME TypeOK, NEW c \in Conn, Hangup(c)
  PROVE  /\ wire' \in [Conn -> Message \cup {None}] /\ wire'[c] = None /\ Else(c)
         /\ \A op \in Kinds : ~On(c, op)' /\ ~AnsweredOn(c, op)'
         /\ \A op \in Kinds : ~AnsweredOn(c, op) => Answers(op) \subseteq Answers(op)'
         /\ \A op \in Kinds : Answers(op) \subseteq Answers(op)' \cup {wire[c].entry}
  <1>1. wire' \in [Conn -> Message \cup {None}] /\ wire'[c] = None /\ Else(c)
    BY DEF TypeOK, Hangup, Else
  <1>2. ASSUME NEW op \in Kinds
        PROVE  /\ ~On(c, op)' /\ ~AnsweredOn(c, op)'
               /\ ~AnsweredOn(c, op) => Answers(op) \subseteq Answers(op)'
               /\ Answers(op) \subseteq Answers(op)' \cup {wire[c].entry}
    <2>1. ~On(c, op)' /\ ~AnsweredOn(c, op)'
      BY <1>1 DEF On, AnsweredOn
    <2>2. \A d \in Conn \ {c} : AnsweredOn(d, op) => wire[d].entry \in Answers(op)'
      BY <1>1, Others DEF Answers, Else
    <2> QED
      BY <2>1, <2>2 DEF Answers
  <1> QED
    BY <1>1, <1>2

\* The answer of an addition or deletion goes to the editor that asked.
LEMMA AnswerSent ==
  ASSUME TypeOK, NEW c \in Conn, NEW e \in Entry, NEW op \in {"add", "delete"}, On(c, op),
         wire[c].here, ~wire[c].done, AnswerOn(c, e)
  PROVE  /\ wire' \in [Conn -> Message \cup {None}] /\ Else(c) /\ untold' = untold
         /\ wire'[c].entry = e /\ wire'[c].done /\ wire'[c].here
         /\ \A o \in Kinds : Answers(o) \subseteq Answers(o)'
         /\ e \in Answers(op)'
         /\ \A o \in Kinds : On(c, o)' <=> o = op
         /\ \A o \in Kinds : AnsweredOn(c, o)' <=> o = op
  <1>1. wire' = [wire EXCEPT ![c].entry = e, ![c].done = TRUE] /\ untold' = untold
    BY DEF AnswerOn
  <1>2. wire[c].here = TRUE /\ wire[c].done = FALSE
    BY Messages DEF On
  <1>3. PICK m \in Message : /\ wire' = [wire EXCEPT ![c] = m]
                            /\ m.op = op /\ m.entry = e /\ m.done /\ m.here
    <2>1. CASE op = "add"
      <3>1. PICK card \in Key, entry \in Entry \cup {None} :
              wire[c] = [op |-> "add", card |-> card, entry |-> entry,
                         done |-> FALSE, here |-> TRUE]
        BY <1>2, <2>1, Messages DEF On
      <3>2. wire' = [wire EXCEPT ![c] = [op |-> "add", card |-> card, entry |-> e,
                                         done |-> TRUE, here |-> TRUE]]
        BY <1>1, <3>1 DEF TypeOK
      <3>3. [op |-> "add", card |-> card, entry |-> e, done |-> TRUE, here |-> TRUE] \in Message
        BY DEF Message
      <3> QED
        BY <2>1, <3>2, <3>3
    <2>2. CASE op = "delete"
      <3>1. PICK entry : wire[c] = [op |-> "delete", entry |-> entry,
                                    done |-> FALSE, here |-> TRUE]
        BY <1>2, <2>2, Messages DEF On
      <3>2. wire' = [wire EXCEPT ![c] = [op |-> "delete", entry |-> e,
                                         done |-> TRUE, here |-> TRUE]]
        BY <1>1, <3>1 DEF TypeOK
      <3>3. [op |-> "delete", entry |-> e, done |-> TRUE, here |-> TRUE] \in Message
        BY DEF Message
      <3> QED
        BY <2>2, <3>2, <3>3
    <2> QED
      BY <2>1, <2>2
  <1>4. /\ wire'[c] = m
        /\ Else(c) /\ wire' \in [Conn -> Message \cup {None}] /\ wire'[c] # None
    BY <1>3, NoneIsNoMessage DEF TypeOK, Else
  <1>5. \A o \in Kinds : (On(c, o)' <=> o = op) /\ (AnsweredOn(c, o)' <=> o = op)
    BY <1>3, <1>4 DEF On, AnsweredOn
  <1>6. e \in Answers(op)'
    BY <1>3, <1>4, <1>5 DEF Answers, Kinds
  <1>7. ASSUME NEW o \in Kinds
        PROVE  Answers(o) \subseteq Answers(o)'
    <2>1. ~AnsweredOn(c, o)
      BY DEF AnsweredOn
    <2>2. \A d \in Conn \ {c} : AnsweredOn(d, o) => wire[d].entry \in Answers(o)'
      BY <1>4, Others DEF Answers, Else
    <2> QED
      BY <2>1, <2>2 DEF Answers
  <1> QED
    BY <1>1, <1>3, <1>4, <1>5, <1>6, <1>7

\* A request goes out on a connection that was free.
LEMMA OneMore ==
  ASSUME TypeOK, NEW c \in Conn, wire[c] = None, NEW m \in Message, m.op \in Kinds,
         wire' = [wire EXCEPT ![c] = m], m.op \in {"add", "delete"} => ~m.done
  PROVE  /\ wire' \in [Conn -> Message \cup {None}] /\ wire'[c] = m /\ Else(c)
         /\ \A o \in Kinds : On(c, o)' <=> o = m.op
         /\ \A o \in {"add", "delete"} : ~AnsweredOn(c, o)'
         /\ \A o \in Kinds : Answers(o) \subseteq Answers(o)'
  <1>1. wire' \in [Conn -> Message \cup {None}] /\ wire'[c] = m /\ Else(c) /\ m # None
    BY NoneIsNoMessage DEF TypeOK, Else
  <1>2. \A o \in Kinds : On(c, o)' <=> o = m.op
    BY <1>1 DEF On
  <1>3. \A o \in {"add", "delete"} : ~AnsweredOn(c, o)'
    BY <1>1 DEF On, AnsweredOn
  <1>4. ASSUME NEW o \in Kinds
        PROVE  Answers(o) \subseteq Answers(o)'
    <2>1. ~AnsweredOn(c, o)
      BY DEF AnsweredOn, On
    <2>2. \A d \in Conn \ {c} : AnsweredOn(d, o) => wire[d].entry \in Answers(o)'
      BY <1>1, Others DEF Answers, Else
    <2> QED
      BY <2>1, <2>2 DEF Answers
  <1> QED
    BY <1>1, <1>2, <1>3, <1>4

--------------------------------------------------------------------------------
(***************************************************************************)
(* Steps that leave a part of the state as it is.                          *)
(***************************************************************************)
WireParts == WireInOrder /\ AnswersAreOwn /\ PutsAreOfKnownCards /\ Follows

HookParts == AnswerInOrder /\ RunInOrder /\ CoversInOrder /\ CoversAreInDeck /\ SlotsAreFilled

\* The covers of the page do not mind what the server does with other entries, or with
\* entries that go.
LEMMA HookStands ==
  ASSUME IInv, UNCHANGED <<hook, view>>, born \subseteq born',
         (rows' \ rows) \cap born = {}
  PROVE  HookParts'
  <1>1. RunInOrder'
    BY DEF IInv, RunInOrder, hook, view
  <1>2. CoversInOrder'
    BY DEF IInv, CoversInOrder, hook, view, Distinct, Shown
  <1>3. CoversAreInDeck' /\ SlotsAreFilled'
    BY DEF IInv, CoversAreInDeck, SlotsAreFilled, hook, view, Shown
  <1>4. AnswerInOrder'
    BY DEF IInv, AnswerInOrder, hook, view, Shown, Distinct
  <1> QED
    BY <1>1, <1>2, <1>3, <1>4 DEF HookParts

\* A request that goes out is in order when it is about what the editor shows.
LEMMA RequestInOrder ==
  ASSUME IInv, UNCHANGED <<rows, born, view, untold>>,
         NEW c \in Conn, wire[c] = None, NEW m \in Message, m.op \in Kinds,
         wire' = [wire EXCEPT ![c] = m],
         m.op = "covers" => /\ Shown(m.ids) \subseteq born
                            /\ Knows => Shown(m.ids) \cap rows \subseteq Known,
         m.op \in {"add", "delete"} => ~m.done /\ page = "editor",
         m.op = "add" => m.entry = None,
         m.op = "delete" => m.entry \in entries
  PROVE  wire' \in [Conn -> Message \cup {None}] /\ WireParts'
  <1>1. /\ wire' \in [Conn -> Message \cup {None}] /\ wire'[c] = m /\ Else(c)
        /\ \A o \in Kinds : On(c, o)' <=> o = m.op
        /\ \A o \in {"add", "delete"} : ~AnsweredOn(c, o)'
        /\ \A o \in Kinds : Answers(o) \subseteq Answers(o)'
    BY OneMore DEF IInv
  <1>2. \A d \in Conn \ {c}, o \in Kinds :
          (On(d, o)' <=> On(d, o)) /\ (AnsweredOn(d, o)' <=> AnsweredOn(d, o))
    BY <1>1, Others
  <1>3. \A d \in Conn \ {c} : wire'[d] = wire[d]
    BY <1>1 DEF Else
  <1>4. entries \subseteq born /\ rows \cap entries \subseteq deck
    BY DEF IInv, EntriesInOrder
  <1>5. WireInOrder'
    BY <1>1, <1>2, <1>3, <1>4, ViewStands DEF IInv, WireInOrder, Kinds
  <1>6. AnswersAreOwn'
    <2>1. \A d \in Conn : AnsweredOn(d, "add") => wire[d].entry \notin entries
      BY <1>4 DEF IInv, WireInOrder, AnsweredOn
    <2> QED
      BY <1>1, <1>2, <1>3, <2>1 DEF IInv, AnswersAreOwn, Kinds
  <1>7. PutsAreOfKnownCards'
    <2>1. ASSUME NEW d \in Conn \ {c}, On(d, "covers")'
          PROVE  /\ Shown(wire'[d].ids) \subseteq born
                 /\ Knows => Shown(wire'[d].ids) \cap rows \subseteq Known
      BY <1>2, <1>3, <2>1 DEF IInv, PutsAreOfKnownCards, Kinds
    <2>2. ASSUME On(c, "covers")'
          PROVE  /\ Shown(wire'[c].ids) \subseteq born
                 /\ Knows => Shown(wire'[c].ids) \cap rows \subseteq Known
      BY <1>1, <2>2 DEF Kinds
    <2> QED
      BY <2>1, <2>2, ViewStands DEF PutsAreOfKnownCards, Shown
  <1>8. Follows'
    BY <1>1, ViewStands DEF IInv, Follows, Kinds
  <1> QED
    BY <1>1, <1>5, <1>6, <1>7, <1>8 DEF WireParts

\* So is a PUT of covers of the page.
LEMMA PutInOrder ==
  ASSUME IInv, UNCHANGED <<rows, born, view, untold>>, NEW ids \in Covers, Sent(ids),
         Shown(ids) \subseteq born, Knows => Shown(ids) \cap rows \subseteq Known
  PROVE  wire' \in [Conn -> Message \cup {None}] /\ WireParts'
  <1>1. CASE wire' = wire
    <2>1. WireInOrder' /\ AnswersAreOwn'
      BY <1>1, ViewStands DEF IInv, WireInOrder, AnswersAreOwn, On, AnsweredOn
    <2>2. PutsAreOfKnownCards' /\ Follows'
      BY <1>1, ViewStands DEF IInv, PutsAreOfKnownCards, Follows, On, AnsweredOn, Answers, Shown
    <2> QED
      BY <1>1, <2>1, <2>2 DEF WireParts, IInv, TypeOK
  <1>2. CASE \E c \in Conn :
          /\ wire[c] = None
          /\ wire' = [wire EXCEPT ![c] = [op |-> "covers", ids |-> ids, here |-> TRUE]]
    <2>1. PICK c \in Conn :
          /\ wire[c] = None
          /\ wire' = [wire EXCEPT ![c] = [op |-> "covers", ids |-> ids, here |-> TRUE]]
      BY <1>2
    <2>2. [op |-> "covers", ids |-> ids, here |-> TRUE] \in Message
      BY DEF Message
    <2> QED
      BY <2>1, <2>2, RequestInOrder DEF Kinds
  <1> QED
    BY <1>1, <1>2 DEF Sent

\* Nor does a request that ends without an answer, if what it did is untold.
LEMMA RequestGone ==
  ASSUME IInv, UNCHANGED <<rows, born, view>>, NEW c \in Conn, Hangup(c),
         untold \subseteq untold', Answered(c) => wire[c].entry \in untold'
  PROVE  wire' \in [Conn -> Message \cup {None}] /\ WireParts'
  <1>1. /\ wire' \in [Conn -> Message \cup {None}] /\ wire'[c] = None /\ Else(c)
        /\ \A op \in Kinds : ~On(c, op)' /\ ~AnsweredOn(c, op)'
        /\ \A op \in Kinds : ~AnsweredOn(c, op) => Answers(op) \subseteq Answers(op)'
        /\ \A op \in Kinds : Answers(op) \subseteq Answers(op)' \cup {wire[c].entry}
    BY HungUp DEF IInv
  <1>2. \A d \in Conn \ {c}, o \in Kinds :
          (On(d, o)' <=> On(d, o)) /\ (AnsweredOn(d, o)' <=> AnsweredOn(d, o))
    BY <1>1, Others
  <1>3. \A d \in Conn \ {c} : wire'[d] = wire[d]
    BY <1>1 DEF Else
  <1>4. WireInOrder'
    BY <1>1, <1>2, <1>3, ViewStands DEF IInv, WireInOrder, Kinds
  <1>5. AnswersAreOwn'
    BY <1>1, <1>2, <1>3 DEF IInv, AnswersAreOwn, Kinds
  <1>6. PutsAreOfKnownCards'
    <2>1. ASSUME NEW d \in Conn, On(d, "covers")'
          PROVE  /\ Shown(wire'[d].ids) \subseteq born
                 /\ Knows => Shown(wire'[d].ids) \cap rows \subseteq Known
      BY <1>1, <1>2, <1>3, <2>1 DEF IInv, PutsAreOfKnownCards, Kinds
    <2> QED
      BY <2>1, ViewStands DEF PutsAreOfKnownCards, Shown
  <1>7. Follows'
    <2>1. \A op \in {"add", "delete"} : AnsweredOn(c, op) => Answered(c)
      BY DEF AnsweredOn, On, Answered
    <2> QED
      BY <1>1, <2>1, ViewStands DEF IInv, Follows, Kinds
  <1> QED
    BY <1>1, <1>4, <1>5, <1>6, <1>7 DEF WireParts

--------------------------------------------------------------------------------
(***************************************************************************)
(* The steps of the effect and of the page.                                *)
(***************************************************************************)

LEMMA FinishLookupsStep == IInv /\ FinishLookups => IInv'
  <1> SUFFICES ASSUME IInv, FinishLookups PROVE IInv'
    OBVIOUS
  <1> USE DEF server
  <1>1. PICK known : covers' = Fill(run.current, run.all, known)
                     /\ Persist(Fill(run.current, run.all, known))
    BY DEF FinishLookups
  <1>2. PICK next : next = Fill(run.current, run.all, known)
    OBVIOUS
  <1>3. /\ run.at = "lookups" /\ run' = NoRun /\ covers' = next /\ Persist(next)
        /\ UNCHANGED <<rows, saved, born, view, untold>>
        /\ UNCHANGED <<page, answer, deck, entries>> /\ (Knows' <=> Knows) /\ Known' = Known
    BY <1>1, <1>2, ViewStands DEF FinishLookups
  <1>4. /\ run.all \in SUBSET Entry /\ run.current \in Covers /\ Distinct(run.current)
        /\ Shown(run.current) \subseteq run.all /\ run.all \subseteq born
        /\ page = "editor" => run.all = entries
        /\ page \in {"tile", "editor"}
    BY <1>3 DEF IInv, TypeOK, Run, RunInOrder, NoRun
  <1>5. /\ next \in Covers /\ Distinct(next) /\ Shown(next) \subseteq run.all
        /\ Len(next) < MaxCovers => AllShown(next, run.all)
    BY <1>2, <1>4, Filled
  <1>6. savedIds' \in Covers /\ Sent(next)
    BY <1>3, <1>5, Persisted DEF IInv
  <1>7. Knows => page = "editor" /\ Shown(next) \cap rows \subseteq deck /\ Known = deck
    BY <1>4, <1>5 DEF IInv, EntriesInOrder, Knows, Known
  <1>8. wire' \in [Conn -> Message \cup {None}] /\ WireParts'
    BY <1>3, <1>4, <1>5, <1>6, <1>7, PutInOrder
  <1>9. TypeOK'
    BY <1>3, <1>5, <1>6, <1>8 DEF IInv, TypeOK, NoRun, Run
  <1>10. RunInOrder' /\ CoversInOrder'
    BY <1>3, <1>4, <1>5, <1>7, InEditor
    DEF IInv, RunInOrder, CoversInOrder, NoRun, Distinct, Shown
  <1>11. CoversAreInDeck' /\ SlotsAreFilled'
    BY <1>3, <1>4, <1>5 DEF CoversAreInDeck, SlotsAreFilled, AllShown, Shown
  <1>12. SavedInOrder' /\ EntriesInOrder' /\ SavedAreKnown'
    BY <1>3 DEF IInv, SavedInOrder, EntriesInOrder, SavedAreKnown, Shown, Distinct
  <1>13. AnswerInOrder'
    BY <1>3, <1>4 DEF IInv, AnswerInOrder, Shown, Distinct
  <1> QED
    BY <1>8, <1>9, <1>10, <1>11, <1>12, <1>13 DEF IInv, WireParts

LEMMA ChooseCoverStep == IInv /\ ChooseCover => IInv'
  <1> SUFFICES ASSUME IInv, ChooseCover PROVE IInv'
    OBVIOUS
  <1> USE DEF server
  <1>1. PICK slot \in 1 .. MaxCovers, e \in entries :
          covers' = WithCover(covers, slot, e) /\ Persist(WithCover(covers, slot, e))
    BY DEF ChooseCover
  <1>2. PICK next : next = WithCover(covers, slot, e)
    OBVIOUS
  <1>3. /\ page = "editor" /\ covers' = next /\ Persist(next)
        /\ UNCHANGED <<rows, saved, born, view, run, untold>>
        /\ UNCHANGED <<page, answer, deck, entries>> /\ (Knows' <=> Knows) /\ Known' = Known
        /\ Known = deck
    BY <1>1, <1>2, ViewStands, InEditor DEF ChooseCover
  <1>4. /\ covers \in Covers /\ Distinct(covers) /\ e \in Entry /\ e \in born
        /\ Shown(covers) \subseteq born /\ Shown(covers) \cap rows \subseteq deck
        /\ {e} \cap rows \subseteq deck
    BY <1>3 DEF IInv, TypeOK, CoversInOrder, EntriesInOrder
  <1>5. /\ next \in Covers /\ Distinct(next) /\ Shown(next) \subseteq Shown(covers) \cup {e}
        /\ Len(next) < MaxCovers /\ (Len(covers) < MaxCovers => AllShown(covers, entries))
             => AllShown(next, entries)
    BY <1>2, <1>4, CoverChosen
  <1>6. savedIds' \in Covers /\ Sent(next)
    BY <1>3, <1>5, Persisted DEF IInv
  <1>7. wire' \in [Conn -> Message \cup {None}] /\ WireParts'
    BY <1>3, <1>4, <1>5, <1>6, PutInOrder
  <1>8. TypeOK'
    BY <1>3, <1>5, <1>6, <1>7 DEF IInv, TypeOK
  <1>9. RunInOrder' /\ CoversInOrder'
    <2>1. RunInOrder'
      BY <1>3 DEF IInv, RunInOrder, Distinct, Shown
    <2>2. Shown(covers)' = Shown(next) /\ Distinct(covers)'
      BY <1>3, <1>5 DEF Shown, Distinct
    <2>3. Shown(next) \subseteq born /\ Shown(next) \cap rows \subseteq deck
      BY <1>4, <1>5
    <2>4. CoversInOrder'
      BY <1>3, <2>2, <2>3 DEF CoversInOrder
    <2> QED
      BY <2>1, <2>4
  <1>10. CoversAreInDeck'
    <2>1. run = NoRun => Shown(covers) \subseteq entries
      BY <1>3 DEF IInv, CoversAreInDeck
    <2>2. Shown(covers)' = Shown(next)
      BY <1>3 DEF Shown
    <2> QED
      BY <1>3, <1>5, <2>1, <2>2 DEF CoversAreInDeck
  <1>11. SlotsAreFilled'
    <2>1. run = NoRun /\ Len(covers) < MaxCovers => AllShown(covers, entries)
      BY <1>3 DEF IInv, SlotsAreFilled, AllShown
    <2> QED
      BY <1>3, <1>5, <2>1 DEF SlotsAreFilled, AllShown, Shown
  <1>12. SavedInOrder' /\ EntriesInOrder' /\ SavedAreKnown' /\ AnswerInOrder'
    BY <1>3
    DEF IInv, SavedInOrder, EntriesInOrder, SavedAreKnown, AnswerInOrder, Shown, Distinct
  <1> QED
    BY <1>7, <1>8, <1>9, <1>10, <1>11, <1>12 DEF IInv, WireParts

LEMMA FetchDeckStep == IInv /\ FetchDeck => IInv'
  <1> SUFFICES ASSUME IInv, FetchDeck PROVE IInv'
    OBVIOUS
  <1> USE DEF server
  <1>1. /\ run.at = "deck" /\ page = "tile" /\ page' = "tile" /\ answer' = None
        /\ UNCHANGED <<rows, saved, born, deck, entries, savedIds, wire, untold>>
        /\ ~Knows'
    BY DEF FetchDeck, IInv, RunInOrder, Knows
  <1>2. /\ run' \in Run /\ covers' \in Covers /\ Distinct(covers)'
        /\ Shown(covers)' \subseteq born
        /\ run'.at \in {"none", "lookups"}
        /\ run'.at = "lookups" =>
             /\ run'.all \subseteq born /\ Distinct(run'.current)
             /\ Shown(run'.current) \subseteq run'.all
    <2>1. CASE answer # None /\ Continue(covers, answer.rows)
      <3>1. answer.rows \in SUBSET Entry /\ answer.rows \subseteq born
        BY <2>1 DEF IInv, TypeOK, AnswerInOrder
      <3> QED
        BY <2>1, <3>1, Continued DEF IInv, TypeOK, CoversInOrder, Effect, Shown
    <2>2. CASE run' = NoRun /\ UNCHANGED covers
      BY <2>2 DEF IInv, TypeOK, CoversInOrder, NoRun, Run, Distinct, Shown
    <2> QED
      BY <2>1, <2>2 DEF FetchDeck
  <1>3. TypeOK'
    BY <1>1, <1>2 DEF IInv, TypeOK
  <1>4. RunInOrder' /\ CoversInOrder' /\ AnswerInOrder'
    BY <1>1, <1>2 DEF IInv, RunInOrder, CoversInOrder, AnswerInOrder, Distinct, Shown
  <1>5. CoversAreInDeck' /\ SlotsAreFilled' /\ SavedAreKnown' /\ Follows'
    BY <1>1 DEF CoversAreInDeck, SlotsAreFilled, SavedAreKnown, Follows
  <1>6. SavedInOrder' /\ EntriesInOrder'
    BY <1>1 DEF IInv, SavedInOrder, EntriesInOrder, Shown, Distinct
  <1>7. WireInOrder' /\ AnswersAreOwn' /\ PutsAreOfKnownCards'
    BY <1>1 DEF IInv, WireInOrder, AnswersAreOwn, PutsAreOfKnownCards, On, AnsweredOn, Shown
  <1> QED
    BY <1>3, <1>4, <1>5, <1>6, <1>7 DEF IInv

\* While the page is not the editor, no answer is under way to an editor.
LEMMA NobodyWaits ==
  ASSUME IInv, page # "editor", NEW c \in Conn, NEW op \in {"add", "delete"}, On(c, op)
  PROVE  ~wire[c].here /\ ~wire[c].done
  BY DEF IInv, WireInOrder

\* A page that is not the editor comes after another, and the hook is as it was.
LEMMA OpenStep == IInv /\ (OpenHome \/ OpenEditor) => IInv'
  <1> SUFFICES ASSUME IInv, OpenHome \/ OpenEditor PROVE IInv'
    OBVIOUS
  <1> USE DEF server, hook
  <1>1. /\ page = "away" /\ page' \in {"listing", "loading"}
        /\ UNCHANGED <<rows, saved, born, answer, deck, entries, covers, savedIds, run>>
        /\ UNCHANGED <<wire, untold>>
    BY DEF OpenHome, OpenEditor
  <1>2. run = NoRun /\ answer = None /\ ~Knows'
    BY <1>1 DEF IInv, RunInOrder, AnswerInOrder, NoRun, Knows
  <1>3. TypeOK'
    BY <1>1 DEF IInv, TypeOK
  <1>4. RunInOrder' /\ CoversInOrder' /\ AnswerInOrder'
    BY <1>1, <1>2 DEF IInv, RunInOrder, CoversInOrder, AnswerInOrder, NoRun, Distinct, Shown
  <1>5. CoversAreInDeck' /\ SlotsAreFilled' /\ SavedAreKnown' /\ Follows'
    BY <1>1, <1>2 DEF CoversAreInDeck, SlotsAreFilled, SavedAreKnown, Follows
  <1>6. SavedInOrder' /\ EntriesInOrder'
    BY <1>1 DEF IInv, SavedInOrder, EntriesInOrder, Shown, Distinct
  <1>7. WireInOrder'
    BY <1>1, NobodyWaits DEF IInv, WireInOrder, On
  <1>8. AnswersAreOwn' /\ PutsAreOfKnownCards'
    BY <1>1, <1>2 DEF IInv, AnswersAreOwn, PutsAreOfKnownCards, On, AnsweredOn, Shown
  <1> QED
    BY <1>3, <1>4, <1>5, <1>6, <1>7, <1>8 DEF IInv

\* From here on what the server has is known, or nothing is.
LEMMA ReadDeckStep == IInv /\ ReadDeck => IInv'
  <1> SUFFICES ASSUME IInv, ReadDeck PROVE IInv'
    OBVIOUS
  <1> USE DEF server, hook
  <1>1. /\ page \in {"listing", "loading"} \/ run.at = "deck"
        /\ answer' = [rows |-> rows, saved |-> saved] /\ untold' = {}
        /\ UNCHANGED <<rows, saved, born, page, deck, entries, covers, savedIds, run, wire>>
    BY DEF ReadDeck
  <1>2. page # "editor" /\ page' # "editor"
    BY <1>1 DEF IInv, RunInOrder
  <1>3. Known' = rows
    BY <1>1, <1>2 DEF Known
  <1>4. TypeOK'
    BY <1>1 DEF IInv, TypeOK
  <1>5. RunInOrder' /\ CoversInOrder'
    BY <1>1, <1>2 DEF IInv, RunInOrder, CoversInOrder, Distinct, Shown
  <1>6. AnswerInOrder'
    BY <1>1 DEF IInv, AnswerInOrder, SavedInOrder, Distinct, Shown
  <1>7. CoversAreInDeck' /\ SlotsAreFilled'
    BY <1>2 DEF CoversAreInDeck, SlotsAreFilled
  <1>8. SavedInOrder' /\ EntriesInOrder' /\ SavedAreKnown' /\ Follows'
    BY <1>1, <1>3 DEF IInv, SavedInOrder, EntriesInOrder, SavedAreKnown, Follows, Shown, Distinct
  <1>9. WireInOrder' /\ AnswersAreOwn'
    BY <1>1 DEF IInv, WireInOrder, AnswersAreOwn, On, AnsweredOn
  <1>10. PutsAreOfKnownCards'
    BY <1>1, <1>3 DEF IInv, PutsAreOfKnownCards, On, Shown
  <1> QED
    BY <1>4, <1>5, <1>6, <1>7, <1>8, <1>9, <1>10 DEF IInv

LEMMA OpenTileStep == IInv /\ OpenTile => IInv'
  <1> SUFFICES ASSUME IInv, OpenTile PROVE IInv'
    OBVIOUS
  <1> USE DEF server
  <1>1. /\ page = "listing" /\ answer # None /\ page' = "tile" /\ answer' = None
        /\ covers' = answer.saved /\ savedIds' = answer.saved
        /\ run' = [at |-> IF Len(answer.saved) < MaxCovers THEN "deck" ELSE "none"]
        /\ UNCHANGED <<rows, saved, born, deck, entries, wire, untold>> /\ ~Knows'
    BY DEF OpenTile, Knows
  <1>2. run' \in [at : {"none", "deck"}] /\ run'.at \in {"none", "deck"} /\ run' \in Run
    BY <1>1 DEF Run
  <1>3. /\ answer.saved \in Covers /\ Distinct(answer.saved)
        /\ Shown(answer.saved) \subseteq born
    BY <1>1 DEF IInv, TypeOK, AnswerInOrder
  <1>4. TypeOK'
    BY <1>1, <1>2, <1>3 DEF IInv, TypeOK
  <1>5. RunInOrder' /\ CoversInOrder' /\ AnswerInOrder'
    BY <1>1, <1>2, <1>3 DEF IInv, RunInOrder, CoversInOrder, AnswerInOrder, Distinct, Shown
  <1>6. CoversAreInDeck' /\ SlotsAreFilled' /\ SavedAreKnown' /\ Follows'
    BY <1>1 DEF CoversAreInDeck, SlotsAreFilled, SavedAreKnown, Follows
  <1>7. SavedInOrder' /\ EntriesInOrder'
    BY <1>1 DEF IInv, SavedInOrder, EntriesInOrder, Shown, Distinct
  <1>8. WireInOrder'
    BY <1>1, NobodyWaits DEF IInv, WireInOrder, On
  <1>9. AnswersAreOwn' /\ PutsAreOfKnownCards'
    BY <1>1 DEF IInv, AnswersAreOwn, PutsAreOfKnownCards, On, AnsweredOn, Shown
  <1> QED
    BY <1>4, <1>5, <1>6, <1>7, <1>8, <1>9 DEF IInv

\* The editor has what was known.
LEMMA LoadStep == IInv /\ Load => IInv'
  <1> SUFFICES ASSUME IInv, Load PROVE IInv'
    OBVIOUS
  <1> USE DEF server
  <1>1. PICK all : all = answer.rows
    OBVIOUS
  <1>2. /\ page = "loading" /\ answer # None /\ page' = "editor" /\ answer' = None
        /\ deck' = all /\ entries' = all /\ savedIds' = answer.saved
        /\ Continue(answer.saved, all)
        /\ UNCHANGED <<rows, saved, born, wire, untold>>
    BY <1>1 DEF Load
  <1>3. Knows /\ Known = all /\ Knows' /\ Known' = all
    BY <1>1, <1>2 DEF Knows, Known
  <1>4. /\ all \in SUBSET Entry /\ all \subseteq born
        /\ answer.saved \in Covers /\ Distinct(answer.saved) /\ Shown(answer.saved) \subseteq all
    BY <1>1, <1>2 DEF IInv, TypeOK, AnswerInOrder
  <1>5. Effect(all) /\ Shown(covers') \subseteq Shown(answer.saved)
    BY <1>2, <1>4, Continued
  <1>6. TypeOK'
    BY <1>2, <1>4, <1>5 DEF IInv, TypeOK, Effect
  <1>7. RunInOrder' /\ AnswerInOrder'
    BY <1>2, <1>4, <1>5 DEF RunInOrder, AnswerInOrder, Effect, Distinct, Shown
  <1>8. CoversInOrder'
    BY <1>2, <1>4, <1>5 DEF CoversInOrder, Effect, Distinct, Shown
  <1>9. CoversAreInDeck' /\ SlotsAreFilled'
    BY <1>2, <1>5 DEF CoversAreInDeck, SlotsAreFilled, Effect, AllShown, Shown
  <1>10. SavedInOrder' /\ EntriesInOrder' /\ SavedAreKnown'
    BY <1>2, <1>3, <1>4
    DEF IInv, SavedInOrder, EntriesInOrder, SavedAreKnown, Shown, Distinct
  <1>11. Follows'
    BY <1>2, <1>3 DEF IInv, Follows, Answers, On, AnsweredOn
  <1>12. WireInOrder' /\ AnswersAreOwn'
    BY <1>2, NobodyWaits DEF IInv, WireInOrder, AnswersAreOwn, On, AnsweredOn
  <1>13. PutsAreOfKnownCards'
    BY <1>2, <1>3 DEF IInv, PutsAreOfKnownCards, On, Shown
  <1> QED
    BY <1>6, <1>7, <1>8, <1>9, <1>10, <1>11, <1>12, <1>13 DEF IInv

\* A render shows what the copy has; what it drops is gone from the server.
LEMMA RenderStep == IInv /\ Render => IInv'
  <1> SUFFICES ASSUME IInv, Render PROVE IInv'
    OBVIOUS
  <1> USE DEF server
  <1>1. /\ deck # entries /\ entries' = deck /\ Continue(covers, deck)
        /\ UNCHANGED <<rows, saved, born, page, answer, deck, savedIds, wire, untold>>
    BY DEF Render
  <1>2. page = "editor" /\ deck \in SUBSET Entry /\ deck \subseteq born
    BY <1>1 DEF IInv, TypeOK, EntriesInOrder
  <1>3. (Knows' <=> Knows) /\ Known' = Known
    BY <1>1 DEF Knows, Known
  <1>4. Effect(deck) /\ Shown(covers') \subseteq Shown(covers)
    BY <1>1, <1>2, Continued DEF IInv, TypeOK, CoversInOrder
  <1>5. TypeOK'
    BY <1>1, <1>2, <1>4 DEF IInv, TypeOK, Effect
  <1>6. answer = None
    BY <1>2 DEF IInv, AnswerInOrder, RunInOrder
  <1>7. RunInOrder' /\ AnswerInOrder'
    BY <1>1, <1>2, <1>4, <1>6 DEF RunInOrder, AnswerInOrder, Effect, Distinct, Shown
  <1>8. CoversInOrder'
    BY <1>1, <1>2, <1>4 DEF IInv, CoversInOrder, Effect, Distinct, Shown
  <1>9. CoversAreInDeck' /\ SlotsAreFilled'
    BY <1>1, <1>4 DEF CoversAreInDeck, SlotsAreFilled, Effect, AllShown, Shown
  <1>10. SavedInOrder' /\ EntriesInOrder' /\ SavedAreKnown'
    BY <1>1, <1>2, <1>3
    DEF IInv, SavedInOrder, EntriesInOrder, SavedAreKnown, Shown, Distinct
  <1>11. Follows'
    BY <1>1, <1>3 DEF IInv, Follows, Answers, On, AnsweredOn
  <1>12. WireInOrder' /\ AnswersAreOwn'
    BY <1>1 DEF IInv, WireInOrder, AnswersAreOwn, On, AnsweredOn
  <1>13. PutsAreOfKnownCards'
    BY <1>1, <1>3 DEF IInv, PutsAreOfKnownCards, On, Shown
  <1> QED
    BY <1>5, <1>7, <1>8, <1>9, <1>10, <1>11, <1>12, <1>13 DEF IInv

LEMMA LeaveStep == IInv /\ Leave => IInv'
  <1> SUFFICES ASSUME IInv, Leave PROVE IInv'
    OBVIOUS
  <1> USE DEF server
  <1>1. /\ page' = "away" /\ answer' = None /\ deck' = {} /\ entries' = {}
        /\ covers' = <<>> /\ savedIds' = <<>> /\ ~Knows'
        /\ run' = NoRun
        /\ wire' = [c \in Conn |-> IF wire[c] = None \/ Answered(c) THEN None
                                   ELSE [wire[c] EXCEPT !.here = FALSE]]
        /\ UNCHANGED <<rows, saved, born, untold>>
    BY DEF Leave, Knows
  <1>2. run' \in Run /\ run'.at = "none"
    BY <1>1 DEF Run, NoRun
  <1>3. ASSUME NEW c \in Conn
        PROVE  /\ wire'[c] \in Message \cup {None}
               /\ wire'[c] # None => /\ wire[c] # None /\ ~Answered(c)
                                     /\ wire'[c].op = wire[c].op /\ ~wire'[c].here
               /\ On(c, "covers")' => wire'[c].ids = wire[c].ids
               /\ On(c, "add")' \/ On(c, "delete")' =>
                    wire'[c].entry = wire[c].entry /\ wire'[c].done = wire[c].done
    <2>1. CASE wire[c] = None \/ Answered(c)
      BY <1>1, <2>1 DEF On
    <2>2. CASE wire[c] # None /\ ~Answered(c)
      <3>1. wire'[c] = [wire[c] EXCEPT !.here = FALSE] /\ wire[c] \in Message
        BY <1>1, <2>2, Messages DEF IInv
      <3> QED
        BY <2>2, <3>1 DEF Message, On
    <2> QED
      BY <2>1, <2>2
  <1>4. wire' \in [Conn -> Message \cup {None}]
    BY <1>1, <1>3
  <1>5. TypeOK'
    BY <1>1, <1>2, <1>4, ShortLists DEF IInv, TypeOK
  <1>6. RunInOrder' /\ CoversInOrder' /\ AnswerInOrder'
    BY <1>1, <1>2, ShortLists DEF RunInOrder, CoversInOrder, AnswerInOrder, Distinct, Shown
  <1>7. CoversAreInDeck' /\ SlotsAreFilled' /\ SavedAreKnown' /\ Follows'
    BY <1>1 DEF CoversAreInDeck, SlotsAreFilled, SavedAreKnown, Follows
  <1>8. SavedInOrder' /\ EntriesInOrder'
    BY <1>1 DEF IInv, SavedInOrder, EntriesInOrder, Shown, Distinct
  <1>9. \A c \in Conn : \A op \in {"add", "delete"} :
          On(c, op)' => On(c, op) /\ ~wire'[c].done /\ ~wire[c].done
    BY <1>3 DEF On, Answered, IInv
  <1>10. WireInOrder'
    <2>1. ASSUME NEW c \in Conn, NEW op \in {"add", "delete"}, On(c, op)'
          PROVE  /\ ~wire'[c].here /\ ~wire'[c].done /\ ~wire[c].done /\ On(c, op)
                 /\ wire'[c].entry = wire[c].entry
      <3>1. wire'[c] # None
        BY <2>1 DEF On
      <3> QED
        BY <1>3, <1>9, <2>1, <3>1
    <2>2. \A c \in Conn : /\ On(c, "add") /\ ~wire[c].done => wire[c].entry = None
                          /\ On(c, "delete") => wire[c].entry \in born
      BY DEF IInv, WireInOrder
    <2> QED
      BY <1>1, <2>1, <2>2 DEF WireInOrder
  <1>11. AnswersAreOwn'
    BY <1>9 DEF AnswersAreOwn, AnsweredOn
  <1>12. PutsAreOfKnownCards'
    <2>1. ASSUME NEW c \in Conn, On(c, "covers")'
          PROVE  Shown(wire'[c].ids) \subseteq born
      BY <1>3, <2>1 DEF IInv, PutsAreOfKnownCards, On
    <2> QED
      BY <1>1, <2>1 DEF PutsAreOfKnownCards, Shown
  <1> QED
    BY <1>5, <1>6, <1>7, <1>8, <1>10, <1>11, <1>12 DEF IInv

LEMMA ClickStep == IInv /\ (ClickAdd \/ ClickDelete) => IInv'
  <1> SUFFICES ASSUME IInv, ClickAdd \/ ClickDelete PROVE IInv'
    OBVIOUS
  <1> USE DEF server
  <1>1. /\ page = "editor" /\ entries \subseteq Entry
        /\ UNCHANGED <<rows, saved, born, view, covers, savedIds, run, untold>>
        /\ UNCHANGED <<page, answer, deck, entries>> /\ (Knows' <=> Knows) /\ Known' = Known
    BY ViewStands DEF ClickAdd, ClickDelete, hook, IInv, TypeOK
  <1>2. PICK c \in Conn, m \in Message :
          /\ wire[c] = None /\ wire' = [wire EXCEPT ![c] = m]
          /\ m.op \in {"add", "delete"} /\ ~m.done
          /\ m.op = "add" => m.entry = None
          /\ m.op = "delete" => m.entry \in entries
    <2>1. CASE ClickAdd
      <3>1. PICK key \in Key : Send([op |-> "add", card |-> key, entry |-> None,
                                   done |-> FALSE, here |-> TRUE])
        BY <2>1 DEF ClickAdd
      <3>2. [op |-> "add", card |-> key, entry |-> None, done |-> FALSE, here |-> TRUE] \in Message
        BY DEF Message
      <3> QED
        BY <3>1, <3>2 DEF Send
    <2>2. CASE ClickDelete
      <3>1. PICK e \in entries : Send([op |-> "delete", entry |-> e, done |-> FALSE, here |-> TRUE])
        BY <2>2 DEF ClickDelete
      <3>2. [op |-> "delete", entry |-> e, done |-> FALSE, here |-> TRUE] \in Message
        BY <1>1 DEF Message
      <3> QED
        BY <3>1, <3>2 DEF Send
    <2> QED
      BY <2>1, <2>2
  <1>3. wire' \in [Conn -> Message \cup {None}] /\ WireParts'
    BY <1>1, <1>2, RequestInOrder DEF Kinds
  <1>4. HookParts'
    BY <1>1, HookStands DEF hook
  <1>5. TypeOK'
    BY <1>1, <1>3 DEF IInv, TypeOK
  <1>6. SavedInOrder' /\ EntriesInOrder' /\ SavedAreKnown'
    BY <1>1 DEF IInv, SavedInOrder, EntriesInOrder, SavedAreKnown, Shown, Distinct
  <1> QED
    BY <1>3, <1>4, <1>5, <1>6 DEF IInv, WireParts, HookParts

--------------------------------------------------------------------------------
(***************************************************************************)
(* The steps of the server, and the answers.                               *)
(***************************************************************************)

\* As many cards as slots: no card is in two of them.
LEMMA DifferentCovers ==
  ASSUME NEW ids \in Covers, Cardinality(Shown(ids)) = Len(ids)
  PROVE  Distinct(ids)
  <1> USE CoversAreLists
  <1>1. CASE Len(ids) = 2 /\ ids[1] = ids[2]
    <2>1. Shown(ids) = {ids[1]}
      BY <1>1
    <2>2. Cardinality(Shown(ids)) = 1
      BY <2>1, FS_Singleton
    <2> QED
      BY <1>1, <2>2
  <1>2. CASE Len(ids) = 2 /\ ids[1] # ids[2]
    BY <1>2 DEF Distinct
  <1>3. CASE Len(ids) # 2
    BY <1>3 DEF Distinct
  <1> QED
    BY <1>1, <1>2, <1>3

LEMMA PutCoversStep ==
  ASSUME IInv, NEW c \in Conn, PutCovers(c)
  PROVE  IInv'
  <1> USE DEF server
  <1>1. PICK ids : ids = wire[c].ids
    OBVIOUS
  <1>2. /\ On(c, "covers") /\ Hangup(c)
        /\ saved' = IF Shown(ids) \subseteq rows /\ Cardinality(Shown(ids)) = Len(ids)
                    THEN ids ELSE saved
        /\ UNCHANGED <<rows, born, view, covers, savedIds, run, untold>>
        /\ UNCHANGED <<page, answer, deck, entries>> /\ (Knows' <=> Knows) /\ Known' = Known
    BY <1>1, ViewStands DEF PutCovers, On, hook
  <1>3. ids \in Covers /\ (Knows => Shown(ids) \cap rows \subseteq Known)
    BY <1>1, <1>2, Messages DEF IInv, PutsAreOfKnownCards, On
  <1>4. ~Answered(c)
    BY <1>2 DEF On, Answered
  <1>5. wire' \in [Conn -> Message \cup {None}] /\ WireParts'
    BY <1>2, <1>4, RequestGone
  <1>6. HookParts'
    BY <1>2, HookStands DEF hook
  <1>7. saved' \in Covers /\ SavedInOrder' /\ SavedAreKnown'
    <2>1. CASE Shown(ids) \subseteq rows /\ Cardinality(Shown(ids)) = Len(ids)
      <3>1. saved' = ids /\ Distinct(ids)
        BY <1>2, <1>3, <2>1, DifferentCovers
      <3> QED
        BY <1>2, <1>3, <2>1, <3>1
        DEF IInv, SavedInOrder, SavedAreKnown, Shown, Distinct
    <2>2. CASE saved' = saved
      BY <1>2, <2>2
      DEF IInv, TypeOK, SavedInOrder, SavedAreKnown, Shown, Distinct
    <2> QED
      BY <1>2, <2>1, <2>2
  <1>8. TypeOK'
    BY <1>2, <1>5, <1>7 DEF IInv, TypeOK
  <1>9. EntriesInOrder'
    BY <1>2 DEF IInv, EntriesInOrder
  <1> QED
    BY <1>5, <1>6, <1>7, <1>8, <1>9 DEF IInv, WireParts, HookParts

LEMMA FailStep ==
  ASSUME IInv, NEW c \in Conn, Fail(c)
  PROVE  IInv'
  <1> USE DEF server
  <1>1. /\ wire[c] # None /\ Hangup(c)
        /\ untold' = IF Answered(c) THEN untold \cup {wire[c].entry} ELSE untold
        /\ UNCHANGED <<rows, saved, born, view, covers, savedIds, run>>
        /\ UNCHANGED <<page, answer, deck, entries>> /\ (Knows' <=> Knows) /\ Known' = Known
    BY ViewStands DEF Fail, hook
  <1>2. untold' \subseteq Entry
    <2>1. CASE Answered(c)
      <3>1. On(c, "add") \/ On(c, "delete")
        BY <1>1, <2>1, Messages DEF IInv, On, Answered, Kinds
      <3>2. wire[c].entry \in Entry
        BY <2>1, <3>1 DEF IInv, TypeOK, WireInOrder, Answered
      <3> QED
        BY <1>1, <3>2 DEF IInv, TypeOK
    <2>2. CASE ~Answered(c)
      BY <1>1, <2>2 DEF IInv, TypeOK
    <2> QED
      BY <2>1, <2>2
  <1>3. wire' \in [Conn -> Message \cup {None}] /\ WireParts'
    BY <1>1, RequestGone
  <1>4. HookParts'
    BY <1>1, HookStands DEF hook
  <1>5. TypeOK'
    BY <1>1, <1>2, <1>3 DEF IInv, TypeOK
  <1>6. SavedInOrder' /\ EntriesInOrder' /\ SavedAreKnown'
    BY <1>1 DEF IInv, SavedInOrder, EntriesInOrder, SavedAreKnown, Shown, Distinct
  <1> QED
    BY <1>3, <1>4, <1>5, <1>6 DEF IInv, WireParts, HookParts

\* The other requests are in order whatever entry the server adds.
LEMMA PostEntryStep ==
  ASSUME IInv, NEW c \in Conn, PostEntry(c)
  PROVE  IInv'
  <1> USE DEF server
  <1>1. PICK e \in Entry \ born :
          rows' = rows \cup {e} /\ born' = born \cup {e} /\ AnswerOn(c, e)
    BY DEF PostEntry
  <1>2. /\ On(c, "add") /\ ~wire[c].done
        /\ UNCHANGED <<saved, view, covers, savedIds, run>>
        /\ UNCHANGED <<page, answer, deck, entries>> /\ (Knows' <=> Knows) /\ Known' = Known
    BY ViewStands DEF PostEntry, hook, On
  <1>3. rows \subseteq born /\ entries \subseteq born /\ deck \subseteq born
    BY DEF IInv, SavedInOrder, EntriesInOrder
  <1>4. HookParts'
    BY <1>1, <1>2, HookStands DEF hook
  <1>5. SavedInOrder' /\ EntriesInOrder' /\ SavedAreKnown'
    BY <1>1, <1>2
    DEF IInv, SavedInOrder, EntriesInOrder, SavedAreKnown, Shown, Distinct
  <1>6. PutsAreOfKnownCards' /\ wire' \in [Conn -> Message \cup {None}] /\ untold' \subseteq Entry
        /\ WireInOrder' /\ AnswersAreOwn' /\ Follows'
    <2>1. CASE wire[c].here
      <3>1. /\ wire' \in [Conn -> Message \cup {None}] /\ Else(c) /\ untold' = untold
            /\ wire'[c].entry = e /\ wire'[c].done /\ wire'[c].here
            /\ \A o \in Kinds : Answers(o) \subseteq Answers(o)'
            /\ e \in Answers("add")'
            /\ \A o \in Kinds : On(c, o)' <=> o = "add"
            /\ \A o \in Kinds : AnsweredOn(c, o)' <=> o = "add"
        BY <1>1, <1>2, <2>1, AnswerSent DEF IInv
      <3>2. \A d \in Conn \ {c}, o \in Kinds :
              (On(d, o)' <=> On(d, o)) /\ (AnsweredOn(d, o)' <=> AnsweredOn(d, o))
        BY <3>1, Others
      <3>3. \A d \in Conn \ {c} : wire'[d] = wire[d]
        BY <3>1 DEF Else
      <3>4. page = "editor"
        BY <1>2, <2>1 DEF IInv, WireInOrder
      <3>5. WireInOrder'
        BY <1>1, <1>2, <1>3, <3>1, <3>2, <3>3, <3>4 DEF IInv, WireInOrder, Kinds
      <3>6. AnswersAreOwn'
        <4>1. \A d \in Conn : AnsweredOn(d, "add") \/ On(d, "delete") => wire[d].entry \in born
          BY <1>3 DEF IInv, WireInOrder, AnsweredOn
        <4> QED
          BY <1>1, <3>1, <3>2, <3>3, <4>1 DEF IInv, AnswersAreOwn, Kinds
      <3>7. PutsAreOfKnownCards'
        <4>1. ASSUME NEW d \in Conn, On(d, "covers")'
              PROVE  /\ Shown(wire'[d].ids) \subseteq born
                     /\ Knows => Shown(wire'[d].ids) \cap rows \subseteq Known
          BY <3>1, <3>2, <3>3, <4>1 DEF IInv, PutsAreOfKnownCards, Kinds
        <4> QED
          BY <1>1, <1>2, <4>1 DEF PutsAreOfKnownCards, Shown
      <3>8. Follows'
        BY <1>1, <1>2, <3>1 DEF IInv, Follows, Kinds
      <3> QED
        BY <3>1, <3>5, <3>6, <3>7, <3>8 DEF IInv, TypeOK
    <2>2. CASE ~wire[c].here
      <3>1. Hangup(c) /\ untold' = untold \cup {e}
        BY <1>1, <2>2 DEF AnswerOn
      <3>2. /\ wire' \in [Conn -> Message \cup {None}] /\ wire'[c] = None /\ Else(c)
            /\ \A op \in Kinds : ~On(c, op)' /\ ~AnsweredOn(c, op)'
            /\ \A op \in Kinds : Answers(op) \subseteq Answers(op)'
        BY <1>2, <3>1, HungUp DEF IInv, On, AnsweredOn
      <3>3. \A d \in Conn \ {c}, o \in Kinds :
              (On(d, o)' <=> On(d, o)) /\ (AnsweredOn(d, o)' <=> AnsweredOn(d, o))
        BY <3>2, Others
      <3>4. \A d \in Conn \ {c} : wire'[d] = wire[d]
        BY <3>2 DEF Else
      <3>5. WireInOrder'
        BY <1>1, <1>2, <1>3, <3>2, <3>3, <3>4 DEF IInv, WireInOrder, Kinds
      <3>6. AnswersAreOwn'
        BY <3>2, <3>3, <3>4 DEF IInv, AnswersAreOwn, Kinds
      <3>7. PutsAreOfKnownCards'
        <4>1. ASSUME NEW d \in Conn, On(d, "covers")'
              PROVE  /\ Shown(wire'[d].ids) \subseteq born
                     /\ Knows => Shown(wire'[d].ids) \cap rows \subseteq Known
          BY <3>2, <3>3, <3>4, <4>1 DEF IInv, PutsAreOfKnownCards, Kinds
        <4> QED
          BY <1>1, <1>2, <4>1 DEF PutsAreOfKnownCards, Shown
      <3>8. Follows'
        BY <1>1, <1>2, <3>1, <3>2 DEF IInv, Follows, Kinds
      <3> QED
        BY <3>1, <3>2, <3>5, <3>6, <3>7, <3>8 DEF IInv, TypeOK
    <2> QED
      BY <2>1, <2>2
  <1>7. TypeOK'
    BY <1>1, <1>2, <1>6 DEF IInv, TypeOK
  <1> QED
    BY <1>4, <1>5, <1>6, <1>7 DEF IInv, HookParts

LEMMA DeleteEntryStep ==
  ASSUME IInv, NEW c \in Conn, DeleteEntry(c)
  PROVE  IInv'
  <1> USE DEF server
  <1>1. PICK e : e = wire[c].entry
    OBVIOUS
  <1>2. /\ On(c, "delete") /\ ~wire[c].done /\ wire[c] # None
        /\ UNCHANGED <<born, view, covers, savedIds, run>>
        /\ UNCHANGED <<page, answer, deck, entries>> /\ (Knows' <=> Knows) /\ Known' = Known
    BY ViewStands DEF DeleteEntry, hook, On
  <1>3. e \in Entry
    BY <1>1, <1>2, Messages DEF IInv
  <1>4. CASE e \notin rows
    <2>1. Hangup(c) /\ UNCHANGED <<rows, saved, untold>>
      BY <1>1, <1>4 DEF DeleteEntry
    <2>2. ~Answered(c)
      BY <1>2 DEF Answered
    <2>3. wire' \in [Conn -> Message \cup {None}] /\ WireParts'
      BY <1>2, <2>1, <2>2, RequestGone
    <2>4. HookParts'
      BY <1>2, <2>1, HookStands DEF hook
    <2>5. TypeOK'
      BY <1>2, <2>1, <2>3 DEF IInv, TypeOK
    <2>6. SavedInOrder' /\ EntriesInOrder' /\ SavedAreKnown'
      BY <1>2, <2>1 DEF IInv, SavedInOrder, EntriesInOrder, SavedAreKnown, Shown, Distinct
    <2> QED
      BY <2>3, <2>4, <2>5, <2>6 DEF IInv, WireParts, HookParts
  <1>5. CASE e \in rows
    <2>1. /\ rows' = rows \ {e} /\ saved' = Within(saved, Entry \ {e}) /\ AnswerOn(c, e)
      BY <1>1, <1>5 DEF DeleteEntry, WithoutEntry
    <2>2. /\ saved' \in Covers /\ Shown(saved)' = Shown(saved) \cap (Entry \ {e})
          /\ Distinct(saved)'
      BY <2>1, WithinLists DEF IInv, TypeOK, SavedInOrder
    <2>3. HookParts'
      BY <1>2, <2>1, HookStands DEF hook
    <2>4. SavedInOrder' /\ EntriesInOrder' /\ SavedAreKnown'
      BY <1>2, <2>1, <2>2 DEF IInv, SavedInOrder, EntriesInOrder, SavedAreKnown
    <2>5. /\ wire' \in [Conn -> Message \cup {None}] /\ Else(c)
          /\ \A o \in Kinds : Answers(o) \subseteq Answers(o)'
          /\ untold \subseteq untold' /\ untold' \subseteq Entry
          /\ e \in untold' \cup Answers("delete")'
          /\ \A o \in Kinds : On(c, o)' => o = "delete"
          /\ \A o \in Kinds : AnsweredOn(c, o)' => o = "delete"
          /\ On(c, "delete")' => /\ wire'[c].entry = e /\ wire'[c].done /\ wire'[c].here
                                 /\ page = "editor"
      <3>1. CASE wire[c].here
        <4>1. /\ wire' \in [Conn -> Message \cup {None}] /\ Else(c) /\ untold' = untold
              /\ wire'[c].entry = e /\ wire'[c].done /\ wire'[c].here
              /\ \A o \in Kinds : Answers(o) \subseteq Answers(o)'
              /\ e \in Answers("delete")'
              /\ \A o \in Kinds : On(c, o)' <=> o = "delete"
              /\ \A o \in Kinds : AnsweredOn(c, o)' <=> o = "delete"
          BY <1>2, <1>3, <2>1, <3>1, AnswerSent DEF IInv
        <4>2. page = "editor"
          BY <1>2, <3>1 DEF IInv, WireInOrder
        <4> QED
          BY <4>1, <4>2 DEF IInv, TypeOK
      <3>2. CASE ~wire[c].here
        <4>1. Hangup(c) /\ untold' = untold \cup {e}
          BY <2>1, <3>2 DEF AnswerOn
        <4>2. /\ wire' \in [Conn -> Message \cup {None}] /\ wire'[c] = None /\ Else(c)
              /\ \A op \in Kinds : ~On(c, op)' /\ ~AnsweredOn(c, op)'
              /\ \A op \in Kinds : Answers(op) \subseteq Answers(op)'
          BY <1>2, <4>1, HungUp DEF IInv, On, AnsweredOn
        <4> QED
          BY <1>3, <4>1, <4>2 DEF IInv, TypeOK, Kinds
      <3> QED
        BY <3>1, <3>2
    <2>6. \A d \in Conn \ {c}, o \in Kinds :
            (On(d, o)' <=> On(d, o)) /\ (AnsweredOn(d, o)' <=> AnsweredOn(d, o))
      BY <2>5, Others
    <2>7. \A d \in Conn \ {c} : wire'[d] = wire[d]
      BY <2>5 DEF Else
    <2>8. \A d \in Conn \ {c} : AnsweredOn(d, "add") => wire[d].entry # e
      BY <1>1, <1>2 DEF IInv, AnswersAreOwn
    <2>9. WireInOrder'
      <3>1. e \in born
        BY <1>5 DEF IInv, SavedInOrder
      <3>2. \A d \in Conn \ {c} : On(d, "add") /\ wire[d].done => wire[d].entry # e
        BY <2>8 DEF AnsweredOn
      <3>3. ASSUME NEW d \in Conn
            PROVE  /\ On(d, "add")' /\ ~wire'[d].done => wire'[d].entry = None
                   /\ On(d, "add")' /\ wire'[d].done => wire'[d].entry \in rows' \ deck'
                   /\ On(d, "delete")' => wire'[d].entry \in born'
                   /\ On(d, "delete")' /\ wire'[d].done => wire'[d].entry \notin rows'
                   /\ On(d, "add")' \/ On(d, "delete")' =>
                        /\ wire'[d].done => wire'[d].here
                        /\ wire'[d].here => page' = "editor"
        <4>1. CASE d = c
          BY <1>2, <2>1, <2>5, <3>1, <4>1 DEF Kinds
        <4>2. CASE d # c
          BY <1>2, <2>1, <2>6, <2>7, <3>2, <4>2 DEF IInv, WireInOrder, Kinds
        <4> QED
          BY <4>1, <4>2
      <3> QED
        BY <3>3 DEF WireInOrder
    <2>10. AnswersAreOwn'
      BY <2>5, <2>6, <2>7, <2>8 DEF IInv, AnswersAreOwn, Kinds
    <2>11. PutsAreOfKnownCards'
      <3>1. ASSUME NEW d \in Conn, On(d, "covers")'
            PROVE  /\ Shown(wire'[d].ids) \subseteq born
                   /\ Knows => Shown(wire'[d].ids) \cap rows \subseteq Known
        BY <2>5, <2>6, <2>7, <3>1 DEF IInv, PutsAreOfKnownCards, Kinds
      <3> QED
        BY <1>2, <2>1, <3>1 DEF PutsAreOfKnownCards, Shown
    <2>12. Follows'
      BY <1>2, <2>1, <2>5 DEF IInv, Follows, Kinds
    <2>13. TypeOK'
      BY <1>2, <2>1, <2>2, <2>5 DEF IInv, TypeOK
    <2> QED
      BY <2>3, <2>4, <2>9, <2>10, <2>11, <2>12, <2>13 DEF IInv, HookParts
  <1> QED
    BY <1>4, <1>5

\* What useDeck makes of the answer is what nothing else under way is about.
LEMMA HearAnswerStep ==
  ASSUME IInv, NEW c \in Conn, HearAnswer(c)
  PROVE  IInv'
  <1> USE DEF server, hook
  <1>1. PICK e : e = wire[c].entry
    OBVIOUS
  <1>2. PICK all : all = Told(wire[c])
    OBVIOUS
  <1>3. /\ Answered(c) /\ Hangup(c) /\ deck' = all
        /\ UNCHANGED <<rows, saved, born, page, answer, entries, covers, savedIds, run, untold>>
    BY <1>2 DEF HearAnswer
  <1>4. PICK op \in {"add", "delete"} : On(c, op) /\ AnsweredOn(c, op) /\ wire[c].done
    BY <1>3, Messages DEF IInv, Answered, On, AnsweredOn, Kinds
  <1>5. page = "editor"
    BY <1>4 DEF IInv, WireInOrder
  <1>6. Knows /\ Known = deck /\ Knows' /\ Known' = all
    BY <1>3, <1>5 DEF Knows, Known
  <1>7. /\ op = "add" => e \in rows \ deck /\ all = deck \cup {e}
        /\ op = "delete" => e \notin rows /\ all = deck \ {e}
    BY <1>1, <1>2, <1>4 DEF IInv, WireInOrder, Told, On
  <1>8. /\ all \in SUBSET Entry /\ all \subseteq born /\ rows \cap deck \subseteq all
        /\ rows \cap entries \subseteq all
    BY <1>4, <1>7 DEF IInv, TypeOK, SavedInOrder, EntriesInOrder
  <1>9. /\ wire' \in [Conn -> Message \cup {None}] /\ wire'[c] = None /\ Else(c)
        /\ \A o \in Kinds : ~On(c, o)' /\ ~AnsweredOn(c, o)'
        /\ \A o \in Kinds : ~AnsweredOn(c, o) => Answers(o) \subseteq Answers(o)'
        /\ \A o \in Kinds : Answers(o) \subseteq Answers(o)' \cup {e}
    BY <1>1, <1>3, HungUp DEF IInv
  <1>10. \A d \in Conn \ {c}, o \in Kinds :
           (On(d, o)' <=> On(d, o)) /\ (AnsweredOn(d, o)' <=> AnsweredOn(d, o))
    BY <1>9, Others
  <1>11. \A d \in Conn \ {c} : wire'[d] = wire[d]
    BY <1>9 DEF Else
  <1>12. TypeOK'
    BY <1>3, <1>8, <1>9 DEF IInv, TypeOK
  <1>13. RunInOrder' /\ CoversAreInDeck' /\ SlotsAreFilled'
    BY <1>3 DEF IInv, RunInOrder, CoversAreInDeck, SlotsAreFilled, Distinct, Shown
  <1>14. CoversInOrder' /\ AnswerInOrder'
    BY <1>3, <1>8 DEF IInv, CoversInOrder, AnswerInOrder, Distinct, Shown
  <1>15. SavedInOrder' /\ EntriesInOrder'
    BY <1>3, <1>5, <1>8 DEF IInv, SavedInOrder, EntriesInOrder, Shown, Distinct
  <1>16. SavedAreKnown'
    BY <1>3, <1>6, <1>8 DEF IInv, SavedInOrder, SavedAreKnown, Shown
  <1>17. WireInOrder'
    <2>1. \A d \in Conn \ {c} : On(d, "add") /\ wire[d].done => wire[d].entry \notin all
      <3>1. CASE op = "add"
        BY <1>1, <1>4, <1>7, <3>1 DEF IInv, WireInOrder, AnswersAreOwn, AnsweredOn
      <3>2. CASE op = "delete"
        BY <1>7, <3>2 DEF IInv, WireInOrder
      <3> QED
        BY <3>1, <3>2
    <2>2. ASSUME NEW d \in Conn
          PROVE  /\ On(d, "add")' /\ ~wire'[d].done => wire'[d].entry = None
                 /\ On(d, "add")' /\ wire'[d].done => wire'[d].entry \in rows' \ deck'
                 /\ On(d, "delete")' => wire'[d].entry \in born'
                 /\ On(d, "delete")' /\ wire'[d].done => wire'[d].entry \notin rows'
                 /\ On(d, "add")' \/ On(d, "delete")' =>
                      /\ wire'[d].done => wire'[d].here
                      /\ wire'[d].here => page' = "editor"
      BY <1>3, <1>9, <1>10, <1>11, <2>1 DEF IInv, WireInOrder, Kinds
    <2> QED
      BY <2>2 DEF WireInOrder
  <1>18. AnswersAreOwn'
    BY <1>9, <1>10, <1>11 DEF IInv, AnswersAreOwn, Kinds
  <1>19. PutsAreOfKnownCards'
    <2>1. ASSUME NEW d \in Conn, On(d, "covers")'
          PROVE  /\ Shown(wire'[d].ids) \subseteq born
                 /\ Shown(wire'[d].ids) \cap rows \subseteq all
      BY <1>6, <1>8, <1>9, <1>10, <1>11, <2>1 DEF IInv, PutsAreOfKnownCards, Kinds
    <2> QED
      BY <1>3, <1>6, <2>1 DEF PutsAreOfKnownCards, Shown
  <1>20. Follows'
    <2>1. /\ rows \ deck \subseteq untold \cup Answers("add")
          /\ deck \ rows \subseteq untold \cup Answers("delete")
      BY <1>6 DEF IInv, Follows
    <2>2. CASE op = "add"
      <3>1. ~AnsweredOn(c, "delete")
        BY <1>4, <2>2 DEF On, AnsweredOn
      <3>2. Answers("delete") \subseteq Answers("delete")'
            /\ Answers("add") \subseteq Answers("add")' \cup {e}
        BY <1>9, <3>1 DEF Kinds
      <3> QED
        BY <1>3, <1>6, <1>7, <2>1, <2>2, <3>2 DEF Follows
    <2>3. CASE op = "delete"
      <3>1. ~AnsweredOn(c, "add")
        BY <1>4, <2>3 DEF On, AnsweredOn
      <3>2. Answers("add") \subseteq Answers("add")'
            /\ Answers("delete") \subseteq Answers("delete")' \cup {e}
        BY <1>9, <3>1 DEF Kinds
      <3> QED
        BY <1>3, <1>6, <1>7, <2>1, <2>3, <3>2 DEF Follows
    <2> QED
      BY <2>2, <2>3
  <1> QED
    BY <1>12, <1>13, <1>14, <1>15, <1>16, <1>17, <1>18, <1>19, <1>20 DEF IInv

--------------------------------------------------------------------------------
(***************************************************************************)
(* The theorems.                                                           *)
(***************************************************************************)

LEMMA InitInvariant == Init => IInv
  <1> SUFFICES ASSUME Init PROVE IInv
    OBVIOUS
  <1> USE DEF Init
  <1>1. TypeOK
    BY ShortLists, DeckEditorAssumption DEF TypeOK, NoRun, Run
  <1>2. ~Knows /\ SavedInOrder /\ EntriesInOrder /\ SavedAreKnown /\ AnswerInOrder
    BY ShortLists DEF SavedInOrder, EntriesInOrder, SavedAreKnown, AnswerInOrder, Knows
  <1>3. RunInOrder /\ CoversInOrder /\ CoversAreInDeck /\ SlotsAreFilled
    BY ShortLists DEF RunInOrder, CoversInOrder, CoversAreInDeck, SlotsAreFilled, NoRun
  <1>4. WireInOrder /\ AnswersAreOwn /\ PutsAreOfKnownCards /\ Follows
    BY <1>2 DEF WireInOrder, AnswersAreOwn, PutsAreOfKnownCards, Follows, On, AnsweredOn
  <1> QED
    BY <1>1, <1>2, <1>3, <1>4 DEF IInv

LEMMA NextInvariant == IInv /\ [Next]_vars => IInv'
  <1> SUFFICES ASSUME IInv, [Next]_vars PROVE IInv'
    OBVIOUS
  <1>1. CASE UNCHANGED vars
    <2>0. /\ UNCHANGED <<rows, saved, born, view, hook, wire, untold>>
          /\ UNCHANGED <<page, answer, deck, entries, covers, savedIds, run>>
          /\ (Knows' <=> Knows) /\ Known' = Known
      BY <1>1, ViewStands DEF vars, server, hook
    <2>1. TypeOK' /\ SavedInOrder' /\ EntriesInOrder' /\ SavedAreKnown'
      BY <2>0 DEF IInv, TypeOK, SavedInOrder, EntriesInOrder, SavedAreKnown, Shown, Distinct
    <2>2. HookParts'
      BY <2>0, HookStands
    <2>3. WireInOrder' /\ AnswersAreOwn' /\ PutsAreOfKnownCards' /\ Follows'
      BY <2>0 DEF IInv, WireInOrder, AnswersAreOwn, PutsAreOfKnownCards, Follows, On, AnsweredOn,
             Answers, Shown
    <2> QED
      BY <2>1, <2>2, <2>3 DEF IInv, HookParts
  <1>2. CASE OpenHome \/ OpenEditor \/ ReadDeck \/ OpenTile \/ Load \/ Render \/ Leave
    BY <1>2, OpenStep, ReadDeckStep, OpenTileStep, LoadStep, RenderStep, LeaveStep
  <1>3. CASE FetchDeck \/ FinishLookups \/ ChooseCover \/ ClickAdd \/ ClickDelete
    BY <1>3, FetchDeckStep, FinishLookupsStep, ChooseCoverStep, ClickStep
  <1>4. ASSUME NEW c \in Conn,
               PutCovers(c) \/ PostEntry(c) \/ DeleteEntry(c) \/ HearAnswer(c) \/ Fail(c)
        PROVE  IInv'
    BY <1>4, PutCoversStep, PostEntryStep, DeleteEntryStep, HearAnswerStep, FailStep
  <1> QED
    BY <1>1, <1>2, <1>3, <1>4 DEF Next

THEOREM Invariance == Spec => []IInv
  BY InitInvariant, NextInvariant, PTL DEF Spec

\* Every request, every list of covers and the effect of the page stay of their kinds,
\* whatever comes back and when.
THEOREM TypeCorrect == Spec => []TypeOK
  <1>1. IInv => TypeOK
    BY DEF IInv
  <1> QED
    BY <1>1, Invariance, PTL

\* Neither the user's choice nor the default pick shows an entry in both slots.
THEOREM CoversStayDifferent == Spec => []CoversDiffer
  <1>1. IInv => CoversDiffer
    BY DEF IInv, CoversInOrder, CoversDiffer, Distinct
  <1> QED
    BY <1>1, Invariance, PTL

\* Once the effect has done its work, every cover is a card of the deck that is rendered.
THEOREM CoversStayInDeck == Spec => []CoversAreInDeck
  <1>1. IInv => CoversAreInDeck
    BY DEF IInv
  <1> QED
    BY <1>1, Invariance, PTL

\* Once the effect has done its work, no slot is empty while a card could fill it.
THEOREM SlotsStayFilled == Spec => []SlotsAreFilled
  <1>1. IInv => SlotsAreFilled
    BY DEF IInv
  <1> QED
    BY <1>1, Invariance, PTL

\* The editor's copy differs from the server's entries by what is under way or untold.
THEOREM PageStaysWithServer == Spec => []PageFollowsServer
  <1>1. IInv => PageFollowsServer
    <2>1. Answers("add") \subseteq UnderWay("add")
          /\ Answers("delete") \subseteq UnderWay("delete")
      BY DEF Answers, UnderWay, AnsweredOn, On
    <2> QED
      BY <2>1, InEditor DEF IInv, Follows, PageFollowsServer
  <1> QED
    BY <1>1, Invariance, PTL

\* No PUT, of this visit or an earlier one, saves a cover that the editor does not have.
THEOREM SavedCoversStayShown == Spec => []SavedCoversAreShown
  <1>1. IInv => SavedCoversAreShown
    BY InEditor DEF IInv, SavedAreKnown, SavedCoversAreShown
  <1> QED
    BY <1>1, Invariance, PTL
================================================================================
