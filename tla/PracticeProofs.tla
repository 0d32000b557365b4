----------------------------- MODULE PracticeProofs -----------------------------
(***************************************************************************)
(* Test draws: the dialog that deals and keeps a hand, for decks of any    *)
(* entries, stored hands of any earlier deck and any answers about the     *)
(* stages of cards; and the gestures on the fan of the cards left, for     *)
(* fans of any size, however far apart the cards lie and however they are  *)
(* sorted.  The two have no state in common.                               *)
(*                                                                         *)
(* A hand that is stored says of which deck it is, and is read back by     *)
(* that alone.  So the invariant says of a hand itself that it has each    *)
(* card as often as the deck of its signature, and of the dialog that      *)
(* storage, where there is one, has what the dialog shows.                 *)
(*                                                                         *)
(* A click on the fan asks whether the press before it was a drag, which   *)
(* the record of the press knows until the timeout of its release.  So     *)
(* that invariant says until when: while the press lasts, and until its    *)
(* click has come.                                                         *)
(***************************************************************************)
EXTENDS Practice, DeckFan, FiniteSetTheorems, TLAPS


\* The hand is dealt from the deck whose signature it has.
IsOfItsDeck(s) ==
  \A e \in Entry :
    Copies(s.cards, e) = IF e \in DOMAIN s.signature THEN s.signature[e] ELSE 0

MarksFit(s) == s.revealed \subseteq InZone(s, "prizes") /\ s.marked \subseteq InZone(s, "deck")

IsHand(s) == IsSession(s) /\ (s # None => IsOfItsDeck(s) /\ MarksFit(s))

DialogOf(session, basics, hadSaved, ready, fetching) ==
  [session |-> session, basics |-> basics, hadSaved |-> hadSaved,
   ready |-> ready, fetching |-> fetching]

Shape(d) == d = DialogOf(d.session, d.basics, d.hadSaved, d.ready, d.fetching)

\* A dialog that is not shown yet or anymore, of which kept are the basics.
IsDraft(d, kept) ==
  /\ Shape(d)
  /\ d.basics \in SUBSET Key /\ d.hadSaved \in BOOLEAN /\ d.ready \in BOOLEAN
  /\ d.fetching \in BOOLEAN
  /\ Storage => d.basics = IF kept = None THEN {} ELSE kept

DialogFits(d, hand, kept) ==
  /\ IsDraft(d, kept) /\ IsHand(d.session)
  /\ Storage /\ d.session # None => hand = d.session

IsDeal(d) == d \in Deck /\ CardsIn(d) <= MaxCards

DrawInv ==
  /\ IsHand(stored)
  /\ page \in {"deck", "draw", "broken"}
  /\ dialog # None => page = "draw" /\ DialogFits(dialog, stored, overrides)

PracticeInv ==
  /\ IsDeal(deck)
  /\ overrides \in (SUBSET Key) \cup {None}
  /\ DrawInv

LEMMA DialogParts ==
  ASSUME NEW s, NEW b, NEW h, NEW r, NEW f
  PROVE  /\ Shape(DialogOf(s, b, h, r, f))
         /\ DialogOf(s, b, h, r, f).session = s
         /\ DialogOf(s, b, h, r, f).basics = b
         /\ DialogOf(s, b, h, r, f).hadSaved = h
         /\ DialogOf(s, b, h, r, f).ready = r
         /\ DialogOf(s, b, h, r, f).fetching = f
BY DEF DialogOf, Shape

LEMMA DialogChanges ==
  ASSUME NEW d, Shape(d), NEW s, NEW b
  PROVE  /\ [d EXCEPT !.session = s] = DialogOf(s, d.basics, d.hadSaved, d.ready, d.fetching)
         /\ [d EXCEPT !.basics = b] = DialogOf(d.session, b, d.hadSaved, d.ready, d.fetching)
<1>1. PICK s0, b0, h0, r0, f0 : d = DialogOf(s0, b0, h0, r0, f0)
  BY DEF Shape
<1>2. d.session = s0 /\ d.basics = b0 /\ d.hadSaved = h0 /\ d.ready = r0 /\ d.fetching = f0
  BY <1>1, DialogParts
<1> DEFINE D == DialogOf(s0, b0, h0, r0, f0)
<1>3. [D EXCEPT !.session = s] = DialogOf(s, b0, h0, r0, f0)
  BY DEF DialogOf
<1>4. [D EXCEPT !.basics = b] = DialogOf(s0, b, h0, r0, f0)
  BY DEF DialogOf
<1>5. d = D
  BY <1>1
<1> HIDE DEF D
<1> QED
  BY <1>2, <1>3, <1>4, <1>5, Zenon

LEMMA MadeFits ==
  ASSUME NEW s, NEW b \in SUBSET Key, NEW h \in BOOLEAN, NEW r \in BOOLEAN, NEW f \in BOOLEAN,
         NEW hand, NEW kept, Storage => b = IF kept = None THEN {} ELSE kept,
         IsHand(s), Storage /\ s # None => hand = s
  PROVE  DialogFits(DialogOf(s, b, h, r, f), hand, kept)
<1> DEFINE D == DialogOf(s, b, h, r, f)
<1>1. /\ Shape(D)
      /\ D.session = s /\ D.basics = b /\ D.hadSaved = h /\ D.ready = r /\ D.fetching = f
  BY DialogParts
<1> HIDE DEF D
<1> QED
  BY <1>1 DEF DialogFits, IsDraft, D

\* The dialog turns ready, with the basics it has or with others.
LEMMA ReadyFits ==
  ASSUME NEW d, NEW hand, NEW old, DialogFits(d, hand, old),
         NEW b \in SUBSET Key, NEW kept, Storage => b = IF kept = None THEN {} ELSE kept
  PROVE  /\ DialogFits([d EXCEPT !.basics = b, !.ready = TRUE, !.fetching = FALSE], hand, kept)
         /\ DialogFits([d EXCEPT !.ready = TRUE, !.fetching = FALSE], hand, old)
         /\ DialogFits([d EXCEPT !.fetching = TRUE], hand, old)
<1>1. PICK s0, b0, h0, r0, f0 : d = DialogOf(s0, b0, h0, r0, f0)
  BY DEF DialogFits, IsDraft, Shape
<1>2. d.session = s0 /\ d.basics = b0 /\ d.hadSaved = h0 /\ d.ready = r0 /\ d.fetching = f0
  BY <1>1, DialogParts
<1>3. /\ IsHand(s0) /\ b0 \in SUBSET Key /\ h0 \in BOOLEAN /\ r0 \in BOOLEAN
      /\ Storage => b0 = IF old = None THEN {} ELSE old
      /\ Storage /\ s0 # None => hand = s0
  BY <1>2 DEF DialogFits, IsDraft
<1>4. PICK yes, no : yes = TRUE /\ no = FALSE
  OBVIOUS
<1> DEFINE D == DialogOf(s0, b0, h0, r0, f0)
           Ready == DialogOf(s0, b0, h0, yes, f0)
           Basics == DialogOf(s0, b, h0, r0, f0)
           Both == DialogOf(s0, b, h0, yes, f0)
<1>5. [D EXCEPT !.fetching = yes] = DialogOf(s0, b0, h0, r0, yes)
  BY DEF DialogOf
<1>6. [D EXCEPT !.ready = yes] = Ready
  BY DEF DialogOf
<1>7. [Ready EXCEPT !.fetching = no] = DialogOf(s0, b0, h0, yes, no)
  BY DEF DialogOf
<1>8. [D EXCEPT !.basics = b] = Basics
  BY DEF DialogOf
<1>9. [Basics EXCEPT !.ready = yes] = Both
  BY DEF DialogOf
<1>10. [Both EXCEPT !.fetching = no] = DialogOf(s0, b, h0, yes, no)
  BY DEF DialogOf
<1>11. d = D
  BY <1>1
<1> HIDE DEF D, Ready, Basics, Both
<1>12. [d EXCEPT !.basics = b, !.ready = yes, !.fetching = no] = DialogOf(s0, b, h0, yes, no)
  BY <1>8, <1>9, <1>10, <1>11, Zenon
<1>13. [d EXCEPT !.ready = yes, !.fetching = no] = DialogOf(s0, b0, h0, yes, no)
  BY <1>6, <1>7, <1>11, Zenon
<1>14. [d EXCEPT !.fetching = yes] = DialogOf(s0, b0, h0, r0, yes)
  BY <1>5, <1>11, Zenon
<1>15. /\ DialogFits(DialogOf(s0, b, h0, yes, no), hand, kept)
       /\ DialogFits(DialogOf(s0, b0, h0, yes, no), hand, old)
       /\ DialogFits(DialogOf(s0, b0, h0, r0, yes), hand, old)
  BY <1>3, <1>4, MadeFits
<1> QED
  BY <1>4, <1>12, <1>13, <1>14, <1>15

\* A deck's cards are finitely many.
LEMMA CardsAreFinite ==
  ASSUME NEW d \in Deck
  PROVE  IsFiniteSet(CardsOf(d)) /\ CardsIn(d) \in Nat
<1> USE PracticeAssumption
<1> DEFINE Copies1 == [c \in Count |-> 1 .. c]
           Ranges == {Copies1[c] : c \in Count}
<1>1. IsFiniteSet(Ranges)
  <2>1. Copies1 \in Surjection(Count, Ranges)
    BY DEF Surjection
  <2> QED
    BY <2>1, FS_Surjection
<1>2. \A T \in Ranges : IsFiniteSet(T)
  <2> SUFFICES ASSUME NEW c \in Count PROVE IsFiniteSet(1 .. c)
    OBVIOUS
  <2> QED
    BY FS_Interval
<1>3. IsFiniteSet(UNION Ranges)
  <2> HIDE DEF Ranges
  <2> QED
    BY <1>1, <1>2, FS_UNION
<1>4. IsFiniteSet(Entry \X UNION Ranges)
  <2> HIDE DEF Ranges
  <2> QED
    BY <1>3, FS_Product
<1>5. CardsOf(d) \subseteq Entry \X UNION Ranges
  <2> SUFFICES ASSUME NEW e \in DOMAIN d, NEW i \in 1 .. d[e]
               PROVE  <<e, i>> \in Entry \X UNION Ranges
    BY DEF CardsOf
  <2>1. e \in Entry /\ d[e] \in Count
    BY DEF Deck
  <2>2. 1 .. d[e] = Copies1[d[e]]
    BY <2>1
  <2>3. i \in UNION Ranges
    BY <2>1, <2>2
  <2> QED
    BY <2>1, <2>3
<1> HIDE DEF Ranges
<1>6. IsFiniteSet(CardsOf(d))
  BY <1>4, <1>5, FS_Subset
<1> QED
  BY <1>6, FS_CardinalityType DEF CardsIn

\* The pool has each entry as often as the deck.
LEMMA PoolIsTheDeck ==
  ASSUME NEW d \in Deck, ~Throws(d)
  PROVE  /\ Pool(d) \in [1 .. CardsIn(d) -> DOMAIN d]
         /\ \A e \in DOMAIN d : Copies(Pool(d), e) = d[e]
<1> USE PracticeAssumption
<1> DEFINE n == CardsIn(d)
           All == CardsOf(d)
<1>1. IsFiniteSet(All) /\ n \in Nat
  BY CardsAreFinite
<1>2. PICK f \in Bijection(1 .. n, All) : TRUE
  BY <1>1, FS_CardinalityType DEF CardsIn, ExistsBijection
<1>3. /\ f \in [1 .. n -> All]
      /\ \A i, j \in 1 .. n : f[i] = f[j] => i = j
      /\ \A c \in All : \E i \in 1 .. n : f[i] = c
  BY <1>2 DEF Bijection, Injection, Surjection, IsInjective
<1>4. \A c \in All : \E e \in DOMAIN d : \E i \in 1 .. d[e] : c = <<e, i>>
  BY DEF CardsOf
<1> DEFINE cards == [u \in 1 .. n |-> f[u][1]]
<1>5. cards \in [1 .. n -> DOMAIN d]
  <2> SUFFICES ASSUME NEW u \in 1 .. n PROVE f[u][1] \in DOMAIN d
    OBVIOUS
  <2>1. PICK e \in DOMAIN d : \E i \in 1 .. d[e] : f[u] = <<e, i>>
    BY <1>3, <1>4
  <2> QED
    BY <2>1
<1>6. ASSUME NEW e \in DOMAIN d PROVE Copies(cards, e) = d[e]
  <2> DEFINE Mine == {u \in 1 .. n : cards[u] = e}
             Number == 1 .. d[e]
             g == [u \in Mine |-> f[u][2]]
  <2>1. d[e] \in Nat
    <3>1. PICK E \in SUBSET Entry : d \in [E -> Count]
      BY DEF Deck
    <3>2. d[e] \in Int /\ ~(d[e] < 0)
      BY <3>1 DEF Throws
    <3> QED
      BY <3>2
  <2>2. ASSUME NEW u \in Mine PROVE f[u] = <<e, f[u][2]>> /\ f[u][2] \in Number
    <3>1. PICK x \in DOMAIN d : \E i \in 1 .. d[x] : f[u] = <<x, i>>
      BY <1>3, <1>4
    <3>2. x = e
      BY <3>1
    <3> QED
      BY <3>1, <3>2
  <2>3. g \in [Mine -> Number]
    BY <2>2
  <2>4. \A u, v \in Mine : g[u] = g[v] => u = v
    <3> SUFFICES ASSUME NEW u \in Mine, NEW v \in Mine, g[u] = g[v] PROVE u = v
      OBVIOUS
    <3>1. f[u][2] = f[v][2]
      OBVIOUS
    <3>2. f[u] = f[v]
      BY <2>2, <3>1
    <3> QED
      BY <1>3, <3>2
  <2>5. \A i \in Number : \E u \in Mine : g[u] = i
    <3> SUFFICES ASSUME NEW i \in Number PROVE \E u \in Mine : g[u] = i
      OBVIOUS
    <3>1. <<e, i>> \in All
      BY DEF CardsOf
    <3>2. PICK u \in 1 .. n : f[u] = <<e, i>>
      BY <1>3, <3>1
    <3>3. u \in Mine
      BY <3>2
    <3> QED
      BY <3>2, <3>3
  <2>6. g \in Bijection(Mine, Number)
    <3> HIDE DEF g, Mine, Number
    <3> QED
      BY <2>3, <2>4, <2>5 DEF Bijection, Injection, Surjection, IsInjective
  <2>7. IsFiniteSet(Mine)
    <3>1. IsFiniteSet(1 .. n)
      BY <1>1, FS_Interval
    <3> QED
      BY <3>1, FS_Subset
  <2>8. Cardinality(Number) = Cardinality(Mine)
    <3> HIDE DEF g, Mine, Number
    <3> QED
      BY <2>6, <2>7, FS_Bijection DEF ExistsBijection
  <2>9. Cardinality(Number) = d[e]
    BY <2>1, FS_Interval
  <2>10. {u \in DOMAIN cards : cards[u] = e} = Mine
    OBVIOUS
  <2> QED
    BY <2>8, <2>9, <2>10 DEF Copies
<1>7. \E p \in [1 .. n -> DOMAIN d] : \A e \in DOMAIN d : Copies(p, e) = d[e]
  <2> HIDE DEF cards, n
  <2> QED
    BY <1>5, <1>6
<1> QED
  BY <1>7 DEF Pool

\* What a deal does to the draw.
LEMMA DealKeeps ==
  ASSUME NEW d, IsDeal(d), ~Throws(d), IsHand(stored),
         NEW next, IsDraft(next, overrides'), Deal(next, d)
  PROVE  DrawInv'
<1> USE PracticeAssumption
<1> DEFINE cards == Pool(d)
           n == CardsIn(d)
           S(place, m) == [signature |-> Signature(d), cards |-> cards, zone |-> place,
                           mulligans |-> m, revealed |-> {}, nextRevealed |-> FALSE,
                           marked |-> {}]
<1>1. PICK place \in Places[n], m \in 0 .. MaxMulligans :
        stored' = Saved(S(place, m), stored) /\ Render([next EXCEPT !.session = S(place, m)])
  BY DEF Deal, DealHand
<1> DEFINE s == S(place, m)
<1>2. n \in 0 .. MaxCards
  BY CardsAreFinite DEF IsDeal
<1>3. place \in [1 .. n -> Zone]
  <2>1. PICK order \in Bijection(1 .. n, 1 .. n) : place = [u \in 1 .. n |-> ZoneAt(order[u])]
    BY <1>2 DEF Places
  <2>2. \A u \in 1 .. n : order[u] \in 1 .. n
    BY <2>1 DEF Bijection, Injection
  <2>3. \A i \in 1 .. n : ZoneAt(i) \in Zone
    <3> SUFFICES ASSUME NEW i \in 1 .. n PROVE ZoneAt(i) \in Zone
      OBVIOUS
    <3>1. i \in Int /\ HandSize \in Int /\ Prizes \in Int
      BY <1>2
    <3> QED
      BY <3>1 DEF ZoneAt, Zone
  <2> QED
    BY <2>1, <2>2, <2>3
<1>4. /\ cards \in [1 .. n -> DOMAIN d]
      /\ \A e \in DOMAIN d : Copies(cards, e) = d[e]
  BY PoolIsTheDeck DEF IsDeal
<1>5. cards \in [1 .. n -> Entry]
  BY <1>4 DEF IsDeal, Deck
<1>6. IsSession(s)
  <2>1. s \in Session(n)
    <3> HIDE DEF n, cards
    <3> QED
      BY <1>3, <1>5 DEF IsDeal, Session, Signature
  <2> QED
    BY <1>2, <2>1 DEF IsSession
<1>7. IsOfItsDeck(s)
  <2> SUFFICES ASSUME NEW e \in Entry
               PROVE  Copies(cards, e) = IF e \in DOMAIN d THEN d[e] ELSE 0
    BY DEF IsOfItsDeck, Signature
  <2>1. CASE e \in DOMAIN d
    BY <1>4, <2>1
  <2>2. CASE e \notin DOMAIN d
    <3>1. {u \in DOMAIN cards : cards[u] = e} = {}
      BY <1>4, <2>2
    <3> QED
      BY <2>2, <3>1, FS_EmptySet DEF Copies
  <2> QED
    BY <2>1, <2>2
<1>8. IsHand(s)
  BY <1>6, <1>7 DEF IsHand, MarksFit
<1> DEFINE open == [next EXCEPT !.session = s]
<1> HIDE DEF s
<1>9. /\ IsDraft(open, overrides') /\ open.session = s
  <2>1. open = DialogOf(s, next.basics, next.hadSaved, next.ready, next.fetching)
    BY DialogChanges DEF IsDraft
  <2> QED
    BY <2>1, DialogParts DEF IsDraft
<1> HIDE DEF open
<1>10. IsHand(stored') /\ (Storage => stored' = s)
  BY <1>1, <1>8 DEF Saved, s
<1>11. \/ page' = "broken" /\ dialog' = None
       \/ page' = "draw" /\ dialog' = open
  BY <1>1 DEF Render, open, s
<1>12. DialogFits(open, stored', overrides')
  BY <1>8, <1>9, <1>10 DEF DialogFits
<1> QED
  BY <1>10, <1>11, <1>12 DEF DrawInv

\* The dialog is ready.
LEMMA TurnReadyKeeps ==
  ASSUME NEW d, IsDeal(d), IsHand(stored),
         NEW next, DialogFits(next, stored, overrides'), TurnReady(next, d)
  PROVE  DrawInv'
<1>1. CASE next.session # None
  BY <1>1 DEF TurnReady, Render, DrawInv, DialogFits
<1>2. CASE next.session = None /\ Throws(d)
  BY <1>2 DEF TurnReady, DrawInv
<1>3. CASE next.session = None /\ ~Throws(d)
  <2>1. Deal(next, d)
    BY <1>3 DEF TurnReady
  <2> QED
    BY <1>3, <2>1, DealKeeps DEF DialogFits
<1> QED
  BY <1>1, <1>2, <1>3

LEMMA MountKeeps ==
  ASSUME PracticeInv, NEW d, IsDeal(d), Mount(d), UNCHANGED overrides
  PROVE  DrawInv'
<1> DEFINE begin ==
        [session |-> IF stored # None /\ stored.signature = Signature(d) THEN stored ELSE None,
         basics |-> IF overrides = None THEN {} ELSE overrides,
         hadSaved |-> overrides # None,
         ready |-> KeysOf(d) = {}, fetching |-> KeysOf(d) # {}]
<1>1. IsHand(stored) /\ IsHand(None)
  BY DEF PracticeInv, DrawInv, IsHand, IsSession
<1>2. DialogFits(begin, stored, overrides')
  BY <1>1 DEF DialogFits, IsDraft, Shape, DialogOf, PracticeInv
<1>3. CASE begin.ready
  <2>1. TurnReady(begin, d)
    BY <1>3 DEF Mount
  <2> QED
    BY <1>1, <1>2, <2>1, TurnReadyKeeps
<1>4. CASE ~begin.ready
  <2>1. Render(begin) /\ UNCHANGED stored
    BY <1>4 DEF Mount
  <2> QED
    BY <1>1, <1>2, <2>1 DEF Render, DrawInv
<1> QED
  BY <1>3, <1>4

\* The dialog keeps up with the deck.
LEMMA FollowKeeps ==
  ASSUME PracticeInv, NEW d, IsDeal(d), Follow(d), UNCHANGED overrides
  PROVE  DrawInv'
<1>1. DrawInv /\ IsHand(stored)
  BY DEF PracticeInv, DrawInv
<1>2. CASE UNCHANGED <<page, dialog, stored>>
  BY <1>1, <1>2 DEF DrawInv
<1>3. CASE dialog' = None /\ UNCHANGED <<page, stored>>
  BY <1>1, <1>3 DEF DrawInv
<1>4. CASE Mount(d)
  BY <1>4, MountKeeps
<1>5. CASE page = "draw" /\ dialog # None /\ Restart(d)
  <2> DEFINE ready == [dialog EXCEPT !.ready = TRUE, !.fetching = FALSE]
             again == [dialog EXCEPT !.fetching = TRUE]
  <2>1. DialogFits(dialog, stored, overrides)
    BY <1>1, <1>5 DEF DrawInv
  <2>2. DialogFits(ready, stored, overrides') /\ DialogFits(again, stored, overrides')
    <3>1. dialog.basics \in SUBSET Key
          /\ (Storage => dialog.basics = IF overrides' = None THEN {} ELSE overrides')
      BY <2>1 DEF DialogFits, IsDraft
    <3> QED
      BY <2>1, <3>1, ReadyFits, Zenon
  <2>3. \/ dialog' \in {ready, again} /\ UNCHANGED <<page, stored>>
        \/ TurnReady(ready, d)
    BY <1>5 DEF Restart
  <2>4. CASE dialog' \in {ready, again} /\ UNCHANGED <<page, stored>>
    BY <1>1, <1>5, <2>2, <2>4 DEF DrawInv
  <2>5. CASE TurnReady(ready, d)
    BY <1>1, <2>2, <2>5, TurnReadyKeeps
  <2> QED
    BY <2>3, <2>4, <2>5
<1> QED
  BY <1>2, <1>3, <1>4, <1>5 DEF Follow

LEMMA LookKeeps == ASSUME PracticeInv, Look PROVE PracticeInv'
<1> DEFINE s == dialog.session
<1>1. s # None /\ dialog # None /\ UNCHANGED <<deck, overrides, page>>
  BY DEF Look
<1>2. page = "draw" /\ DialogFits(dialog, stored, overrides) /\ IsHand(s)
  BY <1>1 DEF PracticeInv, DrawInv, DialogFits
<1>3. IsOfItsDeck(s) /\ MarksFit(s)
  BY <1>1, <1>2 DEF IsHand
<1>4. PICK n \in 0 .. MaxCards : s \in Session(n)
  BY <1>1, <1>2 DEF IsHand, IsSession
<1>5. \A zone \in Zone : InZone(s, zone) \subseteq 1 .. n
  BY <1>4 DEF InZone, Session
<1>6. ASSUME NEW t, t \in Session(n), Update(t), IsOfItsDeck(t), MarksFit(t)
      PROVE  DrawInv'
  <2>1. IsHand(t)
    BY <1>6 DEF IsHand, IsSession
  <2>2. dialog' = [dialog EXCEPT !.session = t] /\ stored' = Saved(t, stored)
    BY <1>6 DEF Update
  <2>3. IsHand(stored') /\ (Storage => stored' = t)
    BY <2>1, <2>2 DEF Saved, PracticeInv, DrawInv
  <2>4. DialogFits(dialog', stored', overrides')
    <3>1. dialog' = DialogOf(t, dialog.basics, dialog.hadSaved, dialog.ready, dialog.fetching)
      BY <1>2, <2>2, DialogChanges DEF DialogFits, IsDraft
    <3> QED
      BY <1>1, <1>2, <2>1, <2>3, <3>1, DialogParts DEF DialogFits, IsDraft
  <2> QED
    BY <1>1, <1>2, <2>3, <2>4 DEF DrawInv
<1>7. ASSUME NEW R \in SUBSET InZone(s, "prizes"), Update([s EXCEPT !.revealed = R])
      PROVE  DrawInv'
  <2> DEFINE t == [s EXCEPT !.revealed = R]
  <2>1. t \in Session(n)
    BY <1>4, <1>5, <1>7 DEF Session, Zone
  <2>2. IsOfItsDeck(t) /\ MarksFit(t)
    BY <1>3, <1>4, <1>7 DEF IsOfItsDeck, MarksFit, InZone, Session
  <2> QED
    BY <1>6, <1>7, <2>1, <2>2
<1>8. ASSUME NEW M \in SUBSET InZone(s, "deck"), Update([s EXCEPT !.marked = M])
      PROVE  DrawInv'
  <2> DEFINE t == [s EXCEPT !.marked = M]
  <2>1. t \in Session(n)
    BY <1>4, <1>5, <1>8 DEF Session, Zone
  <2>2. IsOfItsDeck(t) /\ MarksFit(t)
    BY <1>3, <1>4, <1>8 DEF IsOfItsDeck, MarksFit, InZone, Session
  <2> QED
    BY <1>6, <1>8, <2>1, <2>2
<1>9. ASSUME Update([s EXCEPT !.nextRevealed = TRUE]) PROVE DrawInv'
  <2> DEFINE t == [s EXCEPT !.nextRevealed = TRUE]
  <2>1. t \in Session(n)
    BY <1>4 DEF Session
  <2>2. IsOfItsDeck(t) /\ MarksFit(t)
    BY <1>3, <1>4 DEF IsOfItsDeck, MarksFit, InZone, Session
  <2> QED
    BY <1>6, <1>9, <2>1, <2>2
<1>10. DrawInv'
  <2>1. ASSUME NEW u \in InZone(s, "prizes"), Update([s EXCEPT !.revealed = @ \cup {u}])
        PROVE  DrawInv'
    <3>1. s.revealed \cup {u} \in SUBSET InZone(s, "prizes")
      BY <1>3 DEF MarksFit
    <3> QED
      BY <1>7, <2>1, <3>1
  <2>2. ASSUME NEW u \in InZone(s, "deck"),
               Update([s EXCEPT !.marked = IF u \in @ THEN @ \ {u} ELSE @ \cup {u}])
        PROVE  DrawInv'
    <3> DEFINE M == IF u \in s.marked THEN s.marked \ {u} ELSE s.marked \cup {u}
    <3>1. M \in SUBSET InZone(s, "deck")
      BY <1>3 DEF MarksFit
    <3> QED
      BY <1>8, <2>2, <3>1
  <2> QED
    BY <1>7, <1>8, <1>9, <2>1, <2>2 DEF Look
<1> QED
  BY <1>1, <1>10 DEF PracticeInv

LEMMA PracticeInit == Init => PracticeInv
BY DEF Init, PracticeInv, IsDeal, DrawInv, IsHand, IsSession

LEMMA ChangeDeckKeeps == ASSUME PracticeInv, ChangeDeck PROVE PracticeInv'
<1> USE PracticeAssumption
<1>1. deck \in Deck
  BY DEF PracticeInv, IsDeal
<1>2. deck' \in Deck
  <2>1. PICK E \in SUBSET Entry : deck \in [E -> Count]
    BY <1>1 DEF Deck
  <2>2. PICK e \in Entry :
       \/ e \notin DOMAIN deck /\ deck' = [x \in DOMAIN deck \cup {e} |->
                                             IF x = e THEN 1 ELSE deck[x]]
       \/ e \in DOMAIN deck /\ deck' = [x \in DOMAIN deck \ {e} |-> deck[x]]
       \/ e \in DOMAIN deck /\ \E c \in Count : deck' = [deck EXCEPT ![e] = c]
    BY DEF ChangeDeck
  <2>3. deck' \in [E \cup {e} -> Count] \/ deck' \in [E \ {e} -> Count] \/ deck' \in [E -> Count]
    BY <2>1, <2>2
  <2> QED
    BY <2>1, <2>3 DEF Deck
<1>3. IsDeal(deck') /\ Follow(deck') /\ UNCHANGED overrides
  BY <1>2 DEF ChangeDeck, IsDeal
<1>4. DrawInv'
  BY <1>3, FollowKeeps
<1> QED
  BY <1>3, <1>4 DEF PracticeInv, IsDeal

LEMMA FinishLookupsKeeps == ASSUME PracticeInv, FinishLookups PROVE PracticeInv'
<1> USE PracticeAssumption
<1>1. DialogFits(dialog, stored, overrides) /\ page = "draw" /\ dialog # None /\ UNCHANGED deck
  BY DEF FinishLookups, PracticeInv, DrawInv
<1>2. PICK known \in SUBSET KeysOf(deck) :
       LET initial == KeysOf(deck) \ (known \cap Evolved)
           next == [dialog EXCEPT !.basics = IF dialog.hadSaved THEN @ ELSE initial,
                                  !.ready = TRUE, !.fetching = FALSE]
       IN /\ overrides' = IF dialog.hadSaved THEN overrides ELSE Saved(initial, overrides)
          /\ IF dialog.ready THEN dialog' = next /\ UNCHANGED <<page, stored>>
             ELSE TurnReady(next, deck)
  BY DEF FinishLookups
<1> DEFINE initial == KeysOf(deck) \ (known \cap Evolved)
           next == [dialog EXCEPT !.basics = IF dialog.hadSaved THEN @ ELSE initial,
                                  !.ready = TRUE, !.fetching = FALSE]
<1>3. initial \in SUBSET Key /\ initial # None
  <2>1. initial \in SUBSET Key
    BY DEF KeysOf
  <2> QED
    BY <2>1
<1> HIDE DEF initial
<1>4. overrides' = IF dialog.hadSaved THEN overrides ELSE Saved(initial, overrides)
  BY <1>2 DEF initial
<1>5. DialogFits(next, stored, overrides') /\ overrides' \in (SUBSET Key) \cup {None}
  <2> DEFINE basics == IF dialog.hadSaved THEN dialog.basics ELSE initial
  <2>2. basics \in SUBSET Key /\ (Storage => basics = IF overrides' = None THEN {} ELSE overrides')
    BY <1>1, <1>3, <1>4 DEF DialogFits, IsDraft, Saved
  <2>3. overrides' \in (SUBSET Key) \cup {None}
    BY <1>3, <1>4 DEF Saved, PracticeInv
  <2>4. DialogFits([dialog EXCEPT !.basics = basics, !.ready = TRUE, !.fetching = FALSE],
                   stored, overrides')
    <3> HIDE DEF basics
    <3> QED
      BY <1>1, <2>2, ReadyFits, Zenon
  <2> QED
    BY <2>3, <2>4
<1>6. IsDeal(deck) /\ IsHand(stored)
  BY DEF PracticeInv, DrawInv
<1>7. DrawInv'
  <2>1. CASE dialog.ready
    <3>1. dialog' = next /\ UNCHANGED <<page, stored>>
      BY <1>2, <2>1 DEF initial
    <3> QED
      BY <1>1, <1>5, <1>6, <3>1 DEF DrawInv
  <2>2. CASE ~dialog.ready
    <3>1. TurnReady(next, deck)
      BY <1>2, <2>2 DEF initial
    <3> QED
      BY <1>5, <1>6, <3>1, TurnReadyKeeps
  <2> QED
    BY <2>1, <2>2
<1> QED
  BY <1>1, <1>5, <1>7 DEF PracticeInv

LEMMA ToggleKeeps == ASSUME PracticeInv, ToggleBasic PROVE PracticeInv'
<1> USE PracticeAssumption
<1>1. DialogFits(dialog, stored, overrides) /\ page = "draw" /\ dialog # None
      /\ UNCHANGED <<deck, stored, page>>
  BY DEF ToggleBasic, PracticeInv, DrawInv
<1>2. PICK next \in SUBSET Key :
        dialog' = [dialog EXCEPT !.basics = next] /\ overrides' = Saved(next, overrides)
  <2>1. PICK k \in KeysOf(deck) :
         LET next == IF k \in dialog.basics THEN dialog.basics \ {k} ELSE dialog.basics \cup {k}
         IN dialog' = [dialog EXCEPT !.basics = next] /\ overrides' = Saved(next, overrides)
    BY DEF ToggleBasic
  <2>2. k \in Key /\ dialog.basics \in SUBSET Key
    BY <1>1 DEF KeysOf, DialogFits, IsDraft
  <2> QED
    BY <2>1, <2>2
<1>3. DialogFits(dialog', stored', overrides') /\ overrides' \in (SUBSET Key) \cup {None}
  <2>1. dialog' = DialogOf(dialog.session, next, dialog.hadSaved, dialog.ready, dialog.fetching)
    BY <1>1, <1>2, DialogChanges DEF DialogFits, IsDraft
  <2> QED
    BY <1>1, <1>2, <2>1, DialogParts DEF DialogFits, IsDraft, Saved, PracticeInv
<1> QED
  BY <1>1, <1>3 DEF PracticeInv, DrawInv

LEMMA PracticeStep == PracticeInv /\ [Next]_vars => PracticeInv'
<1> SUFFICES ASSUME PracticeInv, [Next]_vars PROVE PracticeInv'
  OBVIOUS
<1>1. CASE OpenDialog
  <2>1. UNCHANGED <<deck, overrides>> /\ IsDeal(deck) /\ DrawInv
    BY <1>1 DEF OpenDialog, PracticeInv
  <2>2. CASE deck = <<>>
    <3>1. page = "deck" /\ page' = "draw" /\ UNCHANGED <<dialog, stored>>
      BY <1>1, <2>2 DEF OpenDialog
    <3> QED
      BY <2>1, <3>1 DEF PracticeInv, DrawInv
  <2>3. CASE deck # <<>>
    <3>1. Mount(deck)
      BY <1>1, <2>3 DEF OpenDialog
    <3>2. DrawInv'
      BY <2>1, <3>1, MountKeeps
    <3> QED
      BY <2>1, <3>2 DEF PracticeInv
  <2> QED
    BY <2>2, <2>3
<1>2. CASE CloseDialog
  BY <1>2 DEF CloseDialog, PracticeInv, DrawInv
<1>3. CASE Reload
  BY <1>3 DEF Reload, PracticeInv, DrawInv
<1>4. CASE ChangeDeck
  BY <1>4, ChangeDeckKeeps
<1>5. CASE FinishLookups
  BY <1>5, FinishLookupsKeeps
<1>6. CASE ToggleBasic
  BY <1>6, ToggleKeeps
<1>7. CASE NewHand
  <2>1. UNCHANGED <<deck, overrides>> /\ IsDeal(deck) /\ IsHand(stored) /\ dialog # None
    BY <1>7 DEF NewHand, PracticeInv, DrawInv
  <2>2. IsDraft(dialog, overrides')
    BY <2>1 DEF PracticeInv, DrawInv, DialogFits
  <2>3. DrawInv'
    BY <1>7, <2>1, <2>2, DealKeeps DEF NewHand
  <2> QED
    BY <2>1, <2>3 DEF PracticeInv
<1>8. CASE Look
  BY <1>8, LookKeeps
<1>9. CASE UNCHANGED vars
  BY <1>9 DEF vars, PracticeInv, DrawInv
<1> QED
  BY <1>1, <1>2, <1>3, <1>4, <1>5, <1>6, <1>7, <1>8, <1>9 DEF Next

LEMMA PracticeInvariance == Spec => []PracticeInv
BY PracticeInit, PracticeStep, PTL DEF Spec

(***************************************************************************)
(* The theorems about the dialog.                                          *)
(***************************************************************************)

\* The deck, what is stored and the dialog have their types (TypeOK).
THEOREM TypeCorrect == Spec => []TypeOK
<1>1. PracticeInv => TypeOK
  <2> SUFFICES ASSUME PracticeInv PROVE TypeOK
    OBVIOUS
  <2>1. dialog # None => page = "draw" /\ IsDialog(dialog)
    BY DEF PracticeInv, DrawInv, DialogFits, IsDraft, Shape, DialogOf, IsHand, IsDialog
  <2> QED
    BY <2>1 DEF PracticeInv, DrawInv, IsDeal, IsHand, TypeOK
<1> QED
  BY <1>1, PracticeInvariance, PTL

\* A hand whose signature is that of the deck as it is has each entry as often as the deck
\* (HandsAreOfTheirDeck), however often the deck was changed and changed back since.
THEOREM HandsStay == Spec => []HandsAreOfTheirDeck
<1>1. PracticeInv => HandsAreOfTheirDeck
  BY DEF PracticeInv, DrawInv, DialogFits, IsHand, IsOfItsDeck, HandsAreOfTheirDeck, Signature
<1> QED
  BY <1>1, PracticeInvariance, PTL

\* Prizes that lie open are prizes of their hand, marked cards lie in its deck
\* (MarksFitTheHand), also in a hand that was stored, read back and played on.
THEOREM MarksStay == Spec => []MarksFitTheHand
<1>1. PracticeInv => MarksFitTheHand
  BY DEF PracticeInv, DrawInv, DialogFits, IsHand, MarksFit, MarksFitTheHand
<1> QED
  BY <1>1, PracticeInvariance, PTL

\* What closing the dialog or reloading the page drops is stored already
\* (ClosingLosesNothing): saveSession and saveOverrides come with every change.
THEOREM ClosingKeepsAll == Spec => []ClosingLosesNothing
<1>1. PracticeInv => ClosingLosesNothing
  BY DEF PracticeInv, DrawInv, DialogFits, IsDraft, ClosingLosesNothing
<1> QED
  BY <1>1, PracticeInvariance, PTL


(***************************************************************************)
(* The fan, from here on: where its cards are.                             *)
(***************************************************************************)

\* The quotient by which the nearest card is found is between these bounds.
LEMMA QuotientBounds ==
  ASSUME NEW a \in Nat, NEW b \in Nat \ {0}, NEW n \in Nat, a < b * n
  PROVE  a \div b \in 0 .. n - 1
<1> DEFINE d == a \div b
<1>1. d \in Int /\ b * d <= a /\ a < b * d + b
  BY Z3
<1> HIDE DEF d
<1>2. ASSUME d < 0 PROVE FALSE
  <2>1. b * (d + 1) <= 0
    BY <1>1, <1>2, Z3
  <2> QED
    BY <1>1, <2>1, Z3
<1>3. ASSUME n <= d PROVE FALSE
  <2>1. b * n <= b * d
    BY <1>1, <1>3, Z3
  <2> QED
    BY <1>1, <2>1, Z3
<1>4. d \in 0 .. n - 1
  BY <1>1, <1>2, <1>3, Z3
<1> QED
  BY <1>4 DEF d

\* The cards lie within reach of the scroll position.
LEMMA CardsAreInReach == Max \in Nat /\ \A i \in Index : CardPos(i) \in Pos
<1> USE DeckFanAssumption
<1>1. Max \in Nat
  BY Z3 DEF Max
<1>2. ASSUME NEW i \in Index PROVE CardPos(i) \in Pos
  <2>1. i \in Nat /\ i <= Left - 1 /\ Left # 0
    BY DEF Index
  <2>2. i * Gap <= (Left - 1) * Gap /\ i * Gap \in Nat
    BY <2>1, Z3
  <2> QED
    BY <1>1, <2>1, <2>2 DEF CardPos, Pos, Max
<1> QED
  BY <1>1, <1>2

\* There is a nearest card wherever the fan is.
LEMMA NearestIsCard ==
  ASSUME Left # 0, NEW p \in Pos PROVE CardAt(p) \in Index
<1> USE DeckFanAssumption
<1>1. p \in Nat /\ p <= (Left - 1) * Gap
  BY CardsAreInReach DEF Pos, Max
<1>2. 2 * p + Gap \in Nat /\ 2 * Gap \in Nat \ {0} /\ 2 * p + Gap < (2 * Gap) * Left
  BY <1>1, Z3
<1>3. (2 * p + Gap) \div (2 * Gap) \in 0 .. Left - 1
  BY <1>2, QuotientBounds
<1> QED
  BY <1>3 DEF CardAt, Index

(***************************************************************************)
(* The invariant of the fan.                                               *)
(***************************************************************************)

\* The page takes one of the cards for the nearest to the center.
ActiveFits == Left # 0 => active \in Index

\* A click comes right after a press on the fan, and what is kept of the press is true.
ClickFits == click # Nothing => button = Nothing /\ sheet # "away" /\ dragging = dragged

PressFits ==
  /\ button = "strip" => pressed /\ sheet # "away"
  /\ pressed => "this" \notin timers /\ dragging = dragged

\* A fan that nothing moves is where a card is at the center.
Rests ==
  sheet # "away" /\ Left # 0 /\ anim = Nothing /\ loose = "no" /\ ~(pressed /\ dragging) =>
    \E i \in Index : pos = CardPos(i)

FanIInv == FanTypeOK /\ ActiveFits /\ ClickFits /\ PressFits /\ Rests

\* What a motion of the fan keeps.
FanInv ==
  /\ pos \in Pos /\ active \in Index \cup {Nothing} /\ ActiveFits
  /\ anim \in [from : Pos, card : Index] \cup {Nothing}
  /\ loose \in {"no", "press", "scrollbar"}

LEMMA FanInvHolds == FanIInv => FanInv
BY DEF FanIInv, FanTypeOK, FanInv

\* The nearest card is one to the page, too.
LEMMA NearestFits ==
  ASSUME NEW p \in Pos, active' = CardAt(p)
  PROVE  active' \in Index \cup {Nothing} /\ ActiveFits'
<1>1. CASE Left = 0
  BY <1>1 DEF CardAt, ActiveFits
<1>2. CASE Left # 0
  BY <1>2, NearestIsCard DEF ActiveFits
<1> QED
  BY <1>1, <1>2

\* The fan goes to a place, and the page does not know yet.
LEMMA ScrollToKeeps ==
  ASSUME FanInv, NEW p \in Pos, ScrollTo(p)
  PROVE  pos' \in Pos /\ active' \in Index \cup {Nothing} /\ ActiveFits' /\ pos' = p
BY DEF ScrollTo, FanInv, ActiveFits

\* The fan sets out to a card, or is there.
LEMMA ScrollToCardKeeps ==
  ASSUME FanInv, NEW card \in Index, ScrollToCard(card)
  PROVE  /\ FanInv' /\ UNCHANGED <<pos, active>> /\ loose' = "no"
         /\ \/ anim' = Nothing /\ pos = CardPos(card)
            \/ anim' # Nothing /\ anim'.card = card
<1>1. UNCHANGED <<pos, active>> /\ loose' = "no"
  BY DEF ScrollToCard
<1>2. CASE pos = CardPos(card)
  <2>1. anim' = Nothing
    BY <1>2 DEF ScrollToCard
  <2> QED
    BY <1>1, <1>2, <2>1 DEF FanInv, ActiveFits
<1>3. CASE pos # CardPos(card)
  <2>1. anim' = [from |-> pos, card |-> card]
    BY <1>3 DEF ScrollToCard
  <2>2. anim' \in [from : Pos, card : Index] /\ anim'.card = card
    BY <2>1 DEF FanInv
  <2>3. anim' # Nothing
    BY <2>2, DeckFanAssumption
  <2> QED
    BY <1>1, <2>2, <2>3 DEF FanInv, ActiveFits
<1> QED
  BY <1>2, <1>3

\* The fan mounts, or is unmounted and with it what it knew of the pointer.
LEMMA OpenedKeeps ==
  ASSUME Opened
  PROVE  /\ FanInv' /\ sorted' \in BOOLEAN /\ grip' = Nothing
         /\ pressed' = FALSE /\ dragging' = FALSE /\ dragged' = FALSE
         /\ timers' = {} /\ click' = Nothing
         /\ Left # 0 => \E i \in Index : pos' = CardPos(i)
<1> USE DeckFanAssumption
<1>1. pos' = Max /\ active' = CardAt(Max) /\ anim' = Nothing /\ loose' = "no"
  BY DEF Opened
<1>2. Max \in Pos
  BY CardsAreInReach DEF Pos
<1>3. active' \in Index \cup {Nothing} /\ ActiveFits'
  BY <1>1, <1>2, NearestFits
<1>4. FanInv'
  BY <1>1, <1>2, <1>3 DEF FanInv
<1>5. Left # 0 => Left - 1 \in Index /\ pos' = CardPos(Left - 1)
  BY <1>1 DEF Index, CardPos, Max
<1> QED
  BY <1>4, <1>5 DEF Opened

LEMMA UnmountKeeps ==
  ASSUME FanIInv, Unmount, marked' \subseteq Index
  PROVE  FanIInv'
<1> USE DeckFanAssumption
<1>1. sheet' = "away" /\ button' \in {Nothing, "elsewhere"} /\ Opened
  BY DEF Unmount
<1> QED
  BY <1>1, OpenedKeeps DEF FanIInv, FanTypeOK, ClickFits, PressFits, Rests, FanInv, Place

\* A press is over: the fan glides to a card if it was a drag.
LEMMA LetGoKeeps ==
  ASSUME FanIInv, sheet # "away", LetGo
  PROVE  /\ FanInv' /\ pressed' = FALSE /\ dragging' = dragging /\ timers' = timers \cup {"this"}
         /\ Left # 0 /\ anim' = Nothing /\ loose' = "no" => \E i \in Index : pos' = CardPos(i)
<1>1. pressed' = FALSE /\ dragging' = dragging /\ timers' = timers \cup {"this"}
  BY DEF LetGo, Release
<1>2. CASE pressed /\ dragging /\ Left # 0
  <2>1. PICK card \in Index : ScrollToCard(card)
    BY <1>2 DEF LetGo, Fling
  <2> QED
    BY <1>1, <2>1, FanInvHolds, ScrollToCardKeeps
<1>3. CASE ~(pressed /\ dragging /\ Left # 0)
  <2>1. Unmoved
    BY <1>3 DEF LetGo
  <2> QED
    BY <1>1, <1>3, <2>1, FanInvHolds DEF Unmoved, FanInv, ActiveFits, FanIInv, Rests
<1> QED
  BY <1>2, <1>3

\* An animation, the wheel or a key moves the fan, or the page is rendered, and no pointer
\* is in it.
LEMMA MotionKeeps ==
  ASSUME FanIInv, RenderActive \/ Frame \/ Land \/ Wheel \/ Scrollbar \/ ArrowKey
  PROVE  FanIInv'
<1> USE DeckFanAssumption
<1>1. UNCHANGED <<sheetVars, button, pointerVars, sorted, marked>>
  BY DEF RenderActive, Frame, Land, Wheel, Scrollbar, ArrowKey
<1>2. ASSUME FanInv',
             sheet # "away" /\ Left # 0 /\ anim' = Nothing /\ loose' = "no"
               /\ ~(pressed /\ dragging)
             => \E i \in Index : pos' = CardPos(i)
      PROVE  FanIInv'
  BY <1>1, <1>2 DEF FanIInv, FanTypeOK, ClickFits, PressFits, Rests, FanInv, sheetVars, pointerVars
<1>3. ASSUME NEW card \in Index, ScrollToCard(card)
      PROVE  FanIInv'
  BY <1>2, <1>3, FanInvHolds, ScrollToCardKeeps
<1>4. CASE Frame
  <2>1. PICK p \in Between(anim.from, CardPos(anim.card)) : ScrollTo(p)
    BY <1>4 DEF Frame
  <2>2. p \in Pos /\ anim # Nothing /\ anim' = anim /\ loose' = loose
    BY <1>4 DEF Frame, Between
  <2>3. FanInv'
    BY <2>1, <2>2, FanInvHolds, ScrollToKeeps DEF FanInv, FanIInv, FanTypeOK
  <2> QED
    BY <1>2, <2>2, <2>3
<1>5. CASE Land
  <2>1. anim.card \in Index /\ ScrollTo(CardPos(anim.card)) /\ anim' = Nothing /\ loose' = loose
    BY <1>5 DEF Land, FanIInv, FanTypeOK
  <2>2. FanInv' /\ pos' = CardPos(anim.card)
    BY <2>1, CardsAreInReach, FanInvHolds, ScrollToKeeps DEF FanInv, FanIInv, FanTypeOK
  <2> QED
    BY <1>2, <2>1, <2>2
<1>6. CASE Wheel
  BY <1>3, <1>6 DEF Wheel
<1>7. CASE Scrollbar
  <2>1. PICK p \in Pos : ScrollTo(p)
    BY <1>7 DEF Scrollbar
  <2>2. loose' = "scrollbar" /\ anim' = anim
    BY <1>7 DEF Scrollbar
  <2>3. FanInv'
    BY <2>1, <2>2, FanInvHolds, ScrollToKeeps DEF FanInv, FanIInv, FanTypeOK
  <2> QED
    BY <1>2, <2>2, <2>3
<1>8. CASE ArrowKey
  <2>1. Left # 0
    BY <1>8 DEF ArrowKey
  <2>2. active \in Index
    BY <2>1 DEF FanIInv, ActiveFits
  <2> DEFINE at == IF anim # Nothing THEN anim.card ELSE active
  <2>3. at \in Index
    BY <2>2 DEF FanIInv, FanTypeOK
  <2>4. PICK card \in {Clamped(at + 1), Clamped(at - 1), 0, Left - 1} : ScrollToCard(card)
    BY <1>8 DEF ArrowKey
  <2> HIDE DEF at
  <2>5. card \in Index
    BY <2>1, <2>3, <2>4 DEF Index, Clamped
  <2> QED
    BY <1>3, <2>4, <2>5
<1>9. CASE RenderActive
  <2>1. active' = CardAt(pos) /\ UNCHANGED <<pos, anim, loose>>
    BY <1>9 DEF RenderActive
  <2>2. active' \in Index \cup {Nothing} /\ ActiveFits'
    BY <2>1, NearestFits DEF FanIInv, FanTypeOK
  <2> QED
    BY <1>2, <2>1, <2>2 DEF FanInv, FanIInv, FanTypeOK, Rests
<1> QED
  BY <1>4, <1>5, <1>6, <1>7, <1>8, <1>9

\* A mark is set or taken away.
LEMMA ToggleMarks ==
  ASSUME FanIInv, NEW i \in Index, Toggle(Ordered(i))
  PROVE  marked' \subseteq Index /\ marked' # marked
<1>1. Ordered(i) \in Index
  BY DeckFanAssumption DEF Ordered
<1>2. marked \subseteq Index
  BY DEF FanIInv, FanTypeOK
<1>3. CASE Ordered(i) \in marked
  <2>1. marked' = marked \ {Ordered(i)}
    BY <1>3 DEF Toggle
  <2> QED
    BY <1>2, <1>3, <2>1
<1>4. CASE Ordered(i) \notin marked
  <2>1. marked' = marked \cup {Ordered(i)}
    BY <1>4 DEF Toggle
  <2> QED
    BY <1>1, <1>2, <1>4, <2>1
<1> QED
  BY <1>3, <1>4

LEMMA MarksKeep ==
  ASSUME FanIInv, MarkKey \/ ClearMarks \/ Sort
  PROVE  FanIInv'
<1>1. /\ UNCHANGED <<sheet, grip, button, pressed, dragging, timers, click, dragged>>
      /\ UNCHANGED <<pos, active, anim, loose>>
  BY DEF MarkKey, ClearMarks, Sort, sheetVars, pointerVars, fanVars
<1>2. sorted' \in BOOLEAN
  BY DEF MarkKey, ClearMarks, Sort, fanVars, FanIInv, FanTypeOK
<1>3. marked' \subseteq Index
  <2>1. CASE MarkKey
    <3>1. active \in Index /\ Toggle(Ordered(active))
      BY <2>1 DEF MarkKey, FanIInv, FanTypeOK
    <3> QED
      BY <3>1, ToggleMarks
  <2>2. CASE ClearMarks
    BY <2>2 DEF ClearMarks
  <2>3. CASE Sort
    BY <2>3 DEF Sort, FanIInv, FanTypeOK
  <2> QED
    BY <2>1, <2>2, <2>3
<1> QED
  BY <1>1, <1>2, <1>3 DEF FanIInv, FanTypeOK, ActiveFits, ClickFits, PressFits, Rests

LEMMA PointerDownKeeps ==
  ASSUME FanIInv, PointerDown
  PROVE  FanIInv'
<1> USE DeckFanAssumption
<1>1. /\ sheet # "away" /\ click = Nothing /\ click' = Nothing
      /\ button' = "strip" /\ pressed' = TRUE /\ dragging' = FALSE /\ dragged' = FALSE
      /\ timers' \in {{}, {"earlier"}} /\ anim' = Nothing
      /\ loose' = IF anim # Nothing \/ pressed THEN "press" ELSE loose
      /\ UNCHANGED <<sheet, grip, sorted, pos, active, marked>>
  BY DEF PointerDown, NewDrag, sheetVars
<1>2. FanTypeOK'
  BY <1>1 DEF FanIInv, FanTypeOK, Place
<1>3. ActiveFits' /\ ClickFits' /\ PressFits'
  BY <1>1 DEF FanIInv, ActiveFits, ClickFits, PressFits
<1>4. Rests'
  BY <1>1 DEF FanIInv, Rests
<1> QED
  BY <1>2, <1>3, <1>4 DEF FanIInv

LEMMA PointerMoveKeeps ==
  ASSUME FanIInv, PointerMove
  PROVE  FanIInv'
<1>1. /\ sheet # "away" /\ pressed /\ dragging' = TRUE /\ dragged' = TRUE
      /\ UNCHANGED <<sheet, grip, button, pressed, timers, click, sorted, anim, loose, marked>>
  BY DEF PointerMove, sheetVars
<1>2. pos' \in Pos /\ active' \in Index \cup {Nothing} /\ ActiveFits'
  <2>1. CASE Left = 0
    BY <2>1 DEF PointerMove, FanIInv, FanTypeOK, ActiveFits
  <2>2. CASE Left # 0
    <3>1. PICK p \in Pos : ScrollTo(p)
      BY <2>2 DEF PointerMove
    <3> QED
      BY <3>1, FanInvHolds, ScrollToKeeps
  <2> QED
    BY <2>1, <2>2
<1>3. FanTypeOK'
  BY <1>1, <1>2 DEF FanIInv, FanTypeOK
<1>4. ClickFits' /\ PressFits' /\ Rests'
  BY <1>1 DEF FanIInv, FanTypeOK, ClickFits, PressFits, Rests
<1> QED
  BY <1>2, <1>3, <1>4 DEF FanIInv

\* The pointer goes up, is taken away, or is pressed and let go beside the fan.
LEMMA PointerUpKeeps ==
  ASSUME FanIInv, PointerUp \/ PointerCancel \/ PointerUpElsewhere \/ PointerDownElsewhere
  PROVE  FanIInv'
<1> USE DeckFanAssumption
<1>1. ASSUME sheet # "away", button' = Nothing, LetGo,
             UNCHANGED <<sheet, grip, dragged, sorted, marked>>,
             click' \in Index \cup {Nothing}, click' # Nothing => dragging = dragged
      PROVE  FanIInv'
  <2>1. /\ FanInv' /\ pressed' = FALSE /\ dragging' = dragging /\ timers' = timers \cup {"this"}
        /\ Left # 0 /\ anim' = Nothing /\ loose' = "no" => \E i \in Index : pos' = CardPos(i)
    BY <1>1, LetGoKeeps
  <2>2. FanTypeOK'
    BY <1>1, <2>1 DEF FanIInv, FanTypeOK, FanInv
  <2>3. ActiveFits' /\ ClickFits' /\ PressFits' /\ Rests'
    BY <1>1, <2>1 DEF FanInv, ClickFits, PressFits, Rests
  <2> QED
    BY <2>2, <2>3 DEF FanIInv
<1>2. CASE PointerUp
  <2>1. /\ sheet # "away" /\ button' = Nothing /\ LetGo
        /\ UNCHANGED <<sheet, grip, dragged, sorted, marked>>
        /\ click' \in Index \cup {Nothing} /\ (click' # Nothing => button = "strip")
    BY <1>2 DEF PointerUp, sheetVars
  <2>2. click' # Nothing => dragging = dragged
    BY <2>1 DEF FanIInv, PressFits
  <2> QED
    BY <1>1, <2>1, <2>2
<1>3. CASE PointerCancel
  <2>1. /\ sheet # "away" /\ button = "strip" /\ button' = Nothing /\ LetGo
        /\ UNCHANGED <<sheet, grip, click, dragged, sorted, marked>>
    BY <1>3 DEF PointerCancel, sheetVars
  <2> QED
    BY <1>1, <2>1 DEF FanIInv, FanTypeOK, ClickFits
<1>4. CASE PointerUpElsewhere \/ PointerDownElsewhere
  <2>1. /\ button' \in {Nothing, "elsewhere"}
        /\ (click # Nothing => button' = Nothing)
        /\ UNCHANGED <<sheet, grip, pressed, dragging, timers, click, dragged>>
        /\ UNCHANGED <<sorted, pos, active, anim, loose, marked>>
    BY <1>4 DEF PointerUpElsewhere, PointerDownElsewhere, sheetVars, pointerVars, fanVars
  <2> QED
    BY <2>1 DEF FanIInv, FanTypeOK, ActiveFits, ClickFits, PressFits, Rests, Place
<1> QED
  BY <1>2, <1>3, <1>4

LEMMA CardClickKeeps ==
  ASSUME FanIInv, CardClick
  PROVE  FanIInv'
<1>1. /\ click \in Index /\ click' = Nothing
      /\ UNCHANGED <<sheet, grip, button, pressed, dragging, timers, dragged, sorted>>
  BY DEF CardClick, sheetVars, FanIInv, FanTypeOK
<1>2. /\ FanInv' /\ marked' \subseteq Index
      /\ (\/ UNCHANGED <<pos, anim, loose>>
          \/ anim' # Nothing
          \/ pos' = CardPos(click))
  <2>1. CASE Unmoved /\ UNCHANGED marked
    BY <2>1, FanInvHolds DEF Unmoved, FanInv, ActiveFits, FanIInv, FanTypeOK
  <2>2. CASE Toggle(Ordered(click)) /\ Unmoved
    BY <1>1, <2>2, FanInvHolds, ToggleMarks DEF Unmoved, FanInv, ActiveFits
  <2>3. CASE ScrollToCard(click) /\ UNCHANGED marked
    BY <1>1, <2>3, FanInvHolds, ScrollToCardKeeps DEF FanIInv, FanTypeOK
  <2> QED
    BY <2>1, <2>2, <2>3 DEF CardClick
<1>3. FanTypeOK'
  BY <1>1, <1>2 DEF FanIInv, FanTypeOK, FanInv
<1>4. ActiveFits' /\ ClickFits' /\ PressFits'
  BY <1>1, <1>2 DEF FanIInv, FanInv, ClickFits, PressFits
<1>5. Rests'
  BY <1>1, <1>2 DEF FanIInv, Rests
<1> QED
  BY <1>3, <1>4, <1>5 DEF FanIInv

LEMMA TimeoutKeeps ==
  ASSUME FanIInv, Timeout
  PROVE  FanIInv'
<1>1. PICK timer \in timers :
        /\ timer = "this" /\ dragging => click = Nothing
        /\ timers' = timers \ {timer}
        /\ dragging' = (timer # "this" /\ dragging)
  BY DEF Timeout
<1>2. /\ UNCHANGED <<sheet, grip, button, pressed, click, dragged>>
      /\ UNCHANGED <<sorted, pos, active, anim, loose, marked>>
  BY DEF Timeout, sheetVars, fanVars
<1>3. timer = "this" => ~pressed
  BY <1>1 DEF FanIInv, PressFits
<1>4. timer # "this" => dragging' = dragging
  BY <1>1 DEF FanIInv, FanTypeOK
<1>5. FanTypeOK'
  BY <1>1, <1>2 DEF FanIInv, FanTypeOK
<1>6. click # Nothing => dragging' = dragging
  BY <1>1, <1>4 DEF FanIInv, FanTypeOK
<1>7. ActiveFits' /\ ClickFits' /\ PressFits'
  BY <1>1, <1>2, <1>3, <1>4, <1>6 DEF FanIInv, ActiveFits, ClickFits, PressFits
<1>8. Rests'
  BY <1>2, <1>3, <1>4 DEF FanIInv, Rests
<1> QED
  BY <1>5, <1>7, <1>8 DEF FanIInv

LEMMA SheetKeeps ==
  ASSUME FanIInv,
         \/ PickUp \/ Drop \/ DealAnew \/ TransitionEnd
         \/ HandleDown \/ HandleMove \/ HandleUp \/ HandleCancel \/ PutDown
  PROVE  FanIInv'
<1> USE DeckFanAssumption
<1>1. marked \subseteq Index
  BY DEF FanIInv, FanTypeOK
<1>2. CASE PickUp
  <2>1. sheet = "away" /\ sheet' = "up" /\ Opened /\ UNCHANGED <<button, marked>>
    BY <1>2 DEF PickUp
  <2>2. button' # "strip"
    BY <2>1 DEF FanIInv, PressFits
  <2>3. FanTypeOK'
    BY <2>1, OpenedKeeps DEF FanIInv, FanTypeOK, FanInv
  <2>4. ActiveFits' /\ ClickFits' /\ PressFits' /\ Rests'
    BY <2>1, <2>2, OpenedKeeps DEF FanInv, ClickFits, PressFits, Rests
  <2> QED
    BY <2>3, <2>4 DEF FanIInv
<1>3. CASE Drop \/ TransitionEnd
  BY <1>1, <1>3, UnmountKeeps DEF Drop, TransitionEnd
<1>4. CASE DealAnew
  BY <1>4, UnmountKeeps DEF DealAnew
<1>5. CASE HandleDown \/ HandleMove \/ HandleUp \/ HandleCancel \/ PutDown
  <2>1. /\ UNCHANGED <<pressed, dragging, timers, click, dragged>>
        /\ UNCHANGED <<sorted, pos, active, anim, loose, marked>>
    BY <1>5 DEF HandleDown, HandleMove, HandleUp, HandleCancel, PutDown, pointerVars, fanVars
  <2>2. /\ grip' \in {Nothing, "pressed", "moved"}
        /\ button' \in {button, Nothing, "handle"}
        /\ click # Nothing => button' \in {button, Nothing}
    BY <1>5 DEF HandleDown, HandleMove, HandleUp, HandleCancel, PutDown, FanIInv, FanTypeOK
  <2>3. /\ sheet' \in {"away", "up", "closing"}
        /\ sheet' = "away" <=> sheet = "away"
    BY <1>5 DEF HandleDown, HandleMove, HandleUp, HandleCancel, PutDown, FanIInv, FanTypeOK
  <2>4. FanTypeOK'
    BY <2>1, <2>2, <2>3 DEF FanIInv, FanTypeOK, Place
  <2>5. ActiveFits' /\ ClickFits' /\ PressFits' /\ Rests'
    BY <2>1, <2>2, <2>3 DEF FanIInv, ActiveFits, ClickFits, PressFits, Rests
  <2> QED
    BY <2>4, <2>5 DEF FanIInv
<1> QED
  BY <1>2, <1>3, <1>4, <1>5

LEMMA FanBegins == FanInit => FanIInv
<1> SUFFICES ASSUME FanInit PROVE FanIInv
  OBVIOUS
<1> USE DeckFanAssumption
<1>1. Max \in Pos
  BY CardsAreInReach DEF Pos
<1>2. CardAt(Max) \in Index \cup {Nothing} /\ (Left # 0 => CardAt(Max) \in Index)
  BY <1>1, NearestIsCard DEF CardAt
<1> QED
  BY <1>1, <1>2 DEF FanInit, FanIInv, FanTypeOK, ActiveFits, ClickFits, PressFits, Rests

LEMMA FanKeeps == FanIInv /\ [FanNext]_allVars => FanIInv'
<1> SUFFICES ASSUME FanIInv, [FanNext]_allVars PROVE FanIInv'
  OBVIOUS
<1>1. CASE UNCHANGED allVars
  BY <1>1 DEF allVars, sheetVars, pointerVars, fanVars, FanIInv, FanTypeOK, ActiveFits, ClickFits,
              PressFits, Rests
<1>2. CASE FanNext
  BY <1>2, MotionKeeps, MarksKeep, PointerDownKeeps, PointerMoveKeeps, PointerUpKeeps,
     CardClickKeeps, TimeoutKeeps, SheetKeeps DEF FanNext
<1> QED
  BY <1>1, <1>2

LEMMA FanInvariance == FanSpec => []FanIInv
BY FanBegins, FanKeeps, PTL DEF FanSpec

(***************************************************************************)
(* The theorems about the fan.                                             *)
(***************************************************************************)

\* The page and the pointer have their types, the scroll position its bounds (FanTypeOK).
THEOREM FanTypeCorrect == FanSpec => []FanTypeOK
<1>1. FanIInv => FanTypeOK
  BY DEF FanIInv
<1> QED
  BY <1>1, FanInvariance, PTL

\* A click after a drag does nothing, and one after a press that was none marks the card or
\* has it at the center or on its way (DragsAreNoClicks), however the timeouts of releases
\* fall between presses.
THEOREM DragsDoNotClick == FanSpec => DragsAreNoClicks
<1>1. ASSUME FanIInv, [FanNext]_allVars
      PROVE  [click # Nothing /\ click' = Nothing /\ sheet' # "away" =>
                IF dragged THEN UNCHANGED <<marked, pos, anim>>
                ELSE \/ marked' # marked \/ pos = CardPos(click)
                     \/ anim' # Nothing /\ anim'.card = click]_allVars
  <2>1. SUFFICES ASSUME click # Nothing, click' = Nothing, sheet' # "away", FanNext
                 PROVE  IF dragged THEN UNCHANGED <<marked, pos, anim>>
                        ELSE \/ marked' # marked \/ pos = CardPos(click)
                             \/ anim' # Nothing /\ anim'.card = click
    BY <1>1 DEF allVars, pointerVars
  <2>2. button = Nothing /\ sheet # "away" /\ dragging = dragged /\ click \in Index
    BY <1>1, <2>1 DEF FanIInv, ClickFits, FanTypeOK
  <2>3. CardClick
    <3>1. ~PointerUp
      BY <2>2, DeckFanAssumption DEF PointerUp
    <3>2. ~(PickUp \/ Drop \/ DealAnew \/ TransitionEnd)
      BY <2>1, <2>2 DEF PickUp, Drop, DealAnew, TransitionEnd, Unmount
    <3>3. \/ click' = click
          \/ PointerUp \/ CardClick \/ PickUp \/ Drop \/ DealAnew \/ TransitionEnd
      BY <2>1 DEF FanNext, RenderActive, Frame, Land, Wheel, Scrollbar, ArrowKey, MarkKey, ClearMarks,
         Sort, PointerDown, PointerMove, PointerCancel, PointerUpElsewhere, PointerDownElsewhere,
         Timeout, HandleDown, HandleMove, HandleUp, HandleCancel, PutDown, pointerVars
    <3> QED
      BY <2>1, <3>1, <3>2, <3>3
  <2>4. CASE dragged
    BY <2>2, <2>3, <2>4 DEF CardClick, Unmoved
  <2>5. CASE ~dragged /\ click = active
    BY <1>1, <2>2, <2>3, <2>5, ToggleMarks DEF CardClick
  <2>6. CASE ~dragged /\ click # active
    <3>1. ScrollToCard(click)
      BY <2>2, <2>3, <2>6 DEF CardClick
    <3> QED
      BY <1>1, <2>2, <2>6, <3>1, FanInvHolds, ScrollToCardKeeps
  <2> QED
    BY <2>4, <2>5, <2>6
<1> QED
  BY <1>1, FanInvariance, PTL DEF FanSpec, DragsAreNoClicks

\* A fan at rest has a card at its center (LandsOnACard), whatever gestures and animations
\* have cut each other short.
THEOREM LandsRightly == FanSpec => []LandsOnACard
<1>1. FanIInv => LandsOnACard
  BY DEF FanIInv, Rests, LandsOnACard
<1> QED
  BY <1>1, FanInvariance, PTL
=================================================================================
