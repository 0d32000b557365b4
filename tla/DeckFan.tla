-------------------------------- MODULE DeckFan --------------------------------
(***************************************************************************)
(* The picked-up deck of a test draw: the fan of its cards                 *)
(* (practice/DeckFan.tsx) in its sheet (practice/DeckSheet.tsx).           *)
(*                                                                         *)
(* One pointer, the wheel, the keys and the running animation all move the *)
(* one scroll position, and a release may be followed by a click.  How far *)
(* and how fast the pointer or the wheel went is left open: a drag may     *)
(* take the fan anywhere, a fling or a turn of the wheel may aim at any    *)
(* card.  The layout stays as it is while the deck is up.                  *)
(*                                                                         *)
(* What the other modules call Init, Next, Spec, TypeOK and vars has names *)
(* of its own here, so that one module can extend this one and Practice.   *)
(***************************************************************************)
EXTENDS Integers

CONSTANTS
  Left,      \* how many cards are left in the deck
  Gap,        \* how far apart they lie, in steps of the scroll position
  SortedUid,  \* sortCards: the card at each place once sorted
  Nothing

Index == 0 .. Left - 1

\* The far right, where the last card is at the center.
Max == IF Left = 0 THEN 0 ELSE (Left - 1) * Gap

Pos == 0 .. Max

ASSUME DeckFanAssumption ==
  /\ Left \in Nat /\ Gap \in Nat \ {0}
  /\ SortedUid \in [Index -> Index]
  /\ Nothing \notin Int /\ Nothing \notin [from : Pos, card : Index]
  /\ Nothing \notin {"strip", "handle", "elsewhere", "pressed", "moved"}

\* Where the finger or the button went down.
Place == {"strip", "handle", "elsewhere"}

VARIABLES
  sheet,     \* "away", "up", or "closing" while it slides down
  grip,      \* the drag of the handle: Nothing, "pressed" or "moved"
  button,    \* where the pointer is held down, or Nothing
  sorted,
  pos,       \* scrollLeft
  active,    \* the card nearest the center when the fan was last rendered
  anim,      \* the animation: where it started and the card it lands on, or Nothing
  pressed,   \* drag.current of the fan
  dragging,
  timers,    \* which records of a drag a release left a timeout on: "this", "earlier"
  click,     \* the card a click is about to reach, or Nothing
  marked,    \* the cards marked as seen
  dragged,   \* whether the last press on the strip was a drag, which the code forgets
  loose      \* "press" if one left the fan where it is, "scrollbar" if that did, or "no"

sheetVars == <<sheet, grip>>
pointerVars == <<pressed, dragging, timers, click, dragged>>
fanVars == <<sorted, pos, active, anim, loose>>
allVars == <<sheetVars, button, pointerVars, fanVars, marked>>

FanTypeOK ==
  /\ sheet \in {"away", "up", "closing"} /\ grip \in {Nothing, "pressed", "moved"}
  /\ button \in Place \cup {Nothing}
  /\ sorted \in BOOLEAN /\ pos \in Pos /\ active \in Index \cup {Nothing}
  /\ anim \in [from : Pos, card : Index] \cup {Nothing}
  /\ pressed \in BOOLEAN /\ dragging \in BOOLEAN /\ timers \subseteq {"this", "earlier"}
  /\ click \in Index \cup {Nothing}
  /\ marked \subseteq Index
  /\ dragged \in BOOLEAN /\ loose \in {"no", "press", "scrollbar"}

Ordered(i) == IF sorted THEN SortedUid[i] ELSE i

CardPos(i) == i * Gap

\* Math.round rounds a half up.
CardAt(p) == IF Left = 0 THEN Nothing ELSE (2 * p + Gap) \div (2 * Gap)

(***************************************************************************)
(* The fan's motion.                                                       *)
(***************************************************************************)

\* A write of scrollLeft.  The paint that follows it asks for a render.
ScrollTo(p) == pos' = p /\ UNCHANGED active

\* A render, which paints once more; until then every handler has the card of the last one.
RenderActive ==
  /\ sheet # "away"
  /\ active' = CardAt(pos)
  /\ UNCHANGED <<sheetVars, button, pointerVars, sorted, pos, anim, loose, marked>>

\* Onto a card, at once if the fan is there.
ScrollToCard(card) ==
  /\ IF pos = CardPos(card)
     THEN anim' = Nothing
     ELSE anim' = [from |-> pos, card |-> card]
  /\ loose' = "no"
  /\ UNCHANGED <<pos, active>>

Unmoved == UNCHANGED <<pos, active, anim, loose>>

Between(p, q) == {x \in Pos : (p <= x /\ x <= q) \/ (q <= x /\ x <= p)}

\* A frame of the animation that is not its last.
Frame ==
  /\ anim # Nothing
  /\ \E p \in Between(anim.from, CardPos(anim.card)) : ScrollTo(p)
  /\ UNCHANGED <<sheetVars, button, pointerVars, sorted, anim, loose, marked>>

\* Its last.
Land ==
  /\ anim # Nothing
  /\ ScrollTo(CardPos(anim.card))
  /\ anim' = Nothing
  /\ UNCHANGED <<sheetVars, button, pointerVars, sorted, loose, marked>>

\* The wheel aims at a card; if the animation does already, it goes on.
Wheel ==
  /\ sheet # "away"
  /\ \E card \in Index : ~(anim # Nothing /\ anim.card = card) /\ ScrollToCard(card)
  /\ UNCHANGED <<sheetVars, button, pointerVars, sorted, marked>>

\* The strip's own scrollbar; an animation goes on against it.
Scrollbar ==
  /\ sheet # "away" /\ Left # 0
  /\ \E p \in Pos : ScrollTo(p)
  /\ loose' = "scrollbar"
  /\ UNCHANGED <<sheetVars, button, pointerVars, sorted, anim, marked>>

Clamped(i) == IF i < 0 THEN 0 ELSE IF i > Left - 1 THEN Left - 1 ELSE i

\* An arrow builds on the animation under way; Home and End.
ArrowKey ==
  /\ sheet # "away" /\ Left # 0
  /\ LET at == IF anim # Nothing THEN anim.card ELSE active
     IN \E card \in {Clamped(at + 1), Clamped(at - 1), 0, Left - 1} : ScrollToCard(card)
  /\ UNCHANGED <<sheetVars, button, pointerVars, sorted, marked>>

(***************************************************************************)
(* Marks.                                                                  *)
(***************************************************************************)
Toggle(u) == marked' = IF u \in marked THEN marked \ {u} ELSE marked \cup {u}

\* Space or Enter.
MarkKey ==
  /\ sheet # "away" /\ active # Nothing
  /\ Toggle(Ordered(active))
  /\ UNCHANGED <<sheetVars, button, pointerVars, fanVars>>

ClearMarks ==
  /\ sheet # "away" /\ marked # {}
  /\ marked' = {}
  /\ UNCHANGED <<sheetVars, button, pointerVars, fanVars>>

\* "Shuffled" and "Sorted": the fan stays where it is, over other cards.
Sort ==
  /\ sheet # "away"
  /\ sorted' = ~sorted
  /\ UNCHANGED <<sheetVars, button, pointerVars, pos, active, anim, loose, marked>>

(***************************************************************************)
(* The pointer on the strip.                                               *)
(***************************************************************************)

\* (with a bug: the press writes into the last drag's record, which its timeout is to clear)
SameDrag == timers' = timers

\* A press starts a record of its own.
NewDrag == timers' = IF timers = {} THEN {} ELSE {"earlier"}

\* A press stops the fan.
PointerDown ==
  /\ sheet # "away" /\ button = Nothing /\ click = Nothing
  /\ button' = "strip" /\ pressed' = TRUE /\ dragging' = FALSE /\ dragged' = FALSE
  /\ NewDrag
  /\ anim' = Nothing
  /\ loose' = IF anim # Nothing \/ pressed THEN "press" ELSE loose
  /\ UNCHANGED <<sheetVars, click, sorted, pos, active, marked>>

\* A move past the threshold makes the press a drag, and the pointer the strip's.
PointerMove ==
  /\ sheet # "away" /\ pressed
  /\ dragging' = TRUE /\ dragged' = TRUE
  /\ IF Left = 0 THEN UNCHANGED <<pos, active>> ELSE \E p \in Pos : ScrollTo(p)
  /\ UNCHANGED <<sheetVars, button, pressed, timers, click, sorted, anim, loose, marked>>

\* The press is over; that it was a drag stays known until the timeout.
Release == pressed' = FALSE /\ timers' = timers \cup {"this"} /\ UNCHANGED dragging

\* (with a bug: a pointer that stood still when it let go does not fling)
FlingIfFast(card) == Unmoved \/ ScrollToCard(card)

Fling(card) == ScrollToCard(card)

\* handlePointerUp: after a drag the fan glides to a card.
LetGo ==
  /\ IF pressed /\ dragging /\ Left # 0 THEN \E card \in Index : Fling(card) ELSE Unmoved
  /\ Release

\* The pointer is up over the strip, or anywhere if the strip has caught it.  A click follows
\* if it went down on the card it is up on.
PointerUp ==
  /\ sheet # "away" /\ button \in {"strip", "elsewhere"}
  /\ button' = Nothing
  /\ LetGo
  /\ click' \in IF button = "strip" THEN Index \cup {Nothing} ELSE {Nothing}
  /\ UNCHANGED <<sheetVars, dragged, sorted, marked>>

\* The browser takes the pointer away, to scroll the page.
PointerCancel ==
  /\ sheet # "away" /\ button = "strip"
  /\ button' = Nothing
  /\ LetGo
  /\ UNCHANGED <<sheetVars, click, dragged, sorted, marked>>

\* The pointer is up where the fan does not hear of it: it takes the press for held.
PointerUpElsewhere ==
  /\ button \in {"strip", "elsewhere"}
  /\ button = "strip" => ~dragging
  /\ button' = Nothing
  /\ UNCHANGED <<sheetVars, pointerVars, fanVars, marked>>

PointerDownElsewhere ==
  /\ button = Nothing /\ click = Nothing
  /\ button' = "elsewhere"
  /\ UNCHANGED <<sheetVars, pointerVars, fanVars, marked>>

\* handleCardClick.
CardClick ==
  /\ click # Nothing
  /\ click' = Nothing
  /\ IF dragging THEN Unmoved /\ UNCHANGED marked
     ELSE IF click = active THEN Toggle(Ordered(click)) /\ Unmoved
     ELSE ScrollToCard(click) /\ UNCHANGED marked
  /\ UNCHANGED <<sheetVars, button, pressed, dragging, timers, dragged, sorted>>

\* A timeout of a release ends the drag of its own record.  After a drag it is later than
\* the click: a mouse's comes in the task of the release, and a finger's drag has none.
Timeout ==
  /\ \E timer \in timers :
       /\ timer = "this" /\ dragging => click = Nothing
       /\ timers' = timers \ {timer}
       /\ dragging' = (timer # "this" /\ dragging)
  /\ UNCHANGED <<sheetVars, button, pressed, click, dragged, fanVars, marked>>

(***************************************************************************)
(* The sheet.                                                              *)
(***************************************************************************)

\* The fan as it mounts: the bottom card is at the center.
Opened ==
  /\ pos' = Max /\ active' = CardAt(Max)
  /\ sorted' = FALSE /\ anim' = Nothing /\ loose' = "no"
  /\ pressed' = FALSE /\ dragging' = FALSE /\ dragged' = FALSE
  /\ timers' = {} /\ click' = Nothing /\ grip' = Nothing

\* The pile is clicked, or the button under it.
PickUp ==
  /\ sheet = "away"
  /\ sheet' = "up" /\ Opened
  /\ UNCHANGED <<button, marked>>

\* Unmounted, which stops the animation; a pointer it had caught is free.
Unmount == sheet' = "away" /\ Opened /\ button' = IF button = Nothing THEN Nothing ELSE "elsewhere"

\* The pile or its button; or the dialog closes.
Drop == sheet # "away" /\ Unmount /\ UNCHANGED marked

\* A deal puts the deck down too, and the next hand has no marks.
DealAnew == Unmount /\ marked' = {}

\* The handle catches the pointer.
HandleDown ==
  /\ sheet # "away" /\ button = Nothing /\ click = Nothing
  /\ button' = "handle" /\ grip' = "pressed"
  /\ UNCHANGED <<sheet, pointerVars, fanVars, marked>>

HandleMove ==
  /\ grip # Nothing /\ grip' = "moved"
  /\ UNCHANGED <<sheet, button, pointerVars, fanVars, marked>>

\* A tap puts the deck down, and so does a drag that is far enough.  A pointer that went
\* down on a card or elsewhere and is let go over the handle counts as a tap.
HandleUp ==
  /\ sheet # "away" /\ button # Nothing
  /\ button = "strip" => ~dragging
  /\ grip' = Nothing /\ button' = Nothing
  /\ sheet' \in IF grip = "moved" THEN {sheet, "closing"} ELSE {"closing"}
  /\ UNCHANGED <<pointerVars, fanVars, marked>>

HandleCancel ==
  /\ button = "handle"
  /\ grip' = Nothing /\ button' = Nothing
  /\ UNCHANGED <<sheet, pointerVars, fanVars, marked>>

\* A tap on the dimmed board, or a key on the handle.
PutDown ==
  /\ sheet # "away"
  /\ sheet' = "closing"
  /\ UNCHANGED <<grip, button, pointerVars, fanVars, marked>>

\* The slide is over; while the handle is dragged there is none.
TransitionEnd ==
  /\ sheet = "closing" /\ grip # "moved"
  /\ Unmount /\ UNCHANGED marked

FanInit ==
  /\ sheet = "away" /\ grip = Nothing /\ button = Nothing
  /\ sorted = FALSE /\ pos = Max /\ active = CardAt(Max) /\ anim = Nothing
  /\ pressed = FALSE /\ dragging = FALSE /\ timers = {} /\ click = Nothing
  /\ marked = {} /\ dragged = FALSE /\ loose = "no"

FanNext ==
  \/ RenderActive \/ Frame \/ Land \/ Wheel \/ Scrollbar \/ ArrowKey
  \/ MarkKey \/ ClearMarks \/ Sort
  \/ PointerDown \/ PointerMove \/ PointerUp \/ PointerCancel
  \/ PointerUpElsewhere \/ PointerDownElsewhere \/ CardClick \/ Timeout
  \/ PickUp \/ Drop \/ DealAnew
  \/ HandleDown \/ HandleMove \/ HandleUp \/ HandleCancel \/ PutDown \/ TransitionEnd

FanSpec == FanInit /\ [][FanNext]_allVars

(***************************************************************************)
(* Properties.                                                             *)
(***************************************************************************)

\* A click is taken for one exactly when the press was no drag: after a drag nothing is
\* marked and nothing moves, however quickly one press follows another; without one the
\* card is marked, or comes to the center or is there already (DeckFan.tsx:15, "becomes a
\* drag instead of a click", and :293).
DragsAreNoClicks ==
  [][click # Nothing /\ click' = Nothing /\ sheet' # "away" =>
       IF dragged THEN UNCHANGED <<marked, pos, anim>>
       ELSE \/ marked' # marked \/ pos = CardPos(click)
            \/ anim' # Nothing /\ anim'.card = click]_allVars

\* A fan that nothing moves and nobody holds has a card at its center, unless a press
\* stopped it or the scrollbar put it there (DeckFan.tsx:83, "lands with a card at the
\* center").
LandsOnACard ==
  sheet # "away" /\ Left # 0 /\ anim = Nothing /\ ~pressed /\ loose = "no" =>
    \E i \in Index : pos = CardPos(i)
================================================================================
