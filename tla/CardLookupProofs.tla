---------------------------- MODULE CardLookupProofs ---------------------------
(***************************************************************************)
(* Proofs about CardLookup, for any lines, imports and questions, any      *)
(* limit, time to live and timeout.                                        *)
(*                                                                         *)
(* The limit holds because the taken slots of an import are exactly its    *)
(* goroutines that ask (SlotsCounted), whichever way these end.  A hit is  *)
(* fresh because a request is no older than the timeout when its answer is *)
(* cached (InTime), so an entry expires at most TTL and a timeout after    *)
(* the moment it speaks of (CacheInTime), in whatever order entries are    *)
(* stored.                                                                 *)
(***************************************************************************)
EXTENDS CardLookup, FiniteSetTheorems, TLAPS

AskingStage == {"set", "card", "search"}

Asked(i) == {l \in Line : ImportOf[l] = i /\ Asking(l)}

SlotsCounted == \A i \in Import : busy[i] = Cardinality(Asked(i))

InTime(l) ==
  worker[l].fetch # None =>
    /\ Asking(l)
    /\ worker[l].fetch.since <= clock /\ clock <= worker[l].fetch.since + Timeout
    /\ worker[l].fetch.said # None => worker[l].fetch.since <= worker[l].fetch.asOf

CacheInTime ==
  \A q \in Question : cache[q] # None => cache[q].expires <= cache[q].asOf + TTL + Timeout

IInv ==
  /\ TypeOK
  /\ SlotsCounted
  /\ \A l \in Line : InTime(l)
  /\ CacheInTime

--------------------------------------------------------------------------------
(***************************************************************************)
(* What a step does to goroutines and slots.                               *)
(***************************************************************************)

\* A goroutine that goes on asking, and one that ends.
GoesOn(l) ==
  \E stage \in AskingStage, n \in Nat :
    /\ Asks(l, stage, n)
    /\ stage = "card" => n \in DOMAIN CardsOf[l]
    /\ stage = "search" => SearchOf[l] # None

Stops(l) == \E id \in {"", "card", "print"} : Ends(l, id)

LEMMA Numbers ==
  Limit \in Nat /\ TTL \in Nat /\ Timeout \in Nat /\ MaxClock \in Nat
  BY CardLookupAssumption

LEMMA CardsType ==
  ASSUME NEW l \in Line
  PROVE  /\ DOMAIN CardsOf[l] \subseteq Nat
         /\ \A n \in DOMAIN CardsOf[l] : CardsOf[l][n] \in Question
  <1>1. CardsOf[l] \in Seq(Question)
    BY CardLookupAssumption
  <1> QED
    BY <1>1

\* Resolve asks its next question or returns (Heard).
LEMMA HeardGoesOnOrStops ==
  ASSUME TypeOK, NEW l \in Line, Asking(l), NEW said \in Said, Heard(l, said)
  PROVE  GoesOn(l) \/ Stops(l)
  <1>1. ASSUME AsksSearch(l) PROVE GoesOn(l) \/ Stops(l)
    <2>1. CASE SearchOf[l] = None
      BY <1>1, <2>1 DEF AsksSearch, Stops
    <2>2. CASE SearchOf[l] # None
      <3>1. Asks(l, "search", 0) /\ "search" \in AskingStage /\ 0 \in Nat
        BY <1>1, <2>2 DEF AsksSearch, AskingStage
      <3> QED
        BY <2>2, <3>1 DEF GoesOn
    <2> QED
      BY <2>1, <2>2
  <1>2. ASSUME NEW n \in Nat, AsksCard(l, n) PROVE GoesOn(l) \/ Stops(l)
    <2>1. CASE n \in DOMAIN CardsOf[l]
      <3>1. Asks(l, "card", n) /\ "card" \in AskingStage
        BY <1>2, <2>1 DEF AsksCard, AskingStage
      <3> QED
        BY <2>1, <3>1 DEF GoesOn
    <2>2. CASE n \notin DOMAIN CardsOf[l]
      BY <1>1, <1>2, <2>2 DEF AsksCard
    <2> QED
      BY <2>1, <2>2
  <1>3. worker[l].candidate + 1 \in Nat /\ 1 \in Nat
    <2>1. worker[l] \in Worker
      BY DEF TypeOK
    <2>2. worker[l].candidate \in Nat
      BY <2>1, Zenon DEF Worker
    <2> QED
      BY <2>2
  <1>4. \/ AsksCard(l, 1) \/ AsksSearch(l) \/ AsksCard(l, worker[l].candidate + 1)
        \/ Ends(l, "card") \/ Ends(l, "print") \/ Ends(l, "")
    <2>1. said = "yes" \/ said = "no"
      BY DEF Said
    <2>2. CASE worker[l].at = "set"
      BY <2>1, <2>2 DEF Heard
    <2>3. CASE worker[l].at = "card"
      BY <2>1, <2>3 DEF Heard
    <2>4. CASE worker[l].at = "search"
      BY <2>1, <2>4 DEF Heard
    <2> QED
      BY <2>2, <2>3, <2>4 DEF Asking
  <1> QED
    BY <1>1, <1>2, <1>3, <1>4 DEF Stops

LEMMA QuestionType ==
  ASSUME TypeOK, NEW l \in Line, Asking(l)
  PROVE  QuestionOf(l) \in Question
  BY CardsType, CardLookupAssumption DEF TypeOK, Asking, QuestionOf

\* The sets of askers of all imports, after a step of one line.
LEMMA AskedFinite ==
  ASSUME NEW i \in Import
  PROVE  IsFiniteSet(Asked(i)) /\ Cardinality(Asked(i)) \in Nat
  <1>1. Asked(i) \subseteq Line
    BY DEF Asked
  <1> QED
    BY <1>1, CardLookupAssumption, FS_Subset, FS_CardinalityType

\* Slots stay counted when a line begins to ask and takes one, ...
LEMMA SlotTaken ==
  ASSUME IInv, NEW l \in Line, ~Asking(l), Asking(l)',
         \A k \in Line \ {l} : worker'[k] = worker[k],
         busy' = [busy EXCEPT ![ImportOf[l]] = @ + 1]
  PROVE  SlotsCounted'
  <1> SUFFICES ASSUME NEW i \in Import
               PROVE  busy'[i] = Cardinality(Asked(i)')
    BY DEF SlotsCounted
  <1>1. busy[i] = Cardinality(Asked(i)) /\ busy \in [Import -> 0 .. Limit]
    BY DEF IInv, SlotsCounted, TypeOK
  <1>2. CASE i = ImportOf[l]
    <2>1. Asked(i)' = Asked(i) \cup {l} /\ l \notin Asked(i)
      BY <1>2 DEF Asked, Asking
    <2>2. Cardinality(Asked(i) \cup {l}) = Cardinality(Asked(i)) + 1
      BY <2>1, AskedFinite, FS_AddElement
    <2> QED
      BY <1>1, <1>2, <2>1, <2>2
  <1>3. CASE i # ImportOf[l]
    <2>1. Asked(i)' = Asked(i)
      BY <1>3 DEF Asked, Asking
    <2> QED
      BY <1>1, <1>3, <2>1
  <1> QED
    BY <1>2, <1>3

\* ... when it stops asking and frees it, which it then has, ...
LEMMA SlotFreed ==
  ASSUME IInv, NEW l \in Line, Asking(l), ~Asking(l)',
         \A k \in Line \ {l} : worker'[k] = worker[k],
         busy' = [busy EXCEPT ![ImportOf[l]] = @ - 1]
  PROVE  SlotsCounted' /\ busy' \in [Import -> 0 .. Limit]
  <1>1. busy \in [Import -> 0 .. Limit] /\ \A i \in Import : busy[i] = Cardinality(Asked(i))
    BY DEF IInv, SlotsCounted, TypeOK
  <1>2. ImportOf[l] \in Import
    BY CardLookupAssumption
  <1>3. ASSUME NEW i \in Import, i = ImportOf[l]
        PROVE  busy'[i] = Cardinality(Asked(i)') /\ busy'[i] \in 0 .. Limit
    <2>1. Asked(i)' = Asked(i) \ {l} /\ l \in Asked(i)
      BY <1>3 DEF Asked, Asking
    <2>2. Cardinality(Asked(i)') = Cardinality(Asked(i)) - 1
      BY <2>1, AskedFinite, FS_RemoveElement
    <2>3. Cardinality(Asked(i)') \in Nat
      BY <2>1, AskedFinite, FS_RemoveElement, FS_CardinalityType
    <2> QED
      BY <1>1, <1>2, <1>3, <2>2, <2>3, CardLookupAssumption
  <1>4. ASSUME NEW i \in Import, i # ImportOf[l]
        PROVE  busy'[i] = Cardinality(Asked(i)') /\ busy'[i] \in 0 .. Limit
    <2>1. Asked(i)' = Asked(i)
      BY <1>4 DEF Asked, Asking
    <2> QED
      BY <1>1, <1>4, <2>1
  <1> QED
    BY <1>1, <1>3, <1>4 DEF SlotsCounted

\* ... and when nobody begins or stops.
LEMMA SlotsAlone ==
  ASSUME IInv, \A k \in Line : Asking(k)' = Asking(k), UNCHANGED busy
  PROVE  SlotsCounted'
  <1>1. \A i \in Import : Asked(i)' = Asked(i)
    BY DEF Asked
  <1> QED
    BY <1>1 DEF IInv, SlotsCounted

\* What follows an answer, from the cache or from TCGdex, and a failure.
LEMMA GoingOn ==
  ASSUME IInv, NEW l \in Line, Asking(l), GoesOn(l) \/ Stops(l)
  PROVE  /\ worker' \in [Line -> Worker] /\ busy' \in [Import -> 0 .. Limit]
         /\ \A k \in Line : worker'[k].at = "card" => worker'[k].candidate \in DOMAIN CardsOf[k]
         /\ \A k \in Line : worker'[k].at = "search" => SearchOf[k] # None
         /\ \A k \in Line \ {l} : worker'[k] = worker[k]
         /\ worker'[l].fetch = None
         /\ SlotsCounted'
  <1>1. /\ worker \in [Line -> Worker] /\ busy \in [Import -> 0 .. Limit]
        /\ \A k \in Line : worker[k].at = "card" => worker[k].candidate \in DOMAIN CardsOf[k]
        /\ \A k \in Line : worker[k].at = "search" => SearchOf[k] # None
    BY DEF IInv, TypeOK
  <1>2. CASE GoesOn(l)
    <2> PICK stage \in AskingStage, n \in Nat :
          /\ Asks(l, stage, n)
          /\ stage = "card" => n \in DOMAIN CardsOf[l]
          /\ stage = "search" => SearchOf[l] # None
      BY <1>2 DEF GoesOn
    <2>1. /\ worker' \in [Line -> Worker] /\ worker'[l].fetch = None
          /\ worker'[l].at = stage /\ worker'[l].candidate = n
          /\ \A k \in Line \ {l} : worker'[k] = worker[k]
      BY <1>1 DEF Asks, Worker, Stage, AskingStage
    <2>2. \A k \in Line : Asking(k)' = Asking(k)
      BY <2>1 DEF Asking, AskingStage
    <2>3. SlotsCounted'
      BY <2>2, SlotsAlone DEF Asks
    <2> QED
      BY <1>1, <2>1, <2>3 DEF Asks
  <1>3. CASE Stops(l)
    <2> PICK id \in {"", "card", "print"} : Ends(l, id)
      BY <1>3 DEF Stops
    <2>1. /\ worker' \in [Line -> Worker] /\ worker'[l].fetch = None /\ worker'[l].at = "done"
          /\ \A k \in Line \ {l} : worker'[k] = worker[k]
      <3> DEFINE w == [worker[l] EXCEPT !.at = "done", !.fetch = None, !.id = id]
      <3>1. w \in Worker /\ w.fetch = None /\ w.at = "done"
        BY <1>1 DEF Worker, Stage
      <3>2. worker' = [worker EXCEPT ![l] = w]
        BY <1>1 DEF Ends
      <3> QED
        BY <1>1, <3>1, <3>2
    <2>2. SlotsCounted' /\ busy' \in [Import -> 0 .. Limit]
      BY <2>1, SlotFreed DEF Ends, Asking
    <2> QED
      BY <1>1, <2>1, <2>2
  <1> QED
    BY <1>2, <1>3

--------------------------------------------------------------------------------
(***************************************************************************)
(* The invariant, one action at a time.                                    *)
(***************************************************************************)

LEMMA InitInvariant == Init => IInv
  <1> SUFFICES ASSUME Init PROVE IInv
    OBVIOUS
  <1>1. TypeOK
    <2>1. worker \in [Line -> Worker]
      BY DEF Init, Worker, Stage
    <2>2. \A l \in Line : worker[l].at = "waiting"
      BY DEF Init
    <2>3. cache \in [Question -> Cached \cup {None}] /\ clock \in Time
      <3>1. clock = 0 /\ cache = [q \in Question |-> None]
        BY DEF Init
      <3> QED
        BY <3>1, Numbers DEF Time
    <2>4. busy \in [Import -> 0 .. Limit]
      <3>1. busy = [i \in Import |-> 0]
        BY DEF Init
      <3> QED
        BY <3>1, Numbers
    <2> QED
      BY <2>1, <2>2, <2>3, <2>4 DEF TypeOK
  <1>2. \A l \in Line : ~Asking(l) /\ InTime(l)
    BY DEF Init, Asking, InTime
  <1>3. SlotsCounted
    <2>1. \A i \in Import : Asked(i) = {}
      BY <1>2 DEF Asked
    <2> QED
      BY <2>1, FS_EmptySet DEF SlotsCounted, Init
  <1>4. CacheInTime
    BY DEF CacheInTime, Init
  <1> QED
    BY <1>1, <1>2, <1>3, <1>4 DEF IInv

LEMMA AcquireStep ==
  ASSUME IInv, NEW l \in Line, Acquire(l)
  PROVE  IInv'
  <1>1. ImportOf[l] \in Import /\ Limit \in Nat
    BY CardLookupAssumption
  <1>2. /\ worker' \in [Line -> Worker] /\ worker'[l].at = "set"
        /\ worker'[l].fetch = worker[l].fetch
        /\ \A k \in Line \ {l} : worker'[k] = worker[k]
    BY DEF IInv, TypeOK, Acquire, Worker, Stage
  <1>3. worker[l].fetch = None
    BY DEF IInv, InTime, Acquire, Asking
  <1>4. TypeOK'
    BY <1>1, <1>2 DEF IInv, TypeOK, Acquire
  <1>5. SlotsCounted'
    BY <1>2, SlotTaken DEF Acquire, Asking
  <1>6. \A k \in Line : InTime(k)'
    BY <1>2, <1>3 DEF IInv, InTime, Acquire, Asking
  <1>7. CacheInTime'
    BY DEF IInv, CacheInTime, Acquire
  <1> QED
    BY <1>4, <1>5, <1>6, <1>7 DEF IInv

\* What an answer does, apart from the cache.
LEMMA HeardStep ==
  ASSUME IInv, NEW l \in Line, Asking(l), NEW said \in Said, Heard(l, said), UNCHANGED clock,
         cache' \in [Question -> Cached \cup {None}]
  PROVE  TypeOK' /\ SlotsCounted' /\ \A k \in Line : InTime(k)'
  <1>1. GoesOn(l) \/ Stops(l)
    BY HeardGoesOnOrStops DEF IInv
  <1>2. /\ worker' \in [Line -> Worker] /\ busy' \in [Import -> 0 .. Limit]
        /\ \A k \in Line : worker'[k].at = "card" => worker'[k].candidate \in DOMAIN CardsOf[k]
        /\ \A k \in Line : worker'[k].at = "search" => SearchOf[k] # None
        /\ \A k \in Line \ {l} : worker'[k] = worker[k]
        /\ worker'[l].fetch = None
        /\ SlotsCounted'
    BY <1>1, GoingOn
  <1>3. TypeOK'
    BY <1>2 DEF IInv, TypeOK
  <1>4. \A k \in Line : InTime(k)'
    BY <1>2 DEF IInv, InTime, Asking
  <1> QED
    BY <1>2, <1>3, <1>4

LEMMA HitStep ==
  ASSUME IInv, NEW l \in Line, Hit(l)
  PROVE  IInv'
  <1>1. cache[QuestionOf(l)].said \in Said
    <2>1. QuestionOf(l) \in Question
      BY QuestionType DEF Hit, IInv
    <2> QED
      BY <2>1 DEF IInv, TypeOK, Hit, Fresh, Cached
  <1>2. cache' \in [Question -> Cached \cup {None}] /\ CacheInTime'
    BY DEF IInv, TypeOK, CacheInTime, Hit
  <1> QED
    BY <1>1, <1>2, HeardStep DEF IInv, Hit

LEMMA MissStep ==
  ASSUME IInv, NEW l \in Line, Miss(l)
  PROVE  IInv'
  <1> DEFINE fetch == [since |-> clock, said |-> None]
  <1>1. fetch \in Fetch /\ clock \in Int /\ Timeout \in Nat
    BY CardLookupAssumption DEF IInv, TypeOK, Fetch, Time
  <1>2. /\ worker' \in [Line -> Worker] /\ worker'[l].fetch = fetch
        /\ worker'[l].at = worker[l].at /\ worker'[l].candidate = worker[l].candidate
        /\ \A k \in Line \ {l} : worker'[k] = worker[k]
    BY <1>1 DEF IInv, TypeOK, Miss, Worker
  <1>3. TypeOK'
    BY <1>2 DEF IInv, TypeOK, Miss
  <1>4. \A k \in Line : Asking(k)' = Asking(k)
    BY <1>2 DEF Asking
  <1>5. SlotsCounted'
    BY <1>4, SlotsAlone DEF Miss
  <1>6. \A k \in Line : InTime(k)'
    <2>1. InTime(l)'
      BY <1>1, <1>2, <1>4 DEF InTime, Miss
    <2> QED
      BY <1>2, <1>4, <2>1 DEF IInv, InTime, Miss
  <1>7. CacheInTime'
    BY DEF IInv, CacheInTime, Miss
  <1> QED
    BY <1>3, <1>5, <1>6, <1>7 DEF IInv

LEMMA AnswerStep ==
  ASSUME IInv, NEW l \in Line, TCGdexAnswers(l)
  PROVE  IInv'
  <1> PICK said \in Said :
        worker' = [worker EXCEPT ![l].fetch = [since |-> @.since, said |-> said, asOf |-> clock]]
    BY DEF TCGdexAnswers
  <1> DEFINE fetch == [since |-> worker[l].fetch.since, said |-> said, asOf |-> clock]
  <1>1. worker[l].fetch \in Fetch /\ worker[l].fetch # None
    BY DEF IInv, TypeOK, Worker, TCGdexAnswers
  <1>2. worker[l].fetch.since \in Time /\ fetch \in Fetch
    BY <1>1 DEF Fetch, IInv, TypeOK
  <1>3. /\ worker' \in [Line -> Worker] /\ worker'[l].fetch = fetch
        /\ worker'[l].at = worker[l].at /\ worker'[l].candidate = worker[l].candidate
        /\ \A k \in Line \ {l} : worker'[k] = worker[k]
    BY <1>2 DEF IInv, TypeOK, Worker
  <1>4. TypeOK'
    BY <1>3 DEF IInv, TypeOK, TCGdexAnswers
  <1>5. \A k \in Line : Asking(k)' = Asking(k)
    BY <1>3 DEF Asking
  <1>6. SlotsCounted'
    BY <1>5, SlotsAlone DEF TCGdexAnswers
  <1>7. \A k \in Line : InTime(k)'
    <2>1. InTime(l)'
      BY <1>1, <1>3, <1>5 DEF IInv, InTime, TCGdexAnswers
    <2> QED
      BY <1>3, <1>5, <2>1 DEF IInv, InTime, TCGdexAnswers
  <1>8. CacheInTime'
    BY DEF IInv, CacheInTime, TCGdexAnswers
  <1> QED
    BY <1>4, <1>6, <1>7, <1>8 DEF IInv

\* The entry stored now expires TTL from now, and its answer is as old as its request at most.
LEMMA DeliverStep ==
  ASSUME IInv, NEW l \in Line, Deliver(l)
  PROVE  IInv'
  <1> DEFINE fetch == worker[l].fetch
             entry == [said |-> fetch.said, asOf |-> fetch.asOf, expires |-> clock + TTL]
  <1>1. fetch \in Fetch /\ fetch # None /\ fetch.said # None /\ Asking(l)
    BY DEF IInv, TypeOK, Worker, Deliver, InTime
  <1>2. fetch.since \in Time /\ fetch.said \in Said /\ fetch.asOf \in Time
    BY <1>1 DEF Fetch
  <1>3. clock <= fetch.asOf + Timeout
    <2>1. clock <= fetch.since + Timeout /\ fetch.since <= fetch.asOf
      BY <1>1 DEF IInv, InTime
    <2> QED
      BY <1>2, <2>1, CardLookupAssumption DEF IInv, TypeOK, Time
  <1>4. QuestionOf(l) \in Question
    BY <1>1, QuestionType DEF IInv
  <1>5. entry \in Cached
    BY <1>2, CardLookupAssumption DEF Cached, IInv, TypeOK, Time
  <1>6. cache' \in [Question -> Cached \cup {None}]
    BY <1>4, <1>5 DEF Deliver, IInv, TypeOK
  <1>7. CacheInTime'
    <2>1. entry.expires <= entry.asOf + TTL + Timeout
      BY <1>2, <1>3, CardLookupAssumption DEF IInv, TypeOK, Time
    <2>2. ASSUME NEW q \in Question PROVE cache'[q] = cache[q] \/ cache'[q] = entry
      BY <1>4 DEF Deliver, IInv, TypeOK
    <2> QED
      BY <2>1, <2>2 DEF CacheInTime, IInv
  <1> QED
    BY <1>1, <1>2, <1>6, <1>7, HeardStep DEF IInv, Deliver

LEMMA FailStep ==
  ASSUME IInv, NEW l \in Line, Fail(l)
  PROVE  IInv'
  <1>1. Asking(l) /\ Stops(l)
    BY DEF IInv, InTime, Fail, Stops
  <1>2. /\ worker' \in [Line -> Worker] /\ busy' \in [Import -> 0 .. Limit]
        /\ \A k \in Line : worker'[k].at = "card" => worker'[k].candidate \in DOMAIN CardsOf[k]
        /\ \A k \in Line : worker'[k].at = "search" => SearchOf[k] # None
        /\ \A k \in Line \ {l} : worker'[k] = worker[k]
        /\ worker'[l].fetch = None
        /\ SlotsCounted'
    BY <1>1, GoingOn
  <1>3. TypeOK'
    BY <1>2 DEF IInv, TypeOK, Fail
  <1>4. \A k \in Line : InTime(k)'
    BY <1>2 DEF IInv, InTime, Asking, Fail
  <1>5. CacheInTime'
    BY DEF IInv, CacheInTime, Fail
  <1> QED
    BY <1>2, <1>3, <1>4, <1>5 DEF IInv

LEMMA EvictStep == IInv /\ Evict => IInv'
  <1> SUFFICES ASSUME IInv, Evict PROVE IInv'
    OBVIOUS
  <1>1. TypeOK'
    BY DEF IInv, TypeOK, Evict
  <1>2. SlotsCounted' /\ \A l \in Line : InTime(l)'
    BY SlotsAlone DEF IInv, Evict, InTime, Asking
  <1>3. CacheInTime'
    BY DEF IInv, TypeOK, CacheInTime, Evict
  <1> QED
    BY <1>1, <1>2, <1>3 DEF IInv

LEMMA TickStep == IInv /\ Tick => IInv'
  <1> SUFFICES ASSUME IInv, Tick PROVE IInv'
    OBVIOUS
  <1>1. TypeOK'
    BY CardLookupAssumption DEF IInv, TypeOK, Tick, Time
  <1>2. SlotsCounted'
    BY SlotsAlone DEF Tick, Asking
  <1>3. ASSUME NEW l \in Line PROVE InTime(l)'
    <2>1. CASE worker[l].fetch = None
      BY <2>1 DEF InTime, Tick
    <2>2. CASE worker[l].fetch # None
      <3>1. worker[l].fetch \in Fetch
        BY <2>2 DEF IInv, TypeOK, Worker
      <3>2. worker[l].fetch.since \in Int /\ clock \in Int /\ Timeout \in Int
        BY <3>1, CardLookupAssumption DEF Fetch, Time, IInv, TypeOK
      <3>3. clock < worker[l].fetch.since + Timeout /\ worker[l].fetch.since <= clock
        BY <2>2 DEF Tick, IInv, InTime
      <3> QED
        BY <2>2, <3>2, <3>3 DEF InTime, IInv, Tick, Asking
    <2> QED
      BY <2>1, <2>2
  <1>4. CacheInTime'
    BY DEF IInv, CacheInTime, Tick
  <1> QED
    BY <1>1, <1>2, <1>3, <1>4 DEF IInv

LEMMA StepInvariant == IInv /\ [Next]_vars => IInv'
  <1> SUFFICES ASSUME IInv, [Next]_vars PROVE IInv'
    OBVIOUS
  <1>1. ASSUME NEW l \in Line, Goroutine(l) \/ TCGdexAnswers(l) PROVE IInv'
    BY <1>1, AcquireStep, HitStep, MissStep, AnswerStep, DeliverStep, FailStep DEF Goroutine
  <1>2. CASE UNCHANGED vars
    BY <1>2, SlotsAlone DEF vars, IInv, TypeOK, CacheInTime, InTime, Asking
  <1> QED
    BY <1>1, <1>2, EvictStep, TickStep DEF Next

LEMMA Invariance == Spec => []IInv
  BY InitInvariant, StepInvariant, PTL DEF Spec

--------------------------------------------------------------------------------
(***************************************************************************)
(* The theorems.                                                           *)
(***************************************************************************)

\* The cache, the slots and the goroutines have their types, and a goroutine that asks has
\* a question (TypeOK).
THEOREM TypeCorrect == Spec => []TypeOK
<1>1. IInv => TypeOK
  BY DEF IInv
<1> QED
  BY <1>1, Invariance, PTL

\* No import has more than Limit lines at TCGdex (LimitHolds), whichever fail, for a taken
\* slot is one line's and given back when it ends (service.go ResolveCardIDs).
THEOREM LimitKept == Spec => []LimitHolds
<1>1. IInv => LimitHolds
  <2> SUFFICES ASSUME IInv, NEW i \in Import PROVE Cardinality(Asked(i)) <= Limit
    BY DEF LimitHolds, Asked
  <2>1. busy[i] = Cardinality(Asked(i)) /\ busy[i] \in 0 .. Limit
    BY DEF IInv, SlotsCounted, TypeOK
  <2> QED
    BY <2>1
<1> QED
  BY <1>1, Invariance, PTL

\* A hit is at most the time to live and a timeout older than TCGdex (HitsAreFresh),
\* whatever older answers were stored over newer ones (cache.go get, set).
THEOREM HitsStayFresh == Spec => HitsAreFresh
<1>1. IInv /\ [Next]_vars =>
        [\A l \in Line :
           /\ Asking(l) /\ worker[l].fetch = None
           /\ worker'[l] # worker[l] /\ worker'[l].fetch = None
           => clock - cache[QuestionOf(l)].asOf <= TTL + Timeout]_vars
  <2> SUFFICES ASSUME IInv, Next, NEW l \in Line,
                      Asking(l), worker[l].fetch = None,
                      worker'[l] # worker[l], worker'[l].fetch = None
               PROVE  clock - cache[QuestionOf(l)].asOf <= TTL + Timeout
    OBVIOUS
  <2>0. worker \in [Line -> Worker]
    BY DEF IInv, TypeOK
  <2>1. Hit(l)
    <3>1. PICK k \in Line : Goroutine(k) \/ TCGdexAnswers(k)
      BY DEF Next, Evict, Tick
    <3>2. k = l
      <4> SUFFICES ASSUME k # l PROVE worker'[l] = worker[l]
        OBVIOUS
      <4>1. ASSUME NEW said, Heard(k, said) PROVE worker'[l] = worker[l]
        BY <2>0, <4>1 DEF Heard, AsksCard, AsksSearch, Asks, Ends
      <4> QED
        BY <2>0, <3>1, <4>1
           DEF Goroutine, Acquire, Hit, Miss, Deliver, Fail, Ends, TCGdexAnswers
    <3>3. ~Acquire(l) /\ ~Deliver(l) /\ ~Fail(l) /\ ~TCGdexAnswers(l)
      BY DEF Acquire, Asking, Deliver, Fail, TCGdexAnswers
    <3>4. ~Miss(l)
      <4> SUFFICES ASSUME Miss(l) PROVE FALSE
        OBVIOUS
      <4>1. worker'[l].fetch = [since |-> clock, said |-> None]
        BY <2>0 DEF Miss, Worker
      <4>2. [since |-> clock, said |-> None] \in Fetch
        BY DEF Fetch, IInv, TypeOK
      <4> QED
        BY <4>1, <4>2, NoneIsNoFetch
    <3> QED
      BY <3>1, <3>2, <3>3, <3>4 DEF Goroutine
  <2>2. QuestionOf(l) \in Question
    BY QuestionType DEF IInv
  <2>3. cache[QuestionOf(l)] # None /\ clock <= cache[QuestionOf(l)].expires
    BY <2>1 DEF Hit, Fresh
  <2>4. cache[QuestionOf(l)] \in Cached
    BY <2>2, <2>3 DEF IInv, TypeOK
  <2>5. cache[QuestionOf(l)].expires <= cache[QuestionOf(l)].asOf + TTL + Timeout
    BY <2>2, <2>3 DEF IInv, CacheInTime
  <2> QED
    BY <2>3, <2>4, <2>5, CardLookupAssumption DEF Cached, Time, IInv, TypeOK
<1> QED
  BY <1>1, Invariance, PTL DEF Spec, HitsAreFresh
================================================================================
