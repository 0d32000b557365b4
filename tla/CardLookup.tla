------------------------------- MODULE CardLookup ------------------------------
(***************************************************************************)
(* Card ids for the lines of imports: ResolveCardIDs of                    *)
(* internal/deck/service.go with its semaphore, Resolve of                 *)
(* internal/card/service.go, and the TCGdex client with its cache          *)
(* (pkg/tcgdex), which all imports share.                                  *)
(*                                                                         *)
(* A line has a goroutine.  It asks TCGdex up to four questions, each of   *)
(* them through the cache: a hit answers at once; a miss is an HTTP        *)
(* request, which TCGdex answers at one moment and the goroutine sees at a *)
(* later one, while other goroutines may be asking the same.               *)
(***************************************************************************)
EXTENDS Integers, Sequences, FiniteSets

CONSTANTS
  Line,      \* the lines to look up, those that are the same taken as one
  Import,    \* the imports under way
  ImportOf,  \* the import of a line
  Question,  \* cache keys
  SetOf,     \* the question for the set of a line's code
  CardsOf,   \* the questions for its candidate ids, likely ones first
  SearchOf,  \* the question for prints of a basic energy, None for other lines
  Limit,     \* maxConcurrentResolves
  TTL,       \* the cache's time to live
  Timeout,   \* the HTTP client's
  MaxClock,  \* bound on the clock
  None

ASSUME CardLookupAssumption ==
  /\ ImportOf \in [Line -> Import]
  /\ SetOf \in [Line -> Question]
  /\ CardsOf \in [Line -> Seq(Question) \ {<<>>}]
  /\ SearchOf \in [Line -> Question \cup {None}]
  /\ None \notin Question
  /\ Limit \in Nat \ {0} /\ TTL \in Nat /\ Timeout \in Nat /\ MaxClock \in Nat
  /\ IsFiniteSet(Line)

Time == 0 .. MaxClock

\* What TCGdex says: yes (the set, the card, the print), or that there is none.
Said == {"yes", "no"}

Cached == [said : Said, asOf : Time, expires : 0 .. MaxClock + TTL]

\* A request on its way, and the answer on its way back.
Fetch ==
       [since : Time, said : {None}]
  \cup [since : Time, said : Said, asOf : Time]

ASSUME NoneIsNoFetch == None \notin Fetch /\ None \notin Cached /\ None \notin Said

Stage == {"waiting", "set", "card", "search", "done"}

Worker == [at : Stage, candidate : Nat, fetch : Fetch \cup {None}, id : {"", "card", "print"}]

VARIABLES
  cache,   \* the cache of the client
  busy,    \* how many slots of an import's semaphore are taken
  worker,  \* the goroutines of the lines
  clock

vars == <<cache, busy, worker, clock>>

TypeOK ==
  /\ cache \in [Question -> Cached \cup {None}]
  /\ busy \in [Import -> 0 .. Limit]
  /\ worker \in [Line -> Worker]
  /\ \A l \in Line : worker[l].at = "card" => worker[l].candidate \in DOMAIN CardsOf[l]
  /\ \A l \in Line : worker[l].at = "search" => SearchOf[l] # None
  /\ clock \in Time

Init ==
  /\ cache = [q \in Question |-> None]
  /\ busy = [i \in Import |-> 0]
  /\ worker = [l \in Line |-> [at |-> "waiting", candidate |-> 0, fetch |-> None, id |-> ""]]
  /\ clock = 0

(***************************************************************************)
(* Resolve: which question a line asks next.                               *)
(***************************************************************************)
Asking(l) == worker[l].at \in {"set", "card", "search"}

QuestionOf(l) ==
  CASE worker[l].at = "set" -> SetOf[l]
    [] worker[l].at = "card" -> CardsOf[l][worker[l].candidate]
    [] OTHER -> SearchOf[l]

\* The goroutine ends, and the deferred receive frees its slot.
Ends(l, id) ==
  /\ worker' = [worker EXCEPT ![l].at = "done", ![l].fetch = None, ![l].id = id]
  /\ busy' = [busy EXCEPT ![ImportOf[l]] = @ - 1]

Asks(l, stage, candidate) ==
  /\ worker' = [worker EXCEPT ![l].at = stage, ![l].candidate = candidate, ![l].fetch = None]
  /\ UNCHANGED busy

AsksSearch(l) == IF SearchOf[l] = None THEN Ends(l, "") ELSE Asks(l, "search", 0)

AsksCard(l, n) == IF n \in DOMAIN CardsOf[l] THEN Asks(l, "card", n) ELSE AsksSearch(l)

\* What Resolve does with an answer.
Heard(l, said) ==
  \/ worker[l].at = "set" /\ said = "yes" /\ AsksCard(l, 1)
  \/ worker[l].at = "set" /\ said = "no" /\ AsksSearch(l)
  \/ worker[l].at = "card" /\ said = "yes" /\ Ends(l, "card")
  \/ worker[l].at = "card" /\ said = "no" /\ AsksCard(l, worker[l].candidate + 1)
  \/ worker[l].at = "search" /\ said = "yes" /\ Ends(l, "print")
  \/ worker[l].at = "search" /\ said = "no" /\ Ends(l, "")

\* (with a bug: a slot more than the limit)
AcquireOneMore(l) ==
  /\ worker[l].at = "waiting" /\ busy[ImportOf[l]] <= Limit
  /\ busy' = [busy EXCEPT ![ImportOf[l]] = @ + 1]
  /\ worker' = [worker EXCEPT ![l].at = "set"]
  /\ UNCHANGED <<cache, clock>>

\* sem <- struct{}{}, which blocks while all slots are taken; then Resolve begins with
\* the set, for every line an import parses has a set code and a number.
Acquire(l) ==
  /\ worker[l].at = "waiting" /\ busy[ImportOf[l]] < Limit
  /\ busy' = [busy EXCEPT ![ImportOf[l]] = @ + 1]
  /\ worker' = [worker EXCEPT ![l].at = "set"]
  /\ UNCHANGED <<cache, clock>>

(***************************************************************************)
(* The client and its cache.                                               *)
(***************************************************************************)
\* (with a bug: nobody looks at the clock)
FreshAlways(q) == cache[q] # None

\* cache.get: an entry counts up to and including the instant it expires.
Fresh(q) == cache[q] # None /\ clock <= cache[q].expires

Hit(l) ==
  /\ Asking(l) /\ worker[l].fetch = None /\ Fresh(QuestionOf(l))
  /\ Heard(l, cache[QuestionOf(l)].said)
  /\ UNCHANGED <<cache, clock>>

Miss(l) ==
  /\ Asking(l) /\ worker[l].fetch = None /\ ~Fresh(QuestionOf(l))
  /\ worker' = [worker EXCEPT ![l].fetch = [since |-> clock, said |-> None]]
  /\ UNCHANGED <<cache, busy, clock>>

\* TCGdex makes its answer: what it has at this moment.
TCGdexAnswers(l) ==
  /\ worker[l].fetch # None /\ worker[l].fetch.said = None
  /\ \E said \in Said :
       worker' = [worker EXCEPT ![l].fetch = [since |-> @.since, said |-> said, asOf |-> clock]]
  /\ UNCHANGED <<cache, busy, clock>>

\* The answer is here, and the client puts it into the cache; a 404 for a card is an
\* error and is not kept, "no" to the other questions is.
Kept(l, said) == ~(worker[l].at = "card" /\ said = "no")

Deliver(l) ==
  LET fetch == worker[l].fetch
  IN /\ fetch # None /\ fetch.said # None
     /\ cache' = IF Kept(l, fetch.said)
                 THEN [cache EXCEPT ![QuestionOf(l)] =
                         [said |-> fetch.said, asOf |-> fetch.asOf, expires |-> clock + TTL]]
                 ELSE cache
     /\ Heard(l, fetch.said)
     /\ UNCHANGED clock

\* (with a bug: only the return at the end frees the slot)
FailAndKeep(l) ==
  /\ worker[l].fetch # None
  /\ worker' = [worker EXCEPT ![l].at = "done", ![l].fetch = None, ![l].id = ""]
  /\ UNCHANGED <<cache, busy, clock>>

\* TCGdex cannot be reached, answers something else, or too late: Resolve returns an
\* error, which is logged, and the line keeps its empty id.
Fail(l) ==
  /\ worker[l].fetch # None
  /\ Ends(l, "")
  /\ UNCHANGED <<cache, clock>>

\* One round of evictLoop.
Evict ==
  /\ \E q \in Question : cache[q] # None /\ ~Fresh(q)
  /\ cache' = [q \in Question |-> IF Fresh(q) THEN cache[q] ELSE None]
  /\ UNCHANGED <<busy, worker, clock>>

\* Time passes; a request that has reached the client's timeout fails before more does.
Tick ==
  /\ clock < MaxClock
  /\ \A l \in Line : worker[l].fetch # None => clock < worker[l].fetch.since + Timeout
  /\ clock' = clock + 1
  /\ UNCHANGED <<cache, busy, worker>>

Goroutine(l) == Acquire(l) \/ Hit(l) \/ Miss(l) \/ Deliver(l) \/ Fail(l)

Next == (\E l \in Line : Goroutine(l) \/ TCGdexAnswers(l)) \/ Evict \/ Tick

Spec == Init /\ [][Next]_vars

\* A goroutine that can go on does: the scheduler is fair, and a request comes to an
\* answer, an error or its timeout.
FairSpec == Spec /\ \A l \in Line : WF_vars(Goroutine(l))

(***************************************************************************)
(* Properties.                                                             *)
(***************************************************************************)

\* No import asks TCGdex about more than Limit lines at once, whichever of them fail
\* (service.go:49-50, "caps parallel TCGdex lookups per import").
LimitHolds ==
  \A i \in Import : Cardinality({l \in Line : ImportOf[l] = i /\ Asking(l)}) <= Limit

\* An answer from the cache is at most TTL and one request's timeout older than TCGdex
\* itself, even when an older answer arrives last and replaces a newer one
\* (cache.go get, set; client.go:42, "in-memory cache TTL").
HitsAreFresh ==
  [][\A l \in Line :
       /\ Asking(l) /\ worker[l].fetch = None
       /\ worker'[l] # worker[l] /\ worker'[l].fetch = None
       => clock - cache[QuestionOf(l)].asOf <= TTL + Timeout]_vars

\* wg.Wait returns: every line is looked up or has failed in the end, so an import never
\* hangs or fails over TCGdex (service.go:52-54).
EveryLineEnds == \A l \in Line : <>(worker[l].at = "done")
================================================================================
