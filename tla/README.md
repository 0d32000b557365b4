# Poketools in TLA+

A verification project for [Poketools](../src/README.md), a web application to
keep Pokémon TCG decks and practise opening hands with them: a Go server over
SQLite and TCGdex, and a React page. Modules model the parts of the program whose
correctness depends on the order in which things happen; TLC checks them on small
instances, and TLAPS proves the properties that matter most for instances of any
size.

To check it: `tlc -workers 2 -config <Run>.cfg <MCModule>.tla` for the runs below,
and `tlapm <Module>Proofs.tla` for the proofs.

## The system

| Component | Code | State | Operations | What is hard | What makes it correct |
|---|---|---|---|---|---|
| Deck service, API and store | `internal/deck`, `internal/api/deck_handler.go`, `internal/repository/sqlite/deck_repository.go`, migration 0003 | tables `decks`, `deck_entries`, `deck_covers` | list, get, create, update, delete; add, change and delete entries; set covers; import | every request is a chain of separate statements: the checks (owner, membership) come some calls before the write, which names no user; an import is two commits | only owners change or see a deck; covers are entries of their own deck; no orphans; imports save each line as often as it was read; nothing deleted comes back |
| Accounts and sessions | `internal/auth`, `internal/api/auth_*.go`, `user_repository.go`, `cmd/server/main.go` | tables `users`, `sessions`; the clock | signup, login, logout, me, `RequireAuth`; the hourly cleaner | the clock is read before the statement that uses it; two signups for one email; a logout or the cleaner while a request is being let in | one account per email; tokens open the right account; nobody gets in by an expired session; no session ends early, is prolonged or comes back; expired sessions go |
| Life cycle | `cmd/server/main.go`, `internal/server` | the process | start, background job, shutdown | the end of the process between two statements | what was committed stays, nothing else |
| Migrations | `internal/repository/db.go` | `schema_migrations` and the schema | `Migrate` on every start | crashes, two starters, edited files | each applied once, in order, with its record |
| Card lookup | `internal/card`, `pkg/tcgdex` | a TTL cache | search, get, resolve | failures, concurrent misses, expiry | answers are TCGdex's and not too old |
| Resolution pool | `deck/service.go` `ResolveCardIDs` | a semaphore of 8 | fill card ids before an import | a failing lookup, one line twice | each line gets its own answer; the pool empties |
| Decklist formats | `internal/format` | – | parse PTCG Live and Limitless text | lines above every header | – |
| Page: session | `web/src/hooks/useAuth.ts`, `api/client.ts`, `App.tsx` | the user shown, the cookie | load, login, logout, 401 | late answers to the old session, lost ones, reloads; the browser takes a cookie before the page hears the answer | what is asked for is asked for the user shown |
| Page: list of decks | `HomePage.tsx`, `useDecks.ts` | copy of the list | load, create, import, delete | lists of earlier visits and users arrive late | the list is the user's, but for what is under way or was lost |
| Page: deck state | `useDeck.ts`, `DeckEditorPage.tsx` | copy of the deck | counts, additions, removals | clicks before answers, answers out of order or lost | page and server differ only in what is under way or was lost |
| Page: gallery | `DeckGalleryView.tsx` | the order of the cards | drag and drop | answers between two drags | each card is shown once |
| Page: covers | `useDeckCovers.ts`, `deck/covers.ts` | covers shown and saved | default pick, choice | the pick awaits lookups while the user chooses, deletes, leaves | covers are different cards of the deck; slots are filled; the user's choice wins |
| Page: card art | `useCardImages.ts`, `CardImageModal.tsx` | image map, the cache of all pages | pick, revert, lookups | several picks in flight, some failing; images that arrive late; what other pages cached | the image is that of the last pick that was saved; the dialog says saved of what is saved |
| Page: import review | `ImportDeckModal.tsx` | text, preview, picks | preview, pick, back, save | editing between and during readings | each pick is saved with its card |
| Page: card cache | `api/cards.ts`, `useCardSearch.ts` | promise caches | get, search, resolve | shared failures | one request per key at a time; failures are retried |
| Practice | `practice/deal.ts`, `useBasicPokemon.ts`, `PracticeHandModal.tsx` | stored hand, basics | deal, reveal, mark, toggle | stale hands, late stages, small decks | a deal is a partition of the deck; closing loses nothing |
| Fan of cards | `practice/DeckFan.tsx`, `DeckSheet.tsx` | scroll position, the press, the animation, marks | drag, fling, wheel, keys, click | a press, its click and its timeout in different orders; everything moves one position, which handlers know as of the last render | the fan rests on a card; a drag is no click |

The page talks to the server over HTTP, one request per call, and many may be in
flight. The server runs a goroutine per request; requests meet only in the database
(and, for cards, in the TTL cache). Every deck and card route sits behind
`RequireAuth`, which looks the session up and hands the user's id to the handler.
The deck service asks the card service for card ids before an import. The cleaner
shares the table of sessions with the requests.

`PROJECT.json` lists the hazards of this code one by one, each at its line.

## Modules

| Module | What it is |
|---|---|
| `DeckService` | the deck API, its service and its store |
| `MCDeckService` | its instances for TLC |
| `DeckServiceProofs` | its inductive invariant and theorems, and that it implements `DeckLibrary` |
| `DeckLibrary` | what the deck API promises: whole operations of owners on deck objects |
| `DeckServiceRefinement` | DeckService implements DeckLibrary: the mapping |
| `AuthService` | accounts, sessions, the middleware and the cleaner |
| `MCAuthService` | its instances for TLC |
| `AuthServiceProofs` | its inductive invariant and theorems |
| `Migrations` | the migration runner, for several servers and builds on one file |
| `MCMigrations` | its instance for TLC |
| `MigrationsProofs` | its inductive invariant and theorems |
| `CardLookup` | the card ids of imports: the pool, `Resolve`, the TCGdex client and cache |
| `MCCardLookup` | its instance for TLC |
| `CardLookupProofs` | its inductive invariant and theorems |
| `DeckEditor` | one deck on the page: its entries and covers against late answers |
| `MCDeckEditor` | its instance for TLC |
| `DeckEditorProofs` | its inductive invariant and theorems |
| `EditorCards` | the same page's counts, gallery and art |
| `MCEditorCards` | its instance for TLC |
| `EditorCardsProofs` | its inductive invariants, of the art dialog and of the cards, and theorems |
| `HomePage` | one tab: who is logged in, the list of decks, the import dialog |
| `MCHomePage` | its instance for TLC |
| `HomePageProofs` | its inductive invariants, of the session and of the pages, and theorems |
| `Practice` | the test draw: the dialog, the deal, the stored hand and the basics |
| `MCPractice` | its instance for TLC |
| `DeckFan` | the picked-up deck of a test draw: gestures, animation, marks |
| `MCDeckFan` | its instance for TLC |
| `PracticeProofs` | the inductive invariants and theorems of `Practice` and of `DeckFan` |

In a model, operators headed "(with a bug: ...)" stand before the definition they
are a broken version of. They belong to no specification; they serve to see that a
property fails when the code is broken in that way (`mutants` of `PROJECT.json`).

### DeckService

*State.* `decks`, `entries` and `covers` are the three tables, functions from the id
to the row or `None`. `used` is the UUIDs ever given. `req` holds the requests in
flight: where each is (`at`), its user and call, the deck it addresses, and what it
has read (`view`), which becomes the answer.

*Actions.* Each call of the database is an action, atomic because SQLite has one
writer at a time and a transaction commits or rolls back as a whole: `GetDeckRow`,
`ListEntriesByDeck`, `ListCoversByDeck` are the three SELECTs of `repo.Get`;
`ListDecks`, `ListCoversByUser` the two of `repo.List`; the others are the write of
their operation. A handler with its service method is the chain of stages `row`,
`entries`, `covers`, `write`; `create` and `delete` start at `write`, `import` at
`write` and then `fill`, its second transaction. The checks the service makes on
what it read are part of the step that read it (`ListCoversByDeck` with
`Acceptable`), those on the input part of `Arrive` (`TurnedDown`). `Fail` is any
error of a call (I/O, `SQLITE_BUSY` after the busy timeout, a cancelled request
context); `Restart` is the end of the process and its next start. Foreign keys,
cascades and the CHECK on sections are in the actions that meet them.

*Left out.* Card names, numbers, positions and times; the text of an import (any
list of lines is an input, lines without a section included, which the parsers
produce); which of the parameters of an error message. A request that a body does
not decode for is left out: it changes nothing and reads nothing.

### AuthService

*State.* `users`, `sessions` (by token: the hash is taken for injective), `known`
the tokens ever made, `clock`, `cleaner` the instant `DeleteExpiredSessions` read,
and the requests in flight.

*Actions.* `Arrive` turns input down as `normalizeEmail` and the length check do,
and answers requests without a cookie. `CreateUser` and `GetUserByEmail` (with the
comparison of the passwords) are the calls of signup and login, `ReadClock` is
`s.now()` in `createSession` and in `Authenticate`, `CreateSession`, `DeleteSession`
and `GetSessionUser` are the statements on sessions. The `route` call is any route
behind `RequireAuth`. `Fail` answers as the handler does: logout drops the error,
the middleware and `Me` take any error for "no session". `CleanerReadsClock`,
`DeleteExpiredSessions` and `CleanerFails` are one round of `cleanupSessions`; how
long it waits between rounds is open, which includes every hour. `Tick` moves the
clock; a clock that is set back is not modelled.

*Left out.* bcrypt (two different allowed passwords do not have one hash), the delay
after a failed login, cookie attributes.

### DeckLibrary and the refinement

`DeckLibrary` has neither requests nor tables: a deck is one object with an owner, its cards
and its covers, and each step is one operation of its owner. Under `ObjectOf`, which reads the
three tables as such objects, every write of `DeckService` is one of these steps and every
other action a stutter. The step that writes is the one that maps: `CreateDeck` to `Make` (also
as the first half of an import), `UpdateDeck` to `Rename`, `AddEntry` to `Put`,
`ReplaceEntries` to `Refill`, and so on. That is the sense in which the check-then-write chains
are safe: whatever happened since the check, the write amounts to an operation its user is
entitled to at the moment it commits.

### Migrations

*State.* `record` is the table `schema_migrations`, `schema` the scripts that were
committed, in the order they were; `server` has for each process its build, what it
read of the records, and the version its loop is at.

*Actions.* The calls of `Migrate`, in order: `CreateTable`, `ReadApplied`, and for
each file `Skip`, `Refuse` or `Apply`, then `Finish`. `Apply` is the transaction of
`applyMigration`: it commits script and record together or nothing, and if another
server was faster, the primary key of the record turns it down. Every decision rests on
the one read before the loop, which is what makes two servers that start at once worth a
model. `Exit` is an error of any call, which ends `main`, and any other end of the
process; it may happen between any two actions, and when the server is up.

*Left out.* The contents of the scripts; the check for numbers used twice, which
depends on the build alone; versions with gaps (the files are numbered 1, 2, 3, and
the model takes a build's files as the sequence of them). A script changed after it
was applied is another `Script`, as its checksum is another.

### CardLookup

*State.* `cache` of the client, what TCGdex said with the instant it said it and the
one it expires; `busy`, the slots taken in the semaphore of each import; `worker`, the
goroutine of each line: which question of `Resolve` it is at, and its request; `clock`.

*Actions.* `Acquire` is the send on the semaphore. `Hit` and `Miss` are `cache.get`;
`TCGdexAnswers` is the moment of the server's answer and `Deliver` the later one at which
the client has it and calls `cache.set`, then goes on with `Resolve`; these are apart so
that an older answer can arrive after a newer one. `Fail` is any error, the timeout
included, and frees the slot (`defer`). `Evict` is a round of `evictLoop`. `Tick` moves
the clock, but a request that is as old as the client's timeout fails first. TCGdex may
answer the same question differently each time.

*Left out.* `Search` and `Get`, whose handlers keep nothing; the text of cache keys
(`"search:" + query + ":" + set` is the same for some different pairs, of which
imports ask none); lines that are equal are one line, as in `pending`. Every
line a parser gives has a set code and a number, so each begins with the set.

### DeckEditor

*State.* On the server `rows`, `saved` and `born` (entries, covers and the ids ever
given). On the page `page`, `deck` (the entries of `useDeck` as the last `setDeck` left them)
and `entries` (those of the last render), `covers` and `savedIds` (the refs of
`useDeckCovers`) and `run`, which says what the effect is awaiting and with which values in
hand. Between them `wire`, the requests under way, and `answer`, what a GET has read on the
server and the page has yet to hear. `untold` is what the server did without this visit's
getting an answer; the code has no such variable, the properties need it.

*Actions.* A callback of the page is an action. The home page and the editor ask for what they
show (`OpenHome`, `OpenEditor`), the server reads it (`ReadDeck`), and the page hears it later
(`OpenTile`, `Load`, `FetchDeck`): requests of earlier visits are carried out in between.
`HearAnswer` changes `deck`, and only `Render` brings the change to what the user clicks on and to
the effect, which it cancels and starts anew, as its dependencies say; until then the user
chooses and a run of the effect finishes with the entries of before. `Continue` is the effect
up to its next `await`, `FinishLookups` what follows it; `ChooseCover` is the user's choice.
`PutCovers`, `PostEntry` and `DeleteEntry` are the server, at the grain of whole operations that
`DeckLibrary` allows to its clients; `Fail` loses a request or its answer. `Leave`
unmounts the component; what it sent is carried out all the same. Lookups of cards find
the hit points of any subset of the keys, for any of them may fail.

*Left out.* Counts and art, which are in `EditorCards` (they have no effect on covers until
the next load, for the effect depends on the ids of entries): the order by count and position is
a constant, `Rank`, and of a selected card that is in the deck, where the page changes a count
instead of adding an entry, nothing happens here. Whether a selected card is in the deck goes by
its key; the match by name and set (`DeckEditorPage.tsx:50`) is taken for the same. Other tabs.

### Practice

*State.* `deck` as the page has it; `stored` and `overrides`, what localStorage keeps of the
hand and of the basics; `page`, which an exception leaves `"broken"` (React unmounts
everything, there is no error boundary); `dialog`, the state of the mounted `PracticeHandModal`
and of its `useBasicPokemon`. A hand is its cards by `uid` and the zone each lies in, so that a
card is in one place by construction of the slices.

*Actions.* `OpenDialog` mounts the dialog: it restores the hand if the signature fits,
and begins the lookups. `FinishLookups` is what follows them, with any subset of the
stages found: the seeding of the basics, then the effect on `ready`, which deals.
`ChangeDeck` is an answer to the editor; with the dialog open, a change in the number
of entries starts the lookups anew (`Follow`, `Restart`), a change of a count does not.
`Look` is every click that reveals or marks. Counts below 1, which an import can save,
make the deal throw or come out empty (`Throws`, `Render`): in an effect or a render
this takes the page down, in the handler of a click it does nothing.

*Left out.* Card art: a choice of art changes the image key by which basics are known.
The order of the cards within a zone. The fan the deck is picked up in is `DeckFan`.

### EditorCards

*State.* On the server `rows` and `born`. On the page `entries` and `copy` (the order and the
contents of `useDeck`'s deck), `order` (of the gallery), `dialog` (`CardImageModal`),
`imageMap`, `fetched` and `fetches` (`useCardImages`: the images shown, the keys it is done
with, the lookups under way). `answer` is what the server has read for the page's GET and the
page has yet to hear. `cache` is the module's `imageCache`, which outlives the page and which all
pages fill. `wire` holds the requests with the values their closures captured, `previous` and
`was`, by which a failed pick is undone. The code knows none of `untold`, `raced`, `due`, `mixed`
and the dialog's `wrote`: they record the art that should be shown, which entries the properties
have to except, and what the server took.

*Actions.* `OpenPage` sends the GET, `ReadDeck` is its reading on the server. `Load`,
`HearAnswer` and `Fail` are the continuations of the page, each with the effect of
`useCardImages` that a new list of entries sets off (`FetchImages`): a cached image is shown as it
is, only a card without one is asked for its saved art and then looked up.
`SelectCard`, `ChangeCount`, `RemoveCard`, `DropCard`, `PickArt` are the handlers of the
user's clicks: each sends what was worked out from the render of now and waits for nothing.
`Carry` is the server, at the grain `DeckLibrary` allows. `ImageArrives` is an image that was
looked up; `CachedElsewhere` is any image that the import review, the covers on the home page or
the page of another deck put into the cache, at any time. `Leave` and `ToggleView` unmount the
page and the gallery.

*Left out.* Covers (`DeckEditor`); the section, set and number of a card, of which `CardOf`
and `SectionOf` say when two are the same card; the upload of an own image, which picks a
URL as any other; the view that is read only.

### HomePage

*State.* `jar` is the browser's cookie, `crossed` whether a logout's answer took it while that
of a login was being read; `user`, `route`, `list` and `dialog` what the tab
shows; `wire` the requests, each with the cookie of the moment it was sent and with who
is still there to hear its answer (`to`). On the server `holder` and `live` are the
sessions, `decks` and `born` the decks. `untold`, `crossed` and parts of the dialog (`chosen`,
`keys`) are for the properties.

*Actions.* The clicks of `LoginPage`, `HomePage` and `ImportDeckModal`; `Reload`; `Expire`.
`Carry` is the server at the grain of whole operations, with the session looked up as in
`AuthService`: a request may be refused with a 401 though its session lives, as the
middleware does when the database fails, and a logout may end nothing. `TakeCookie` is the head
of an answer to a login or logout, whose `Set-Cookie` the browser takes; only later, when the
body has been read, is `Hear`, the continuation: a 401 to any request logs out, a new deck is gone
to wherever the user is by then, lists are heard by the page that asked only. `Fail` loses a
request or an answer, also one whose cookie is taken. What unmounting does to the
requests of a page or a dialog is `Orphan`.

*Left out.* Wrong credentials, which change nothing; other tabs; what the deck page does but
load (`EditorCards`, `DeckEditor`); sign-up, which to the tab is a login; the names of decks.

### DeckFan

*State.* `pos`, the scroll position, and `active`, the card that was the nearest to the center
at the last render, by which the handlers go; `anim`, the animation; `button`, where the
pointer is down; `pressed`, `dragging` and `timers`, the record of the press and the timeouts
that are to end it; `click`, a click that the browser is about to dispatch; `grip` and `sheet`,
the handle and the sheet; `marked`. `dragged` and `loose` are histories for the properties.

*Actions.* Each handler of `DeckFan.tsx` and `DeckSheet.tsx` is one: `PointerDown`, `PointerMove`,
`PointerUp`, `PointerCancel`, `CardClick`, `Timeout`, `Wheel`, `ArrowKey`, `MarkKey`,
`HandleDown` and so on, a frame of the animation (`Frame`, `Land`), and what mounts and
unmounts the fan. Each writes the position only (`ScrollTo`); `RenderActive` is the render that
`paint`'s `setActive` asks for, at any later time, and what React may put between the two is
in the model. Of the browser the model assumes that the click a drag ends in comes before
that release's own timeout of 0 ms, as the comment of `DeckFan.tsx:293` does; the timeouts of
earlier presses come at any time. A pointer that is let go where the fan does not hear of it is
`PointerUpElsewhere`.

*Left out.* Speeds and distances: a drag may take the fan anywhere, a fling or the wheel may
aim at any card. Resizing while the deck is up, and the hover preview.

## Runs

| Run | Question | Instance | Distinct states |
|---|---|---|---|
| `Decks` | are covers always different entries of their own deck, do checks stay true, do answers show own decks only, do only owners write, are imports whole, does nothing come back, is each write one operation of the library? | 2 users, 2 decks, 2 entries, 2 requests: everyone reads and writes any deck and its covers, or one imports lists of up to 2 lines and changes decks; a negative count | 1.02 M |
| `AuthSessions` | one account per email, tokens to their owners, who gets in, which sessions end, is any changed? | 2 users, 3 addresses of 2 emails, 2 passwords, lifetime 1, clock 0..1, 2 requests, all calls | 3.7 M |
| `AuthCleaner` | do expired sessions go? | lifetime 1, clock 0..3, one request, refused ones too | 21 k |
| `Migrations` | is the schema what is recorded, and is a server that is up migrated? | 3 servers; a build of 2 files, one of 3, one with an edited file | 218 k |
| `CardLookup` | does the limit hold, are hits fresh, does every line end? | 2 imports, 3 lines, limit 1, lifetime 1, timeout 1, clock 0..3 | 333 k |
| `EditorCovers` | are covers different cards of the deck, are slots filled, does the page follow the server? | a trainer, and a Pokémon that a double click adds twice; 2 requests under way | 791 k |
| `EditorCards` | do rows follow the server, is the gallery whole, is the last saved pick shown, is what the dialog calls saved saved? | 3 entries of 2 cards and 2 sections, counts to 2, 2 pictures of which one is looked up, 2 requests under way | 1.66 M |
| `HomePage` | does the tab act for the user it shows, does the list follow the server, do picks stay with their cards? | 2 users, 2 tokens, 2 decks, 3 texts, 2 cards, 2 pictures, 2 requests under way | 3.35 M |
| `Practice` | is a restored hand of this deck, do reveals and marks fit, does closing lose nothing, does a hand come? | 2 entries, counts -1..2, up to 4 cards: 1 in hand, 1 prize, the next and 1 left; 1 mulligan | 54 k |
| `DeckFan` | does the fan rest on a card, is a drag no click? | 3 cards, 2 apart, sorted into another order | 840 k |

Two runs end in a violation, each of a sentence of the repository that the code does not keep
(`findings` of `PROJECT.json`):

| Run | The sentence | What happens |
|---|---|---|
| `EditorChoice` | `useDeckCovers.ts:11-12`: saved covers are used as they are, empty slots are filled | the user chooses a cover while lookups are under way; the pick, computed from the covers of before, replaces it and is saved |
| `EditorArt` | `useCardImages.ts:31-32`: the entry's saved art, or the image of its card | the import review looks the card up and caches its image; the art picked there is saved with the deck; when the deck opens, the cached image is shown |

Both are reached by ordinary use, `EditorChoice` with a deck of three different Pokémon. More
sentences that the code does not keep are quoted under "What the models show besides".

Every module states a `TypeOK` (`DeckFan` a `FanTypeOK`). `Decks` and `AuthSessions` check
it; in the other runs it holds too (add `TypeOK` to the `INVARIANTS` of the cfg), and it is
proved for every module.

*Why the bounds are enough.* The properties relate at most two requests, two decks or two
entries: the racing request and the one raced with, the deck meant and another, a cover and the
entry it should not be. Ids are never given twice, so two of a kind also bound how often a row
is created; `Decks` has the operations that can meet in a property,
the ones on covers and entries of anybody, or imports and changes of one user (`MCDeckService`,
`after`); the proofs are for all of them together. A deck has two
cover slots because the code's constant is 2, and a request may send three ids. In
`AuthSessions` a lifetime of 1 and a clock of two instants put a read before the expiry and
another at it, the boundary where `<` and `<=` differ, in every order; the proofs are for any
clock. In `Migrations` two servers race and the third comes before, between or after them, of
each build. In `CardLookup` a limit of 1 makes the second line of an import wait for the first;
two imports ask one question at a time of the other's answer, and the clock passes lifetime and
timeout together with room for a second round. In `EditorCovers` one cover, an entry that
shares its card (two clicks before an answer make it), the card that does not, and two requests
under way are enough for each clause of `covers.ts` and for two answers out of order.
`Practice` has the constants 7, 6 and 500 as 1, 1 and 1, so that every zone is reached by some
deck and missed by smaller ones. Requests, users, ids and tokens are symmetric in the runs of
safety properties; the runs with liveness use no symmetry. In `EditorCards` two requests under
way give every pair of overlapping changes, and two entries of one card that share an image;
two pictures, one of which is the looked-up one, are enough for a pick, the image before it and
a revert. What other pages cache counts when the deck is opened (`CachedBefore`); the proofs
have it at any time. In `HomePage` two users and two tokens let a session of either be the old
or the new one, and two requests let an answer of the old one overtake. These two are the
product of several purposes of a user, which one run each would repeat; the MC modules keep
them apart by a constant variable `after`: the cards and their order, counts over several
visits, art, or the art of two entries with one image in `EditorCards`; the list with logins
and logouts, or imports in `HomePage`. What any of them does to another's state is not explored
together: a logout during an import review, for one, unmounts the dialog in the model (`Show`)
but in no run. In `DeckFan` three cards give a first, a middle and a last one, and two
positions from card to card one that is on none and, by the rounding, belongs to the next.

Deadlock is checked except in `CardLookup`, which ends when its lines have and the clock is
at its bound.

*Fairness.* Three runs assume any. `AuthCleaner`: weak fairness of `CleanerReadsClock`, for the
ticker goes on for ever and the cleaner starts again with the process; strong fairness of
`DeleteExpiredSessions`, for not every attempt of the DELETE fails. Without the second the
table may indeed grow: errors are logged and nothing else. `CardLookup`: weak fairness of each
goroutine, which the Go scheduler gives; that a request comes to an answer or an error is the
HTTP client's timeout, and TCGdex is assumed to do nothing at all. A waiting goroutine is not
starved in the model for the same reason as in the code: the holders of the slots are finitely
many and each ends. `Practice`: weak fairness of `FinishLookups`, for each lookup is answered
or fails and failures are caught.

## Proofs

The proof modules prove, for any sets of users, ids, requests and tokens, decks of any size,
decklists of any length, any clock, any builds and number of servers, any lines, limit and
lifetime, any hands, and fans of any size, from the assumptions stated next to the constants
(`DeckServiceAssumption`, `NoneIsNoRow`, `NoneIsNoObject`, `AuthServiceAssumption`,
`NoneIsNoAuthRow`, `MigrationsAssumption`, `CardLookupAssumption`, `NoneIsNoFetch`,
`DeckEditorAssumption`, `NoneIsNoMessage`, `EditorCardsAssumption`, `HomePageAssumption`, the
`NoneIsNoRecord` of either, `PracticeAssumption`, `DeckFanAssumption`). TLC evaluates each in
the run of its module. `PracticeProofs` extends both `Practice` and `DeckFan`, which is why the
latter calls its parts `FanInit`, `FanNext`, `FanSpec` and `FanTypeOK`; the two have no variable
in common, and no theorem is about both.

| Module | Theorem | Property |
|---|---|---|
| `DeckServiceProofs` | `TypeCorrect` | `TypeOK` |
| | `EntriesKeepDecks` | `EntriesHaveDecks` |
| | `CoversStayOwn` | `CoversAreOwnEntries` |
| | `ChecksHold` | `ChecksStayTrue` |
| | `AnswersStayOwn` | `AnswersShowOwnDecks` |
| | `DeletedStaysDeleted` | `NothingComesBack` |
| | `OwnersOnly` | `OnlyOwnersWrite` |
| | `ImportsStayWhole` | `ImportsAreWhole` |
| | `Implements` | `ImplementsLibrary` |
| `AuthServiceProofs` | `TypeCorrect` | `TypeOK` |
| | `EmailsStayUnique` | `OneAccountPerEmail` |
| | `TokensAreTheirs` | `TokensGoToTheirOwners` |
| | `AdmittedRightly` | `AdmittedByLiveSession` |
| | `SessionsEndRightly` | `SessionsEndForAReason` |
| | `SessionsStayFixed` | `SessionsAreFixed` |
| `MigrationsProofs` | `TypeCorrect` | `TypeOK` |
| | `SchemaStaysRecorded` | `SchemaIsRecorded` |
| | `UpIsMigrated` | `UpMeansMigrated` |
| `CardLookupProofs` | `TypeCorrect` | `TypeOK` |
| | `LimitKept` | `LimitHolds` |
| | `HitsStayFresh` | `HitsAreFresh` |
| `DeckEditorProofs` | `TypeCorrect` | `TypeOK` |
| | `CoversStayDifferent` | `CoversDiffer` |
| | `CoversStayInDeck` | `CoversAreInDeck` |
| | `SlotsStayFilled` | `SlotsAreFilled` |
| | `PageStaysWithServer` | `PageFollowsServer` |
| | `SavedCoversStayShown` | `SavedCoversAreShown` |
| `EditorCardsProofs` | `TypeCorrect` | `TypeOK` |
| | `SavedIsSaved` | `SavedMeansSaved` |
| | `RowsStayWithServer` | `RowsFollowServer` |
| | `GalleryStaysWhole` | `GalleryIsWhole` |
| | `LastSavedPickStaysShown` | `LastSavedPickIsShown` |
| `HomePageProofs` | `TypeCorrect` | `TypeOK` |
| | `ActsRightly` | `ActsForTheUserShown` |
| | `ListStaysWithServer` | `ListFollowsServer` |
| | `PicksStay` | `PicksStayWithTheirCards` |
| `PracticeProofs` | `TypeCorrect` | `TypeOK` |
| | `HandsStay` | `HandsAreOfTheirDeck` |
| | `MarksStay` | `MarksFitTheHand` |
| | `ClosingKeepsAll` | `ClosingLosesNothing` |
| | `FanTypeCorrect` | `FanTypeOK` |
| | `DragsDoNotClick` | `DragsAreNoClicks` |
| | `LandsRightly` | `LandsOnACard` |

*The argument.* None of the properties is inductive by itself, for they speak of
tables, and the danger is in what a request in flight believes. The invariant `IInv`
of each module therefore says what a request knows at each stage in words that stay
true while others move. In `DeckService`: the ids it has read were given (`used`), and
each is still where it was read or gone for good. What keeps this true is that ids are
never given twice, entries never change decks and decks never change owners; one
lemma says that every step goes forward in this sense, and from it follows once that
the requests that do not move keep their part of the invariant. The step that
inserts covers then finds the entries it checked three calls ago either in the deck
or deleted, and a deleted one fails the foreign key. In `AuthService` in the same way
(`OnlyForward`): accounts stay, sessions stay or end, tokens and time only grow
(`InOrder`), so the instant a request read lies between its arrival and now, and the
user it found still has the credentials that were sent. `IInv` was checked with TLC
on the instances above before it was proved.

In `Migrations` the invariant says of a server in its loop that what it read as recorded
is recorded still (records are never changed), and that the files it has passed are the
first scripts of the schema. The second follows from the first and from
`SchemaIsRecorded`, which is why a server may trust a read that others have
overtaken: a version that has been applied since is caught by `Apply`, never by `Skip`.

That an import is whole is counted, each line as often as it was read (in which order is not
modelled): the lines a request has saved stand in a bijection with the rows it made, which
nobody else can touch before it answers but by deleting their deck.

The refinement needs nothing beyond the invariant of `DeckService`. Each write touches the
rows of one deck, the one its request is about, and that is its user's (the lemmas of
`OnlyOwnersWrite`); the other objects stay (`SameObject`). What the deck's object becomes is put
together from the tables: the covers that a write leaves are those still among the cards
(`CardsChange`), because covers were entries of the deck before and cascades take the
others. A write to a deck that is gone changes no object.

In `CardLookup` the taken slots of an import are counted by its goroutines that ask
(`SlotsCounted`), whichever way these end. An entry of the cache expires a lifetime after it was
*stored*, which is up to a timeout later than the moment it speaks of; so a hit is fresh up to
lifetime and timeout, in whatever order older and newer answers are stored (`CacheInTime`).

In `HomePage` the cookie changes before the user shown does, by the time between the head of an
answer and its continuation. The invariant is about the answers under way: that of `me` is the
user of the cookie, which nothing changes to another's while it is awaited; that of a login is a
session of the user who logs in, and once its cookie is taken the jar has that or none
(`LoginFits`); and of the two only one is awaited at a time, with nobody shown. A logout whose
cookie is taken stays so until it is heard (`LogoutsStay`), and then nobody is shown. What remains
are answers that cross: a logout's takes the cookie that a login's has brought, and is heard
first. Then the page shows a user without a cookie; `crossed` is about this case alone.

The pages follow the server in one way. What a page shows and what the server has differ by
the requests in between, so the invariant accounts for each difference: by an answer on its
way, or by one that was lost (`untold`). It does so from the moment the server reads the deck for
the page (`Knows`), of what is on its way to it as of what it has (`Known`). In `DeckEditor`
(`Follows`) an entry that the page has yet to hear of has one such answer and no other
(`AnswersAreOwn`), because ids are never given twice and the user deletes only what is shown; so
it is in no list of covers, neither the page's nor one under way (`PutsAreOfKnownCards`), and what
is saved is shown. The effect of `useDeckCovers` goes by the entries of the last render
(`RunInOrder`), for any change of them starts it anew; what is still rendered and not in the
page's copy any more is gone from the server (`EntriesInOrder`), so a late choice of it is
turned down. `covers.ts` then fills the slots with different entries of these.

In `EditorCards` the same holds of counts and art, as long as of one kind only one change of an
entry is under way (`OneChange`); the entries of which there were two are excepted (`raced`),
and the page may indeed be wrong about them. The list and the gallery are sequences without
repetitions of the entries the page has (`OrderOK`): a card dragged, an entry filtered out or
appended keeps this by lemmas about these operators, without induction over their length. For
each card that is not excepted (`mixed`), one pick at most is under way, the image is its art,
and it knows the image to go back to, which is the one due; with none under way the image due
is shown (`ArtFits`), whatever the cache has. For the art dialog, at most one pick under way is
the latest, it is of the picture the dialog shows, and the server has it once it is carried
out.

In `HomePage` a list that is shown, or on its way to the page that asked, is the server's but for
deletions and new decks that are untold or under way (`ListsFollow`). It is asked for once a
page (`WireFits`), which is what makes it safe to take all it does not tell of off the
account; and it is of the user shown, for a page lives no longer than its user does. The picks
of the import are kept by a key, which a card changes when it is found: they agree with what
was chosen for the card, unless it was reviewed under both keys (`DialogOK`), and a save takes
them along (`ReviewFits`).

In `Practice` the hand is accounted for by its signature alone (`IsOfItsDeck`): each entry is in
it as often as the signature says, and the dialog takes a stored hand for its own when the
signatures agree. A deal has this because the pool does, by a bijection from its places to the
copies of the entries (`PoolIsTheDeck`), and because the shuffle changes only the places. What
the dialog shows is stored in the step that changes it (`DialogFits`).

In `DeckFan` the record of a press knows whether it was a drag while the press lasts and until
its click has come, for the timeout that ends it comes later, and the timeout of an earlier
press is of another record; and an animation that is left to itself ends on a card. The
invariant relates `active` to the position not at all: it is a card of the deck, no more.

*Only model-checked.* `ExpiredSessionsGo`, `EveryLineEnds` and `HandComes`, which are liveness
under fairness and beyond the prover; and the two violations, each of which is one behaviour
and needs no proof. No proof uses a recursive operator.

## What the models show besides

Behaviour of the code that a model has and no property denies; where a comment or a document
says otherwise, it is quoted. Of the art and the fan:

- An image that was looked up arrives late and takes the place of the art the user has picked,
  which the dialog still shows (`useCardImages.ts:112`; `DeckEditorPage.tsx:80`, "Show the pick at
  once and save it"). `LastSavedPickIsShown` excepts a card picked during its own lookup.
- Keys and clicks of the fan go by `active` of the last render (`DeckFan.tsx:253`, `:299`), while
  the scroll position has moved on: a mark may go to a card that is no longer at the center
  (`DeckFan.tsx:84-87`, "The card at the center lifts out of the fan [...]; clicking it marks it
  as seen, and clicking any other card scrolls that one to the center").
- A press stops the fan in its move, and released without a drag it leaves it between two cards
  (`DeckFan.tsx:261`, `:285`; `:82-83`, "every move is one eased animation that lands with a card
  at the center"). `LandsOnACard` excepts a fan that a press stopped.

On the server:

- An import with a name of blanks saves it, although `Create` insists on a name
  (`service.go:105`), and one whose second half fails leaves the empty deck behind.
- An entry added to a deck deleted since the check fails its foreign key and is answered with
  400, where `service.go:13-15` has a missing deck be `ErrNotFound`.
- A logout whose DELETE fails is answered with 204 while the session lives
  (`auth_handler.go:89`, `README.md:149`).

On the editor page (`EditorCards`, `DeckEditor`):

- Two quick clicks send the count of one render plus one each; the second adds nothing, and if
  the PUTs change order the page shows another count than the server. Two quick selections of
  a card that is not in the deck add it twice.
- An older pick of art that fails late puts back the image from before a newer pick that was
  saved; a failed pick of a card without an image is not taken back; leaving during a pick that
  then fails leaves art in the cache that was not saved. The cache is by card, so the art of one
  deck shows in another (`CachedElsewhere`; with an art of its own in the deck it is the
  violation of `EditorArt`).
- The order of the gallery is lost with any change of the entries.

On the home page (`HomePage`):

- A 401 to a request of the old session logs out who has logged in since.
- A logout that fails shows the login page while the session and the cookie live: a reload
  logs in again.
- A database error in the session lookup of any request is a 401, which logs the page out while
  the session lives (`auth_middleware.go:20`).
- If the answers of a login and of an earlier logout come together, the logout's may take the new
  cookie and still be heard first, for a 204 has no body to wait for (`client.ts:33`, `:35`): the
  page shows a user without a cookie until its next request is refused.
- A deck that is created or imported is gone to when the answer comes, wherever the user is by
  then, and though the dialog was closed with "Discard this import?".
- A save that is tried again after its answer was lost makes a second deck.
- The text can be edited while it is read: the art then goes by the places of one list to the
  cards of another. Picks are lost when a card is found in one reading and not in the next.

In the test draw (`Practice`, `DeckFan`):

- A toggle made before the first lookups are back is overwritten when they are, in the storage
  too. Basics are worked out once for a deck: a basic Pokémon added later never counts as one
  (`useBasicPokemon.ts:76`, against `:29`).
- The scrollbar of the fan leaves it between two cards, as a press does. A press
  let go outside the strip leaves the fan thinking it is held, and hovering drags it. A pointer
  that comes up over the handle counts as a tap on it wherever it went down.

## Not modelled, and the plan

Not modelled because there is no state to get wrong: layout and rendering, static files,
logging, CORS, configuration and version. Not modelled because it rests on the browser alone:
the hover preview (`useCardPreview.tsx`; its timer outlives a new hand dealt by
keyboard, and shows the old face over a card that now lies face down, see the hazards) and
resizing the fan. Not modelled because no document promises anything of it: the order of
search results (`useCardSearch.ts`) and a late answer for the deck one has gone on from
(`useDeck.ts:10`; no link leads from deck to deck).

Still planned, in this order:

1. `PromiseCache`, the caches of `api/cards.ts`: one request per key, failures retried.
2. `Decklist`, the sections and counts the parsers give, as functions; `DeckService` takes any
   list of lines instead.
3. `Poketools`: accounts and decks composed, so that the user of a deck request is the one the
   session gave. Today the two meet in `HomePage` only, at the grain of whole operations.
