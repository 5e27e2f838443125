# A formal model of vocably-backend

Vocably is a vocabulary-learning backend: FastAPI services over PostgreSQL
(SQLAlchemy, asyncio), Celery workers, Redis and external AI providers. This
directory models the parts of it where several processes touch the same rows,
checks the models with TLC, and proves the main results with TLAPS.

Paths below are relative to `src/app/` unless they say otherwise.

## 1. Inventory

| Part | Keeps | Operations | Hard because |
|---|---|---|---|
| **Deck build** `application/services/deck_build_service.py`, `tasks/deck_build.py`, `scripts/build_deck.py` | job row (state, counters), item rows (claim, attempts, backoff, selection), cards | plan, sync, run_batch (claim, resolve, record failure, halt, finalise), cancel, retry_failed, override_sense | many workers on one job, claim committed apart from the work, late ack and redelivery, reclaim by age, paid calls, unconditional state writes |
| **Study** `application/services/study_service.py` | `word_progress`, `word_reviews`, daily activity, XP ledger, the user's streak columns | grade, set_box, start/unstart, overview (settles the streak), celebration, complete_session | two devices of one learner, reads before locks, once-a-day facts, midnight |
| **Screens** (overview, deck list, session, roster) | nothing of their own | reads of the progress table, each by its own query | the same question asked in SQL and in Python, time zones |
| **Lexicon and lookup** `application/services/lexicon_service.py`, `infrastructure/ai/*_ai_service.py`, `single_flight.py` | lexemes, senses, headlines, cached entries and aliases, claims in Redis, breakers and latches | look_up_meanings through cache, lexicon, single flight and failover; record, append_senses, update_sense | concurrent writers of one word, leases that expire, a latch shared by requests |
| **Sense selection** `domain/services/sense_validation.py`, `sense_selection.py`, `contextual_sense.py` | the choice on an item | validate, choose, enrich once | floors, ties and bonuses in numbers |
| **Sign-in and account linking** `auth_service.py`, `account_link_service.py`, `user_service.py` | OTP and link challenges, identifiers on the user | request, verify, Google, link, unlink, handle, delete | concurrent verifies, attempt limits, two accounts claiming one identifier, losing the last way in |
| **Decks, units, words** | decks, units, words, the learner's row of a card | create, update, move, delete, copy, start, unstart | a card written from overlapping reads; facts kept in two tables |
| **Sharing, discovery, friends** | members, invites, offers, links, publication and its counter | add, role, join, leave, offer, take, publish, copy, ask, accept, remove, delete an account | join against close, roles along several ways in, two rows for one friendship |
| **Feedback** | verdicts | rate, withdraw | an entry that is swept between two taps |
| **Reader and books** `reader_service.py`, `book_*_service.py`, `tasks/books.py` | books, blocks, positions, kept translations, hot cache | ingest, publish, read, translate, tap, warm | text replaced under readers, redelivered slices, answers in any order |
| **Dictionary and phonetics** | cache of hits and misses, loop-bound clients, the transcription of cards | look up, backfill | an outage that looks like a miss, a client whose loop is gone |
| **Review history** `scripts/partition_word_reviews.py` | one partition a month | create ahead, drop expired | a job that misses its month or dies between its transactions |
| **Rate limiting** `core/rate_limit.py` | counters in Redis or memory | allow | two commands that are not atomic |
| **Migrations** `src/alembic/versions` | the shape of all of it | upgrade, downgrade | rows written between revisions |
| Prompts, other gateways, e-mail/SMS, EPUB parser, template loader, routing and schemas | nothing shared | conversions and I/O | not modelled (section 6) |

How the parts meet: every HTTP request is one database session and one
transaction (`core/database.py`, `get_session`); Celery tasks open their own.
A deck build calls the AI chain, writes the lexicon and the deck's words; the
admin API calls the build service; grading reads words that deck services move
and delete; Study writes the user row that profile requests also write. The
database is at READ COMMITTED, so what a process read is a fact about the past
until a row lock or a guarded UPDATE makes it one about the present. That is
the hazard most of the models are about. Each hazard is listed at its line in
`PROJECT.json`, with the properties that would catch it.

## 2. Modules

| Module | What it is |
|---|---|
| `BuildLedger` | What a build promises a reader: every word open, one card or a failure; exact progress numbers |
| `DeckBuild` | The pipeline: job, items, cards, workers with their open transactions, messages, the admin's requests, crashes, time |
| `StudyLedger`, `Study` | What studying promises a learner; one learner's rows and the requests of her devices as transactions over them |
| `Overview` | The screens of one learner, each translated from its own query, over the writes that move the table |
| `DeckContent` | Units, cards, the learner's row of a card, the phonetic backfill's batch, the copy of a deck |
| `BuildPlan` | Several commands planning and syncing one template, and what a job's end and an administrator do meanwhile |
| `Partitions` | The months of the review history and the job that tends them |
| `Friends`, `Sharing` | Friend links; members, roles, invites, offers, copies, deleting decks and accounts (`Sharing` extends `Friends`) |
| `Account` | One-time codes, Google, linking, unlinking, handles |
| `Feedback` | The verdict on a looked-up word |
| `Schema` | The chain of revisions, and what those that move rows do to them |
| `Lookup` | Cache, lexicon, single flight, and all writers of one lexeme |
| `Failover` | The chain of gateways, breakers, deadline and the adapter's latch |
| `Grounding`, `SenseRules` | The joining of a dictionary's senses with a model's headlines; validation, choice and enrichment, against reference definitions |
| `Dictionary` | The dictionary's cache and clients, the daily backfill of transcriptions, outages and kills |
| `Books`, `Tap`, `RateLimit` | The life of a book; a tap on a word; the limiter |
| `MCDeckBuild`, `MCStudy` | Instances of `DeckBuild` and `Study` for TLC |
| `MCPeople`, `MCDecks`, `MCService`, `MCReader` | The other modules, composed for TLC, a scene each (below) |
| `*Proofs` | Theorems and proofs (section 5) |

**Scenes.** The parts that an `MC` module puts together decide on no common row:
a product of their states would only multiply what TLC has to visit. So a
behaviour is about one of them; the variable `scene` is chosen in the initial
state, the other parts' variables stay as they are, and a property is asked in
the scene it is about. A property of such a module may join statements about
several parts or of several kinds; each has its mutant beside the code it
changes (the definitions marked *Mutant*), and `PROJECT.json` lists the mutant
of one of them. What a part hands to another is abstracted to the outcome the other
can see: `Lookup` takes from its provider an answer or a failure, which is what
`Failover` and `Grounding` return.

**Requests.** Outside `DeckBuild` and `Study`, a request is a read of what is committed and,
in a later step, its commit, with the reads and writes in the order of the
handler where another process can tell. This is sound because at READ COMMITTED nobody sees a
transaction's writes before its commit; where a transaction holds a row that another waits
for, the row is held in the model too (`Friends`: the acceptance that holds a
row while a removal waits for it). A guarded UPDATE or DELETE decides on the row
as committed, a unit-of-work write on the columns that differ from the row the
session has. SQLAlchemy's identity map holds rows weakly, so that row is the one
first read or the one there is at the write; the models take either
(`DeckContent`, `Account`). A unique index, a CHECK or a foreign key that a write would break
ends the request with nothing done.

### DeckBuild and the code

State. `job`, `items` and `cards` are the *committed* rows. Per worker, `pc` is
the statement of `run_batch` it has reached, `draft` the `DeckBuildItem`
entities it loaded after its claim, `dirty` those `save_item` has written and
not committed, `fresh` the cards it has inserted and not committed, `put` an
uncommitted `set_job_state`, `jobLock` the worker whose transaction has updated
the job row. `View(w)` is the database as worker `w`'s transaction sees it.
`msgs` are undelivered `build_deck` messages. `admin` is the one admin request
in progress (requests of one admin do not overlap in the model).

Actions, in the order of `run_batch`: `ReadJob`, `MarkGenerating`,
`SelectBatch`, `ClaimBatch` (the guarded UPDATEs and the claim's own commit),
`ResolveItem` or `FailItem` for each item, `Halt`, `AnyLeft`, `CountItems`,
`SettleJob`, `CommitBatch`, then `Requeue` and `Ack` of the task. A row lock is
a guard: `ItemFree`, `JobFree`. The split between `SelectBatch` and
`ClaimBatch`, between `CountItems` and `SettleJob`, and between an admin's read
and write is where other processes get in.

Abstractions. *Time* is one flag, `ready`: a pending item's backoff has run out,
or a resolving item's claim is older than `deck_build_claim_timeout_seconds`.
`DONE` and `NEEDS_REVIEW` are one state, as every query in the pipeline treats
them. *Which sense is chosen* is reduced to whether an item's hint is met
(`Pinned`) and to who chose (`pick`); the choice itself is `SenseRules`. A
provider call is its outcome: `FailItem` says whether the failure was the
provider's, whether a counter had been written before it, and whether an
enrichment had been paid for. The other counters of the job are only the lock
they take. One job, planned before the run (`BuildPlan` has the planning);
deleting the deck or a card meanwhile is left out.

`Overruns` says whether a batch may outlive its claims. A Celery batch cannot at
the default settings: its hard limit (`celery_task_time_limit_seconds`, 600) is
not above the claim timeout (600). A run at a terminal has no limit.

### Study and the code

State. `progress`, `activity`, `user`, `log` (per card: `word_reviews`), `ledger`
(the sum of `xp_events` and the DAILY_GOAL events of each day) and `home`
(`words.deck_id`) are the *committed* rows; `told` counts the clients answered
CLAIMED. Per device, `pc` is the statement its request has reached and `work`
what it has loaded and decided. `user` in `work` is the entity that
`get_current_user` loaded: the request keeps a reference to it, so the identity
map hands the same object back to every later `users.get` and it stays as old as
the request until `users.update` refreshes it.

A request is `Begin`, its statements, and one commit action. Every statement that
writes a row first waits for it (`RowFree`, `DayFree`, `UserFree`); since the row
then cannot change before the commit, its write is applied there, to the row as
it is: `Graded` is `record_grade`'s upsert, `BankDay` is `bank_day`'s guarded
UPDATE, `CommitStreak` is `settle_streak`'s unguarded one. What the transaction
reads of its own writes is in `View` and `GoalMet`. `Abort` is a rollback at any
statement. `StartWord`, `Unstart` and `MoveWord` are requests of one effective
statement and are atomic.

| Request | Actions |
|---|---|
| `grade` (session, drill) | `Begin`, `Read`, `WriteRow`, `RecordReview`, `NoteStudyDay`, `Award`, `SettleDay`, `CommitGrade` |
| `set_box` | `Begin`, `Read`, `WriteRow`, `CommitBox` |
| `complete_session` | `Begin`, `Award`, `SettleDay`, `CommitFinish` |
| `get_overview`, `UserService.settled` | `Begin`, `Look`, `SettleStreak`, `CommitStreak` |
| `claim_goal_celebration` | `Begin`, `Claim`, `CommitClaim` |

Abstractions. Time is in ticks, a day is `TicksPerDay` of them, and the
learner's midnight comes `Offset` ticks after UTC's. `totals_on` and the due
count are one read: nothing that may commit between them changes the totals.
`log`'s other columns, `last_grade` and timestamps no guard reads are left out.
Her goal, timezone and set of cards do not change; points for adding a word are
left out.

### The other modules and the code

| Module | State | Actions | Abstractions |
|---|---|---|---|
| `Overview` | the clock, the learner's zone and seats, `words` rows, her `word_progress` rows | one per request (`Grade`, `SetBox`, `Start`, `Unstart`, `AddCard`, `MoveCard`, `DeleteCard`, `Join`, `Leave`, `Travel`), `Tick`; the reads are operators, one per query | every request is one step (interleavings are `Study`'s); two ticks a day; two cards |
| `DeckContent` | decks, units, words, the learner's row, ids drawn, what each request has read; `stale` marks cards written from a read that was no longer the row | `Begin` and `Commit` of each request and of the worker's batch, `Unstart`, `DeleteDeck`, `Abort` | a transcription says whether it is the dictionary's, for which term, or typed; who may edit is `Sharing`'s |
| `BuildPlan` | jobs with their decks, what each command has read | `BeginPlan`, `ActiveJobFor`, `CommitPlan`, `BeginSync`, `ReadListing`, `CommitSync`, and the events of a job | versions stand for a template's texts; items are counts of failed ones |
| `Partitions` | the months with a partition, reviews by month, the default partition, the job between its two transactions | `Review`, `Create`, `Prune`, `Die`, `NextMonth`; `MoveStray` is what the error asks an operator to do | the database's refusal to create a partition whose rows are in the default one is external |
| `Friends`, `Sharing` | friend links; decks, members, invites, offers, copies taken | every endpoint as a read and a commit; a one-statement request is one step | roles, not permissions to edit; browsing is reads |
| `Account` | users' identifiers, both kinds of challenge, what each request has read; `wrong` counts wrong guesses answered | `PhoneStep`, `GoogleStep`, `LinkStep`, `OwnStep` (handle, profile, unlink, delete), the ageing of codes | a code is its number; the resend cooldown is time only: any resend may come |
| `Feedback` | the card back shown, its cache entry, the configured model, verdicts | `LookUp`, `Cache`, `Sweep`, `Deploy`, `Begin`/`Find`/`Commit` of a rating, `Withdraw` | one word; one reason |
| `Schema` | the revisions applied, the objects that exist, the rows that some revision moves | `Migrate` (next up or last down), `Release` (rows the release of the day writes) | a migration is atomic (one Postgres transaction); one deck, one study day; revisions that add an empty table are objects only |
| `Lookup` | senses of one lexeme, entries, aliases, claims in Redis, how far each lookup is and what it has read | `ReadCache`, `ReadLexicon`, `Acquire`, `Poll`, `WaitOver`, `Answer`, `Record`, the three commits, `BeginEnrich`, `Review`, `Expire`, `Forget`, `Die` | `auto` stands for `needs_review` too; a claim that outlives its lease and an edit by a person share a bound |
| `Failover` | kinds and health of gateways, latches of the process, breakers and the operation of each session | `Begin`, `Respond`, `Cancel`, `Tick`, `Turn`; `Elsewhere` is another session of the process that drops the latch | time in ticks; a gateway holds to `response_format`, rejects it or ignores it, and one that holds to it may also, while it fails, answer 400 for another reason or cut a body short (`cuts`): the adapter tells none of this apart, nor does the model; a latch may start dropped only for a gateway known not to honour the format |
| `Grounding` | the dictionary's entry and the model's reply | `LookUp` | texts are names; a headline is present or blank |
| `SenseRules` | hint, chain, the lexeme's senses, the card's choice | `Enrich` from any validated answer | a text is the number of a hint's words it says; scores are whole numbers over the fraction `Whole` |
| `Dictionary` | what the dictionary covers, its cache, each worker's client and task, the column of the cards | `Begin`, `Ask`, `Commit`, `Release`, `Fail`, `TimeLimit`, `Kill`, `LearnerLooksUp`, `Expire`, `Outage`, `Recovery` | faults are bounded; of two batches that write one card the first commit wins |
| `Books` | the row of a book and its text, positions, kept translations, tasks and requests, messages of the warm chain | `Request`, `Commit`, `Abort`, `RemoveFromShelf`, `Run`, `DieWarming` | a text is one block with its own id and a number of lemmas; `Abort` is kept only where it leaves a queued warming behind |
| `Tap` | the stages of the lookup's task and of the request, both caches, the strike | `Begin`, `LookStep`, `AskStep`, `MainStep` | one word and one sentence; stages name whether the database or Redis is busy |
| `RateLimit` | the key with its count and time to live, each worker's request and window, what Redis counted within the budget | `Serve` (each command), `Crash`, `Tick`, `Outage`, `Restored` | events are kept by age |

## 3. Runs

| Run | Instance | Shows |
|---|---|---|
| `deckbuild_safety` | 3 words, 2 workers, batches of 2, 2 attempts, streak 2, 2 builds queued, 1 crash, 1 retry | types, exclusive ownership, exact counters, a completed job is built, one card per word, bounded attempts, refinement of `BuildLedger` |
| `deckbuild_liveness` | 2 words, 2 workers, batches of 1, a crash and a cancel | a driven build reaches a terminal state |
| `deckbuild_overrun` | 2 words, a worker and a terminal run that may overrun, a retry, an override | the job row never under-reports; every finished word has a card |
| `deckbuild_enrich_crash` | 1 word, a crash | violation: an enrichment is paid for twice |
| `study_day` | 2 cards in 2 decks, 2 devices, goal 3, 4 requests, a midnight, an abort | the day is won exactly when its total says so, once; points agree; refinement of `StudyLedger` |
| `study_card` | 1 card, a self-paced deck and another, 4 grades or moves by hand, 2 edits, an abort, at two times | the row's counters are the log's; firsts never move |
| `study_streak` | 1 card, goal 1, 4 grades, finished sessions, overviews, profiles or celebrations, a midnight, a streak that ended two days ago or none, an abort | the streak counts won days only; one celebration; every request ends |
| `study_stale_streak` | 1 card, a grade and a profile | violation: a banked day is written over |
| `people` | accounts: 1 and an identity to sign up by, 2 phones, an address, 2 codes, 4 requests, 2 at a time; decks: 2 people, 3 decks, 2 offers; migrations: 2 learners, a card, 4 writes; verdicts: 3 requests, 2 models | nobody is locked out and guesses count; one owner, roles, codes and friendships kept; every revision applies and rolls back and rows survive it; a known term stays known |
| `decks` | content: 3 decks, 3 units, 3 cards, 2 spellings, 3 requests, 2 at a time; screens: 2 cards, 2 decks, 2 zones, 5 ticks, 3 writes; plans: 2 commands, 2 jobs, 2 versions; history: 6 months, window and retention of 2 | unit, transcription and learner's row follow a card; worker, editor and copy keep apart; the screens agree and today's queue never climbs; only an admin publishes; history stays in its partitions |
| `service` | gateways: 2, the first of any kind, the second known not to honour the format, one session with others `Elsewhere`, deadline 2; lookups: 2, one upset, 2 keys, 2 inputs; rules: 5 suggestions, 3 places; grounding: 3 translations of 2 candidates; dictionary: 2 terms, batches of 1, 2 faults | outages and empty answers leave the latch on, and once it is off every attempt obeys it; aliases resolve; the lexicon only grows and claims keep lookups few; rules match their references; headlines keep their sense; outages mark no word; every lookup and operation ends, gateways that recover serve again, covered words are spoken |
| `reader` | a book: 2 editions, an own text, 2 tasks, 2 slices, 1 fault, 3 requests; taps: 3, one at a time; limiter: 2 workers, budget 2 in a window of 2 ticks | positions and kept translations are of the book; the chain leaves nothing out and comes to rest; one sense whichever answer comes first; at most twice the budget; no refusal is for good |

Why these are enough. Two words are enough for a batch that does not hold everything, three for a
batch that is full while work is left; two workers for every race in the code
(each is between one holder and one other); two attempts for the difference
between a retry and giving up; a crash budget of one because each crash returns
the system to a state with claims left behind, from which the run continues.
For Study two devices are enough, since every race is between what one request
read and what another committed. `study_day` needs two cards in two decks and a
goal of three: in one deck the activity row, and on the day's first answer the
user row, would already keep the two last answers apart. Real goals are 5 to 20;
only the distance to the goal matters to a request. In the other modules, too, a race is
between a read and one commit: two requests in flight, and a third or fourth that
finds what they left. A third deck is one to copy into or for a second person;
two editions are one that replaces another; two time zones one
to travel to. Of an `Account`, a second identity is the one that claims what the
first has. `Last = 2` gateways are one to fail and one to fall back to.
The theorems do not depend on any of these numbers.

`CHECK_DEADLOCK FALSE` is set in every configuration because a finished build, a learner with
nothing left to ask or a used-up bound is a legitimate end. Symmetry is used for safety properties
only.

### Where the code does not do what it says

Two runs end in a violation and are findings:

| Run | The code's words | What the trace shows |
|---|---|---|
| `deckbuild_enrich_crash` | "One paid attempt per word per deck, whatever happens to it" | the mark is saved with the batch; a killed worker loses it and the word is paid again |
| `study_stale_streak` | streak columns are "never written back from a read value" | a profile request that read a broken streak writes it over the day just banked; the banked date stays, so the day cannot be won again |

Other statements of comments and docs are stated in the modules too, next to what is true instead,
and are false there. Ten configurations beside the regular ones show one each
(`tlc -config X.cfg M`):

| Configuration | Module, property | The code's words | What the trace shows |
|---|---|---|---|
| `deckbuild_halt` | `MCDeckBuild`, `HaltIsResumable` | "`reset_failed` plus one more run picks up exactly where this stopped" | a halt can leave no failed item, and the retry then reopens nothing |
| `deckbuild_cancel` | `MCDeckBuild`, `CancelSticks` | "Cancelling stops new work" | the batch in flight writes its own state over the cancellation |
| `deckbuild_manual` | `MCDeckBuild`, `ManualChoiceKept` | `MANUAL` "outranks every automatic strategy" | the next run selects automatically and overwrites it |
| `deckbuild_two_cards` | `MCDeckBuild`, `NoSecondCard` | "an item resolved twice leaves one card rather than two" | a terminal run slower than the claim timeout and the worker that reclaimed the item both insert |
| `study_new_card` | `MCStudy`, `NewCardsWinNothing` | the guard "that stops a brand-new deck [...] banking a day on one review" | `grade` dates a card without a row by UTC's day: west of UTC it counts as due on the day it was added |
| `study_mastered_twice` | `MCStudy`, `MasteredCountedOnce` | "Incremented only on the transition into box 5" | two grades that both read the card unmastered count it twice |
| `study_mirror` | `MCStudy`, `MirrorAgrees` | "Live mirror of `words.deck_id`" | a grade writes the deck it read back over a move |
| `friends_half` | `Friends`, `Mutual` | one half of a friendship never outlives the other | `unlink` waits for the row an acceptance holds and misses the row it inserts meanwhile |
| `lookup_rejected` | `Lookup`, `RejectedNotServed` | a rejected sense is "never served" | the cached entry still holds it |
| `plan_two_builds` | `BuildPlan`, `OneBuildAtATime` | active_job_for "guards against two concurrent builds of one template" | two planners both find none, or a retry reopens a job without asking |

To see one of the following, put it in place of the properties of the configuration named:

| Configuration | Property | What happens |
|---|---|---|
| `deckbuild_safety` | `SettledWhenFinished` | a halt ends the job as partial with its words still open |
| `deckbuild_halt` | `NoTransactionAcrossNetwork` | the next word of a batch calls its provider with the last one's row written and not committed |
| `deckbuild_overrun` | `QueuesWhileWorkRemains` | the task ends its chain while a word is open that its last read had not shown open |
| `study_card` | `MoveStartsNothing` | a box set by hand writes a row for a card that `unstart` took away meanwhile |
| `people` | `RemovedIdentityStaysOut` | a request that read the account first writes back the Google identity removed meanwhile |
| `people` | `SharedDeckOutlivesAccount` | a member joins between the check and the DELETE, and the deck goes with its owner's account |
| `people`, `MaxWrites = 5` | `MasteredOncePerCard` | a card mastered, lapsed and mastered again is counted twice by the rollup |
| `people` | `ReasonsAreComplaints` | of two taps served together one writes the reason and the other the positive rating |
| `people` | `AuthorKept` | a second tap after the entry is swept writes the deployment's model |
| `decks` | `FinishedIsOver` | a retried job is being built with the time of its end still set |
| `decks` | `PresentedWhole` | two syncs leave the name of one version with the listing of another |
| `decks` | `NoForeignUnit` | a move and a stale edit leave a card in a unit of the deck it left |
| `decks` | `NoWrongPhonetic` | a transcription of the spelling a card had before |
| `decks` | `WindowMoves` | a review in the default partition keeps its month from being created |
| `service` | `HonouredFormatKept` | a body cut short, or a 400 for another reason, takes structured output for the life of the process from a gateway that honours it |
| `service` | `VerdictRemembered` | the "unsupported" that ran out stays in the way of the answer bought after it |
| `service` | `WordsClearTheFloor` | a hint is met by a sense that reaches the floor only with its bonus |
| `service` | `IdleHoldsNothing` | the time limit falls in the release, and the worker keeps a client of a loop that is gone |
| `reader` | `OneStatementAtATime` | a tap's two coroutines are in the database at once |
| `reader` | `PublishedTextStands` | an ingest that checked before the publication replaces the text after it |
| `reader` | `PublishedUnderRights` | the same ingest states no rights: the public book is without |
| `lookup_rejected` with three keys, ids and senses | `PositionsDiffer` | two commits that read the same highest position both use the next |

Three more are of `Failover` by itself, with two sessions, two gateways, `Threshold`, `Cooldown`, `Timeout`
and `MaxAttempts` 2, one retry and a deadline of 3: `BudgetKept` (a fallback is begun that cannot end in time),
`OneViewPerProcess` (every session has breakers of its own) and `RejectedFormatRetried` (an answer that
comes after another session dropped the latch counts as a failure of a gateway that is well).

### Fairness

| Module | Weakly fair | Because |
|---|---|---|
| `DeckBuild` | receiving a message, each worker's batch, the clock, the write of a request that has begun | a live Celery worker takes a message that waits; asyncio runs the batch, row locks are granted when released, a provider call ends by its own deadline. Operators, admins and crashes are owed nothing. Strong fairness is not needed: a worker waiting for a lock is waiting for a worker that is itself bound to commit |
| `Study` | a request that has begun | as above; clients are owed nothing |
| `Failover` | `Begin`, `Respond`, `Tick` | a gateway answers, fails or runs into its timeout; time passes; that a gateway which recovers serves again is claimed of sessions that make calls |
| `Lookup` | a lookup's `Step` | the provider answers or fails (`Failover!OperationsEnd`), and waiting has a deadline. Nothing is assumed of a lease, a review or a death |
| `Dictionary` | recovery, a task's own steps, a key's time to live | the beat schedules a task every day. `BeginWith(t)` is *strongly* fair: a batch is drawn by `ORDER BY random()`, so a term that keeps missing a transcription is drawn again and again, though not at every moment |
| `Books`, `Tap` | the commit of some task, the run of some message; some tap's step | the steps of one are finitely many, so none needs a fairness of its own |
| `RateLimit` | the clock and each worker's requests | a refused client that keeps trying is what `RefusalsEnd` is about |

In a scene module the fairness of a part is asked in its scene; where a part's fair steps can only
be enabled in its scene, its own fairness formula is used.

## 4. How properties and mutants go together

A property is worth keeping if a plausible bug in the mapped code breaks it. Each module therefore
holds the mutants of its definitions, marked *Mutant* and defined before the definition they
replace; nothing else uses them. `PROJECT.json` names one for every property of every passing run.

## 5. Proofs

The proof modules contain 54 theorems. None of them depends on a bound or on the size of a set: the
assumptions are those that the modules name and that TLC evaluates in every run
(`...Assumption`: bounds are natural numbers, `None` is not a row, the given
initial rows are well formed, `Keys` is finite).

The theorems about scene modules say `MCSpec => ...`, of the very properties the runs check. Each follows from a
theorem or a step lemma of the part: in its scene a step of `MCNext` is a step of the part
or leaves its variables alone, and in another scene they stay.

### Deck building (`DeckBuildProofs`)

`TypeCorrect` and `NothingUnderReported` hold without assumption. Under `Undisturbed` (no batch outlives its claims, no override):
`Safety`, `ExclusiveClaims`, `ExactProgress`, `ExactlyOneCard`, `BoundedAttempts`,
`CompleteIsComplete` and `Implementation` (the refinement of `BuildLedger`), so
every safety property of `deckbuild_safety`. `Undisturbed` is not a
convenience: `deckbuild_two_cards` and `deckbuild_overrun` show what is lost, and
what is kept, without it.

None of the properties is inductive. `CountersExact` survives a commit only if
each row the commit publishes was still unpublished; that needs *nobody else has
written it* (`OneOwner`) and *it is still marked claimed* in the committed table.
`IInv` therefore ties, for each item held by a worker, the private entity to the
committed row (`Held`), for each worker its program counter to what its session
contains (`Session`), for each committed row its card and its attempts (`Row`),
and for a retry the rows it has locked to being failed (`Request`).
`CompletedMeansBuilt` needs one strengthening more (`Completion`): from the
moment a worker has counted no open and no failed item to its commit, its view of
the table stays fully built, because built rows are neither claimed nor reset.
`NeverUnderReports` rests on another invariant, `Floor`, which counts without knowing who owns what:
what is finished in the table is at most what the job row says, with the increments of the worker
that holds the job's row added, whoever overran meanwhile.

### Studying (`StudyProofs`)

For any number of devices, cards and decks, any goal, any offset of the learner's
day: `TypeCorrect`, `PointsAgree`, `OnePrizeADay`, `StreakIsEarned`,
`OneCelebration`, `CountersAreTheLog`, `FirstsAreKept`, `NoGoalMissed` and
`StudyImplements` (the refinement of `StudyLedger`).

`Typed` adds to `TypeOK` where each kind of request can be (`Place`), without
which a request's day is not a day. `Accounts` adds what makes the writes safe: a
user loaded at any time was true then, and won days stay won, so its streak is
never longer than the days won *now* (`LoadedUser`), which is why
`settle_streak`'s unguarded write cannot stretch a streak (it can shorten one:
`study_stale_streak`); the last banked day is the last paid (`LastWon`); a claim
about to be granted holds the user row and its day is after any day told
(`Claiming`, `Told`). `History` says that a row without reviews has no history
and that a loaded row is no newer than the log (`LoadedRow`): it covers the
upsert that inserts a row which `unstart` deleted after the request had read it.
`Winning` is for the goal: every day whose answers reach it is won (`Met`), and a request between its
award and its commit holds the user row and knows the day's total as it will be (`Gate`), which is what the award's
early UPDATE of the user row is for.

### Decks (`DecksProofs`)

- `CardsStayCoherent`. `ContentInv` adds to the property that ids are drawn once (`IdsDrawn`)
  and, for each request, that what it has read was so and is still known to be
  except where `stale` marks the card (`RequestsSound`).
- `WritersStayApart`: from the same invariant, the steps that write a transcription or copy a deck.
- `HistoryStaysKept`: the window stands for the months it is good for, a job between its transactions
  began in a month gone by or in this one, and a stray review needs a lapse.
- `OnlyAdminsDo`: a planner's private read of a listing cannot publish, because only columns that
  differ from what was read are written.
- `QueueStaysDown`: the second half of `ScreensTell`, for any offsets of midnight.

### People (`PeopleProofs`)

- `RowsStayAgreed`: `State` (rows are well formed and refer to rows that are there, ids and codes are drawn
  once, nobody holds or is offered a second ownership) and `RequestsSound` (what a request
  holds in hand names rows as they were, and a role it is to write is not an owner's).
- `ConsentStaysKept`: from `Consent`, and because every step is lawful: a link appears or is answered only by a request of
  one of the two (`LawfulStep`). The action properties about roles, codes and friendships follow from the step
  lemmas.
- `AccountsStayHeld`: `AccountInv` joins the types, `NeverLockedOut` and `GuessesAreCounted` with the
  fact that a code belongs to one thing only, a request that is to send it, one challenge by phone or one account's
  challenge (`RequestsApart`, `LinksApart`, `Undrawn`), and that a request was told the truth about the
  code it checked (`RequestsTold`). Without it a spent code's wrong guesses could be charged to another.
- `TermsStayKept`: from the shapes of verdicts and requests.

### The lookup and its surroundings (`ServiceProofs`, `FailoverProofs`, `DictionaryProofs`)

- `ServiceAliasResolves`: `CacheType`, `LookupType` (past reading, a lookup keeps what it was asked, and one that goes on to the
  lexicon has senses) and the property itself.
- `LexiconStands`: two halves. The lexicon only grows: a commit appends behind the senses there
  are and tops up headlines, whatever it has read and whatever was inserted or approved since
  (`SensesInv`: ids are drawn in order and one sense has the highest position, so that `next_position` is a number at all).
  And of those that own a question there are at most as many as leases have run out, and one
  more: `ClaimsInv` counts *the claim itself*, that is, owners are at most the expiries plus one if the claim is
  held now. The plain bound is not inductive: a free claim could be taken when the bound is already reached.
- `ServiceLatchStands`: both halves of `LatchStands`. `LatchOnEvidence` needs only the types of latches and kinds: of
  all steps a 400 and a body that does not fit are the two that take a latch off (`LatchSteps`). It protects the gateways
  that give neither; a gateway that honours the format and once gives either loses it (`HonouredFormatKept`, section 3).
  `LatchIsObeyed` goes by what a step may do to the row of a session (`Follows`: it ends, is sent as the latch says after
  the step, or goes on within its attempt), for which a row must be one (`CallType`).
- `HeadlinesStayPaired`: about the operators. `PickedIs` says that filtering a sequence keeps elements in
  distinct positions, `JoinIs` that each joined card has the number it was said for and no number is used
  twice, `TopIs` that candidates are the dictionary's own senses; the property follows from the three.
- `OnlyWhatIsCoveredIsSpoken`: what the cache holds and what a task has in hand is a miss or what the dictionary has
  (`CacheTells`, `TasksTell`).

### Reader (`ReaderProofs`)

- `TextStaysCoherent`: requests hold ids that were drawn (`TasksSound`), a message covers only what
  comes after lemmas that were looked up (`SlicesSound`), and the row's shape.
- `BudgetStaysKept`: `LimitInv` says what the counter knows of the requests by their age: what is younger than
  the window it opened is at most its count, and what is older at most one budget (`SharedSound`). Requests count at
  their INCR. Counted when they are let pass instead, the bound is false, as three workers show: some
  held up before their EXPIRE are all let in together, windows after they were counted.
- `TapsStayInAgreement`: `TapInv` says for each pair of stages of a tap what the request and its
  lookup have found so far (`TapSound`).

### Only model-checked

- Liveness: `BuildSettles`, `RequestsEnd`, `AnswersArrive`, `GatewaysServe` and `ReadingGoesOn`: the prover knows neither fairness nor ENABLED.
- `SenseRulesHold` (folds over suggestions and chains, scores rounded to thousandths) and the first half of
  `ScreensTell` (sums of tallies, sorted sequences). The library's induction theorems take an operator and cannot be
  used; what is proved by induction elsewhere (the sums of `RateLimit`, the filtering in `Grounding`) goes by the least
  number a fact fails for (`LeastNat`), and these two have not been taken that way.
- `MigrationsKeepRows`: a chain of some thirty revisions, each a case of its own; TLC goes through all of them,
  with every row the instance can hold.
- The violations, which are counterexamples.

## 6. Not modelled

- **Template loader, EPUB parser, prompts, schemas, routing, error rendering**: conversions without state. What
  they decide about (a template's parts, a book's text, a provider's answer) is an input of the models.
- **The other two gateways' adapters**: HTTP calls whose outcome is an answer or a failure; the one with a state (the
  latch on structured output) is in `Failover`. The Anthropic adapter has such a latch of its own, which an empty body
  takes off too (it does not ask whether there was one); only the OpenAI-compatible one is modelled.
- **E-mail and SMS**: a call after or inside a request whose failure fails the request (`Account!Abort`).
- **Reports of feedback**: one insert. **Renames** of a deck or a unit, most profile columns: one column written, no decision.
- **Revisions that only add an empty table or column**: objects in `Schema`'s chain only where a later revision touches them.
- **Points for added words, and a change of goal or time zone between requests, in `Study`** (`Overview` has the
  change of zone).
- **Redis losing its keys** (a restart without persistence) in `RateLimit`: every counter then starts anew.
- **An administrator who reads a book before it is published**, in `Books`: her reading position is kept as any reader's is.
- **Concurrency of requests in `Overview`** (see `Study`) and of admins in `DeckBuild`.

## 7. Plan

Done: the modules and runs above, and theorems for every safety property of a run except the three named in section 5.

Next, in this order: a change of goal or zone between requests in `Study`; `SenseRulesHold` by
induction as in `Grounding` (as far as the rounding of scores lets it hold); the steps of `MigrationsKeepRows` that are action properties of single revisions;
a refinement of `Lookup`'s claims by an abstract lock that counts its losses.
