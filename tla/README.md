# Verification of OpenVibe.Trade

TLA+ models of the parts of OpenVibe.Trade that decide something while other parts do, the TLC runs that check
them on small instances, and theorems about them checked by TLAPS. Paths are relative to `src/`, the
repository.

## 1. The system

Trade is one Node.js process on PostgreSQL: an Express application (`server/app.js`, `server/http/`) and, in
the same process, four timers (`server/worker.js`). All state is in tables (`migrations/`); memory holds only
read caches, the promise of the running sync and a few flags.

`store.tx` (`server/db.js`) runs a function in a PostgreSQL transaction at READ COMMITTED; inside it every
statement joins the transaction and a nested `store.tx` is a savepoint. No statement in the repository locks
what it reads (there is no `FOR UPDATE`). Two statements of one transaction may thus see two states of the
database; a row that a transaction wrote is its own until it ends; a second insertion of a key waits for the
first to end. In development the database is PGlite: one connection, transactions one after the other.

| Component | State | Operations | Talks to |
| --- | --- | --- | --- |
| Source freshness, `domain/source-status.js` | `trade_source_status` | `report`, `noteRetrieval`, `evaluate`, `evaluateAll`, `view` | called by observations, documents, facts, the sync, the tick; emits `trade.source.stale`, `trade.source.recovered` |
| Observations, `domain/observations.js` | `trade_market_observations` (immutable) | `record`, `latest`, `history`, `rates`, `staleness` | freshness, alerts, indexing in its transaction; emits `trade.observation.created` |
| Alert rules, `domain/alerts.js` | `trade_alert_rules`, `trade_alert_deliveries` | `create`, `remove`, `onObservation`, `onDocument`, `deliver` | called by observations and documents; emits `trade.alert.triggered` |
| Documents, `domain/documents.js` | `trade_source_documents` | `upsert`, `remove`, lists | freshness, alerts |
| Sources sync, `domain/ingest.js`, `mapping.js`, `scripts/rewind-sync-cursor.js` | `trade_sync_state`, the change cursor, the running promise | `run`, `applyItem`, `registerInstrument`, rewind | OpenVibe.Sources; every domain module above |
| SEC facts, `domain/facts.js`, `clients/sec.js` | `trade_facts_state`, the spacing of calls | `due`, `record`, `companyFacts` | SEC; observations, freshness |
| AI briefs, `domain/briefs.js`, `clients/ai.js` | `trade_ai_briefs` | `due`, `make`, `lastHour` | OpenVibe.AI |
| Market brief, `domain/market-briefs.js` | `trade_market_briefs`, `trade_market_brief_reviews` | `tick`, `make`, `review`, the reads of the home, the page and the sitemap | OpenVibe.AI |
| Context, `domain/context.js` | revisions, reviews, the published revision of an instrument | `create`, `fromAiOutput`, `propose`, `review`, `publish`, `retract` | indexing |
| Search documents, `domain/indexing.js` | `trade_index_revisions` | `decide`, `refresh`, `refreshAll` | the outbox (OpenVibe.Search) |
| Instruments, `domain/instruments.js` | `trade_instruments`, `trade_instrument_aliases` | `create`, `update`, `addAlias`, `resolve` | everyone |
| Watchlists and sharing, `domain/watchlists.js`, `server/sharing.js` | watchlists, items, default sharing | `create`, `add`, `drop`, `remove`, `setDefault`, `forget` | the sharing package |
| Account data, `domain/account-data.js`, `events/consumer.js` | receipts of erasure events | export, erase | alerts, watchlists |
| What is served out of memory, `http/discovery.js`, `http/pages.js`, `http/ttl-cache.js` | a shared build with its time, a bounded cache | `shared`, `get`, `set` | instruments, indexing, documents |
| HTTP, authentication, rendering | none | one domain call each | the domain |

External: OpenVibe.Sources, OpenVibe.AI, SEC, OpenVibe.Search, the event relay, and the packages
`openvibe-sdk` (database, outbox) and `openvibe-publishing` (freshness verdict, change cursor, revisions,
reviews, gate). Their code is not in the repository; what is modelled of them is how the repository uses them,
and is marked external in `PROJECT.json`.

### What is hard in it, and what makes each component correct

- **Freshness.** Ticks, reports and retrievals overlap. Correct: a known success is never forgotten; the
  stored flag follows the clock both ways.
- **Observations.** Feeds retry, replay and race. Correct: one reference is one observation, announced once.
- **Threshold rules.** The rules are read at once, then delivered and written one by one, while other
  recordings do the same. Correct: one delivery per rule and observation, with one event; deliveries are the
  crossings of the series; recordings do not wait for one another for ever.
- **Documents and sync.** A page of changes is one transaction; a crash replays it; a script moves the cursor.
  Correct: replays change nothing, a newer revision wins, removed documents stay hidden, the cursor passes
  nothing without a reason one can name.
- **Facts and briefs.** A timer works through lists of due companies; calls to SEC and OpenVibe.AI take long
  and fail, while filings come, change and go. Correct: budgets hold, the same input makes no second brief in
  a row, numbers without a brief are not lost sight of, and a due company is served unless one is stuck before.
- **Market brief.** One a day, and only reviewed ones are indexable. Correct: the daily cap, and the agreement
  of the queries that decide what is reviewed.
- **Context and Search.** Drafts, reviews and publication are separate requests; Search is told afterwards.
  Correct: no unreviewed AI text is published; Search eventually holds what the gate allows and nothing else.
- **Instruments.** A ticker or a CIK names one instrument, across two tables.
- **Watchlists.** Checks are statements before the change they allow. Correct: limits, additions by those who
  may, nothing that outlives its list or its owner.
- **Memory.** Builds and reads take time while what they read changes. Correct: what is served is recent, the
  cache is bounded, a build that fails leaves nobody waiting.

The hazards of the code, each at its line with the properties that watch it, are in `PROJECT.json`.

## 2. Plan

In the order of their weight, all done:

1. `Freshness`, `SourceStatus`, `SourceStatusProofs`: the status row and its transactions.
2. `Recording`, with `Crossing` as what its rules promise, and `RecordingProofs`.
3. `Ingest`, with `DocumentLife` as what it promises of a document, and `IngestProofs`.
4. `Briefs`, with its half of `AiBriefsProofs`: SEC's facts, the briefs, the worker's tick and the readers.
5. `Publication` and `PublicationProofs`: context, reviews, and what readers and Search see.
6. `Drafts` and `DraftsProofs`: how a revision is written, before `Publication` takes it.
7. `Registry` and `RegistryProofs`: a ticker, a CIK or a name names an instrument, across two tables.
8. `MarketBriefs`, with the other half of `AiBriefsProofs`: one brief a day, its reviews, and who is shown it.
9. `Watchlists`: limits, sharing, removal and erasure.
10. `Serving`: what is served out of the process's memory.
11. `ReadersProofs`, about the last two.

Left, should the project go on: a module that composes `Ingest` with `Recording` for the order of their row
locks (a page of the sync holds the rows of many sources until it commits, a recording those of one); the
spacing of calls to SEC (`clients/sec.js`); `facts.extract` and `mapping.mapItem` as pure functions against a
reference definition.

## 3. The modules

| Module | Models | Extends |
| --- | --- | --- |
| `Freshness` | the status row and the rules on it | |
| `SourceStatus` | `domain/source-status.js`, the tick | `Freshness` |
| `Recording` | `observations.record`, `alerts.js` (threshold rules) | `Freshness` |
| `Crossing` | what a threshold rule promises; `Recording` implements it | |
| `Ingest` | `domain/ingest.js`, `documents.js`, `alerts.onDocument`, the rewind script | |
| `DocumentLife` | what the sync promises of a document; `Ingest` implements it | |
| `Briefs` | `facts.js`, `briefs.js`, `clients/sec.js`, `briefsTick`, readers | |
| `Publication` | `context.js` from review on, `indexing.js`, updates of an instrument, the tick | |
| `Drafts` | `context.js` up to the saved revision, the editor's form and the API | |
| `Registry` | `instruments.js`, `registerInstrument` and the currencies of `ingest.js`, the keys of `mapping.js` | |
| `MarketBriefs` | `market-briefs.js`, its tick, its readers | |
| `Watchlists` | `watchlists.js`, `sharing.js`, `account-data.js`, the consumer of account events | |
| `Serving` | `discovery.js` (`shared`), the `/filings` cache, `ttl-cache.js` | |
| `MCRecording`, `MCIngest`, `MCWatchlists`, `MCServing` | instances for TLC | the module they name |
| the eight `...Proofs` of section 5 | the theorems | the modules they are about |

**`Freshness`** has no variables: the status row and the pure rules on it. `Row` keeps the columns that are
decided on (`last_success_at`, `stale_after_sec`, `stale`, `evaluated_at` as a Boolean); `Never` (0) is their
NULL. `Ensure`, `Forward`, `Reported` and `Marked` are the four statements that write the row, `StaleAt` the
verdict of the ingest chassis, `Emission` the decision at the end of `evaluate`.

**`SourceStatus`** runs them in transactions with two visible steps. The first is the transaction's own
UPDATE, which takes the row lock, then the unlocked SELECT and the verdict; the second is `mark`, which waits
for the lock, and the commit. Between them the row may change under a transaction that did not write before it
read. `Tick` is one source's evaluation by `evaluateAll` (each in a transaction of its own), `NoteRetrieval`
and `Report` the two others; `Abort` is any failure or crash. `Pool` bounds the open transactions: 1 is
PGlite, the run has 2.

**`Recording`** is `observations.record` with all its transaction does, by its visible steps: SELECT by
reference (`Begin`), INSERT (`Insert`, which waits for and yields to the same reference), `noteRetrieval` up
to the verdict (`NoteRetrieval`) and `mark` (`MarkSource`), the SELECT of the rules (`EvaluateRules`), then
`deliver` and `setState` of one rule after the other (`WriteRule`, which waits for the row of the rule whose
turn it is; the SELECT has no order, so any may be next), commit (`Commit`). What others see before the commit
is only locks, so the locks are what the other steps' guards read and the data changes at `Commit`. `WaitsFor`
says who waits for whom; of a `Circle` PostgreSQL aborts one (`BreakCircle`). `CountRules` and `InsertRule`
are the two halves of `alerts.create`, `RemoveRule` is `alerts.remove`. Several sources may state one series,
as ECB and Frankfurter state rates. Abstractions: an observation is the input it was made from; a series is
instrument, metric and unit; the instrument is active; a transaction records one observation; the Search
document refreshed last is in `Publication` and feeds nothing back.

**`Crossing`** is what a threshold rule promises its owner, as a specification of its own: a rule looks at
ever newer observations, fires on one that meets its condition while armed, and re-arms on one that does not.

**`Ingest`** has Sources' items in the order of their last change (`feed`, `Publish`, `Withdraw`), and the run
that reads them: `Start` (the timer or a webhook; a call during a run shares it), `ReadPage`, `ApplyItem` or
`FailItem` per item under its savepoint, `CommitPage`, `EndRun`; `FailRun` is a failure or a crash in any of
these states. A page works on a copy (`run.work`) that the commit makes the tables; rules and instruments are
read as they are when the item is applied, for they may change while a page is open: `Rekey` gives a CIK to
an instrument, to another one, or to none. An item whose document belongs to another instrument (`Fits`) leaves
it as it is, and counts as applied. `Rewind` is the script, which sets the cursor back or ahead, whatever a run
is doing. Two histories say what the cursor passed for a reason: `missed`, the items that were skipped (no
active instrument), threw, or met another instrument's document; `unread`, the changes the script moved it
over. Abstractions: observation items are `Recording`'s, health reports `SourceStatus`'s; the cursor and the
pull loop are openvibe-publishing's, modelled from how `runOnce` uses them.

**`DocumentLife`** is what the header of `documents.js` promises: a document follows newer revisions, rules
hear of it once, when it is first seen, and hidden it stays.

**`Briefs`** has one record per caller (the worker, each reader) with the call it has open, a step per
statement that others may come before: `Fetch` or `FetchFails`, `RecordSome`, `RecordRest`, `SaveFacts`
(`facts.record`; an observation may throw, `RecordThrows`, with the numbers half recorded), then `ReadInputs`,
`ReadLast`, `RefuseBudget` or `AskAi`, `StoreBrief` or `RefuseText` (`briefs.make`). What a call read stays with
it. `StartTick`, `TakeNext`, `FactsDone` and `TickDone` are `briefsTick` with its two lists; what
`facts.record` throws ends the whole tick (`Thrown`), a spent budget the list of briefs. `WriteBrief` is a
reader's request; `ProcessRestarts` ends every open call. SEC's numbers come in versions, each recorded in two
halves. A filing has what a brief's hash takes of it (`text`: id, form type, date, accession) and when it was
retrieved: `File` adds one, `Revise` retrieves it again with or without another text, `Remove` takes it off, so
that a brief's inputs may return. Every stamp is a time of its own, so the lists are totally ordered;
`HourPasses` lets the oldest brief leave the budget's hour. `inputsFor` reads the numbers and the filings in
two statements, here in one step; its limits (50 sources, 8 values of a series) are left out. `Brief.began`
and `grown` are histories: when a brief's inputs were read, and when numbers last grew.

**`Publication`** is one instrument: its context revisions and reviews, its status, the price's age, and what
Search was told last (`held`; `indexed` is whether it was ever told anything). `work` is what each request and
the tick has in hand: a review it inserted (`Approve`), a revision it checked (`CheckPublish`,
`CheckApproved`), an instrument row it read or updated (`Load`, `SetStatus`), an open transaction that decided
and built its document (`OpenWrite`, `OpenPublish`, `Reject`, `Retract`, `OpenRecord`, `OpenRefresh`, `Tick`),
which `Finish` commits and `Abort` undoes. An UPDATE of the instrument takes its row lock (`RowFree`); the
refreshes of recordings, updates and the tick take none and may build a document from a row that is no longer
true. Abstractions: a revision and a document are numbers; name, aliases and provenance are refreshed with
them; the sequencer compares and stamps at commit.

**`Drafts`** is what precedes that: one record per writer of one instrument's context. The editor's page lists
the revisions and then reads the newest, which its form names (`ReadHead`: one saved between the two is named
and not shown). A request arrives (`SubmitText` from the form or the API, with any ids and naming any revision
or none; `Deliver` from OpenVibe.AI), its citations are looked up one after the other (`Resolve`; those of a
model twice, first the sources it was given), then dated (`Date`), and the transaction of `create` saves it on
the newest revision, unless the request named another (`Save`). `StateTime` and `Hide` are ingest under way
between any two of these reads. `barred` is a history: what was hidden already when a request arrived. The
time of a document is what `asOf` takes of it: `published_at`, or `retrieved_at` where there is none. The
checks of the text (length, advice, the citations of a model's points) are one refusal, `GiveUp`.
`Publication` takes the saved revision from there: the two meet in `revs`, which neither ever changes but by
adding to it.

**`Registry`** has the instruments by symbol and the three kinds of alias. Every writer looks across both
tables without a lock and writes in a later statement, hence two steps each: `Create`, `AddTicker`, `AddCik`
of an editor and the branches of `Register` for the sync decide, `Write` and `GiveCik` write what was decided,
where the unique indexes of each table, and `ON CONFLICT DO NOTHING`, have the last word. `Edit` is `update`,
whose old CIK stays as an alias. What is decided may come to nothing (`Drop`): refused by an index, or failing
otherwise, in which case the sync's item is undone under its savepoint and the cursor passes it. `Items` is
what an item of the feed may state once `mapping.js` has read it: a listing with ticker, CIK and name, or a
rate with its currency. `company` is a history: the company of SEC's list an instrument was made for.
Archiving is in `Publication`.

**`MarketBriefs`** is a brief per UTC day. `Start` is `make` up to its first `await` (no brief for the day
`now` is in); `Ask` counts a call of OpenVibe.AI, whose answer `Store` keeps under the day of the start,
unless the key is taken, or `Refuse` drops. The timer does not wait for the last tick, and one comes five
seconds after every start, so several `Ticks` may be under way; `Restart` ends them. `CheckReview` and
`RecordReview` are the two statements of `review`. The readers' queries (`HomeShows`, `Page`, `Indexable`,
`Sitemap`, `Queue`, `Unreviewed`) are operators, as the source has them, one by one; `Listed` is the sitemap's
limit. A review keeps, as a history, how many there were when its editor looked.

**`Watchlists`** is one owner's lists, a friend or several, and the requests under way. A step is one
statement or one transaction: `Create`, `InsertList`, `ReadDefault`, `Register` make a list and its share row;
`Add`, `CountItems`, `InsertItem` add to it; `Remove` and `Erase` are transactions; `SetDefault` and
`ApplyAll` two statements. `Fail` is an error or the end of the process between any two. The share rows and
members are openvibe-sdk's, modelled from how `sharing.js` uses them. `granted` and `raced` are histories.

**`Serving`** has a build that requests share (`discovery.js`) and a cache with a bound (`ttl-cache.js`), both
stamped when the reads behind them end, while pages enter and leave the index and the clock goes on. An answer
out of memory changes nothing and is no step: the properties say what may be answered in every state.

## 4. The runs

| Run | Question | Answer |
| --- | --- | --- |
| `status_concurrent` | What survives of the freshness rules under concurrent transactions? | Successes are never forgotten, data ages out on the tick alone and recovers. |
| `recording` | A price of one source and a rate of two: exactly once, and deliveries on crossings? | Exactly once; on crossings for the rules on the price, whatever the rule on the rate does. |
| `recording_waits` | Two sources of one rate and two rules on it: who waits for whom in a circle, and does every recording end? | Only recordings that update the rules of such a series; yes. |
| `ingest` | Do documents and the cursor survive failures, crashes, replays, a cursor that is moved, and rules and instruments that come and go? | Yes; and every change is on record in the end, or was skipped, failed by itself, met another instrument's document, or was passed by the script. |
| `briefs_worker` | With room for one company of two: does the worker write a second brief of one input, and a brief of all new numbers? | No; yes, unless another company is stuck before. |
| `briefs_readers` | What do readers beside the worker change? | Two callers at once may write one input twice and exceed the budget by one brief per caller but the first; numbers recorded while a brief is written count as briefed; nothing else. |
| `publication` | Can AI text nobody approved reach readers or Search? Does Search end up with what the page allows? | No; yes, for an active instrument. |
| `drafts` | Do revisions cite what was already gone, or claim a date their sources do not have, whatever ids are sent? | No. |
| `registry` | Do editors and the sync lose a key, or give a company two instruments? | No. |
| `market_briefs` | What can overlapping ticks, restarts, midnight and two editors do to the brief of a day? | Cost a call per tick at once or lost; no brief of another day, no decision on another text; the readers' queries disagree only about a brief that was decided on twice at once. |
| `watchlists` | What can two requests at once do to limits, sharing, removal and erasure? | Pass a limit by one; leave rows of a list removed under them; nothing else. |
| `serving` | How old may an answer out of memory be, and can a failed build or a burst of keys hurt? | Its time to live and one read; no. |

**Where the code does otherwise than it says.** Met while modelling; each is a behaviour of the models above,
which is why the properties there are stated as they are:

- `source-status.js:57` (its header, and `worker.js:9`: transitions only): two evaluations that read one row
  both announce its transition. `SourceStatus` reaches two equal announcements in a row.
- `alerts.js:136` (header: a rule fires on a crossing): two sources that state one series, as ECB and
  Frankfurter do, both read an armed rule, and both fire it; the one that commits last may set it back to an
  older observation. `FiresOnCrossings` and `EvaluationMovesForward` are about the rules whose series one source
  states, beside the others. Only such recordings wait in a circle, of which PostgreSQL aborts one.
- `alerts.js:139` (`README.md:110`: late observations never fire): lateness is judged against what the rule
  itself evaluated last, so a new rule may fire on an observation older than what was on record when it was
  made.
- `rewind-sync-cursor.js:52` (its header: "move Trade's Sources change cursor back"): `--to` may be ahead of
  the cursor, and what it passes is not read until somebody moves the cursor back.
- `documents.js:65`: an item whose document belongs to another instrument changes nothing and counts as
  applied (`documents_unchanged`), so a removal, a revision or a new holder of its CIK may stay off the record.
- `instruments.js:79`, `indexing.js:22`: the Search document of an instrument that is archived stays when the
  process dies between the update and the refresh, for the tick looks at active instruments only.
  `SearchFollows` is about active ones.
- `briefs.js:48` (`worker.js:13`: new numbers get their brief): a report that is retrieved again makes its
  company due though its brief is current. No brief is stored, so it stays due, and with less room than due
  companies it keeps its place for ever: `Stuck`, the one excuse of `NewNumbersBriefed`.
- `briefs.js:166`: numbers that are recorded while a brief is being written count as briefed.
- `briefs.js:111` (header: "the same numbers and filings make no second brief"): the hash is compared with the
  last brief only. Two callers at once both find the inputs new; and inputs that return, because a filing was
  removed again, make a second brief of the older hash. `OncePerInput` is about two briefs in a row.
- `facts.js:164` (`facts.js:117`: errors are "never thrown into the caller's loop"): an observation that fails
  with anything but a 409 or a 422 is thrown, and ends the worker's tick before its briefs.
- `facts.js:167`: a report filed between SEC's answer and the saving of the read counts as read.
- `instruments.js:20` ("a ticker or CIK names exactly one instrument"): one may be the column of one
  instrument and the alias of another (an old CIK keeps its alias when another instrument gets it; a creation
  and an alias that both looked first). `resolve` answers with the column. `GiveCik` may overwrite a CIK an
  editor gave since it looked, and the editor's form, sent with the field empty, clears one the sync gave.
  `NeverLost` and `OnePerCompany` are what remains true.
- `market-briefs.js:17` ("never makes a second AI call that day"): after a refusal, a restart or an overlap it
  does; `CallsBounded` says how often. `latestReviewed` picks the newest brief ever approved, and shows
  nothing on the home page when that one was rejected since, though an older one is approved; the sitemap
  lists it though its page is gone. Only two editors deciding at once can bring this about (`ReadersAgree`).
- Watchlists: a list made while "apply to all" runs may keep the old audience; of two taps at once the second
  may be told the name is taken, and its instrument is not added; `public` is accepted as a default though the
  sheet offers no Everyone (`sharing.js:22`); `reviewer` of `trade_market_brief_reviews` is in no table of
  `account-data.js`.
- Drafts: the form lists the revisions before it reads the newest (`editor.js:70`, `:74`), so the head it
  names may be newer than the list it shows, and a text written without having seen it is saved on it
  (`editor.js:106`: "Someone saved a newer revision while you were writing"); a citation hidden between its
  look-up and the save is stored, and shown as missing; a delivery of OpenVibe.AI that is retried makes a second
  draft; `as_of` may be when a document was retrieved (`context.js:69`), which it does not state.
- `market-briefs.js:311`, `discovery.js:194`: the sitemap lists the newest 100 approvals, not every page that
  may be indexed.

**Bounds.** Two sessions are enough for every race of `SourceStatus`, `Recording` and `Publication`, each of
which is between two transactions, or two and the tick: a third session only waits for a lock or repeats what
the second does. `MaxTime` leaves room for a source to go stale and recover (windows 1 and 2, times 1 to 3)
and for rules made before, between and after the observations. `recording`: the price contains a crossing, the
way back and a second crossing, the smallest stream in which firing on a level differs from firing on a
crossing; the rate of two sources is beside it, with a rule each; the sessions are alike (`SYMMETRY`, in a run
without liveness). `recording_waits`: two rules, the least that two recordings can lock in opposite orders, on
opposite sides of one threshold, so that every observation writes both. `Ingest`: `MaxSeq` 3 is two items and
a revision or a removal of one of them, or three changes of one item; `PageSize` 2 with `MaxPages` 1 gives
pages of several items and runs that leave something behind; two instruments that hold one CIK in turn;
`MaxIncidents` 1 is one crash, failed run or move of the cursor anywhere. `Briefs`, worker: two companies with
room for one, the least for one to be before the other; one of them may have been read before; `MaxReports` 2
is a report of each, or one that is filed, then retrieved again, revised or removed. `Briefs`, readers: one
company, which is what its properties are about; `MaxEvents` 3 is a reader who asks
twice about one report, or once while two reports come.
`Publication`: one revision of either kind and two reviews are an approval against a rejection in both orders;
republication and retraction of the revision are unbounded. (With two revisions and one review, so that one
context replaces another under way, the properties hold as well: 760,205 states, three minutes.) `Drafts`: a
person and a model, one document and one observation, and two times: a document may be revised or hidden at
any point. One revision is enough for what the two properties say of each by itself. `Registry`: two tickers,
two CIKs and one name, so that a company may change either key and meet an instrument that has it; one
editor's request beside the sync (both are processes of the same shape). `MarketBriefs`: two days are one
midnight; three calls let a call be lost between two others; three reviews are two on one brief and one on the
next; a sitemap of one (`Listed`) is cut by the second. `Watchlists`: a limit of one list and one instrument
with two lists and three instruments, so that an addition can pass it. Two ids of lists can never exceed the
bound `LimitsBounded` allows two requests; its half about lists says something only with more, its half about
instruments has three. `Serving`: three keys for a cache of two, a read that takes as long as the times to
live. The theorems have none of these bounds.

`CHECK_DEADLOCK FALSE` in the `Recording`, `Ingest`, `MarketBriefs` and `Watchlists` runs: with every bound
reached (the clock, the inputs recorded, the rules deleted; changes and incidents used up with a failing page
not allowed to fail again; the last day's brief made and reviewed; the account erased) nothing may be left to
do.

**Fairness.** `SourceStatus`: the tick is a `setInterval` and comes back for ever; an open transaction ends
when it is not failed every time, hence strong fairness of `Finish` (it may wait for a lock again and again).
Requests and the clock have no fairness. `Recording`: a statement runs once its locks are free and PostgreSQL
queues those who wait for a lock, so nobody is overtaken for ever: strong fairness of each session's own
steps, and weak fairness of `BreakCircle`, PostgreSQL's detector. `Ingest`: weak fairness of the run's steps
together: the timer starts a run again, a run goes on; that an item fails is one of these steps, that a run
fails is not, and happens at most `MaxIncidents` times. `Briefs`: the timer and the process go on (weak
fairness of the tick and the worker's calls together), hours pass, recording does not throw every time (strong
fairness of `RecordSome` and `RecordRest` of the worker) and OpenVibe.AI does not refuse every time (strong
fairness of its `StoreBrief`); readers owe nothing, and SEC may fail for ever, which the property allows for.
`Publication`: the tick comes back and is not rolled back every time, a route that updated its row goes on to
refresh it unless it is cut off, a session's transaction ends. `Registry` has none: its properties are safety.
People, failures and the clock owe nothing.

## 5. The proofs

Every theorem holds for all values of the constants that satisfy the named assumptions of its module, and
assumes nothing beyond them. Every invariant and every action property of the runs is the statement of a
theorem. `AiBriefsProofs` and `ReadersProofs` are about two modules each, which have no name in common.

`SourceStatusProofs`, from `SourceStatusAssumption` and `DefaultWindowAssumption`:

- `TypeCorrect`: `TypeOK` is inductive with the fact that an open transaction has a source.
- `NeverForgets`: a transaction that commits a row it did not lock writes nothing of `last_success_at`; one
  that does holds the lock since it read the row. The invariant says that a held row is no older than the
  committed one.

`RecordingProofs`, from `RecordingAssumption` (the constants are of the right kind; `None` is neither an input
nor a rule) and `DefaultWindowAssumption`:

- `TypeCorrect`: `TypeOK`, with the fact that an open recording has its input, is inductive by itself.
- `LocksExclude`: `Exclusive` is inductive under `TypeOK`. It says what the locks are for: two open recordings
  never have one reference, nor one that is on record; at most one has written a source's row; and it has it
  from `mark` on.
- `RecordedExactlyOnce`: `ExactlyOnce` needs `Exclusive`: only because no other observation has the reference of
  an open recording does its commit add a new row and announce it for the first time.
- `RetrievalsCounted` and `SuccessesKept` (`RetrievalsKept`, `SourcesForward`, stated in the proofs alone) are
  what a recording owes to the freshness of its source: the status row is as late as the retrieval of each
  observation on record, and never goes back. `noteRetrieval` takes the row's lock only when the retrieval is
  news, so `SourceInv` has two cases: who holds the row carries one no older than the committed one and than its
  own retrieval; who does not found a committed row that has it, and that row only moves forward.
- `NoCircleOfOneSource` (`CirclesOfSeveralSources`): a reference is waited for before the source's row and the
  row before the rules, by one who holds nothing of the later kinds, so a circle is among recordings that update
  rules; of two that update one rule the series is the same, and two of one source exclude each other by its row
  (`SourceExclusive`).
- `RulesMoveForward` and `DeliversOnCrossings` are about `OfOneSource`, the rules whose series one source
  states, in a system in which other rules have several: two sources that read one armed rule would both fire
  it. The invariant is `EvaluationStable`: what an open recording decided about those rules is still what the
  committed rules call for. It holds because whoever else could move a rule of the series would have to hold
  the same source's row (`SourceExclusive`), taken one statement before the rules are read. From it each
  commit is a step of `Crossing` in which the rules it looked at look and the others keep.

`PublicationProofs`, from `PublicationAssumption`:

- `TypeCorrect`, `ReadersProtected` and `SearchProtected` (`TypeOK`, `ReadersSeeReviewed`,
  `SearchHoldsReviewed`) follow from `VouchInv`. The two properties are about what is committed and are not
  inductive: a request carries a revision through several steps before it writes it. `VouchInv` says of each
  step what it carries: a checked revision, the revision of a row it read, the one it will write and the one
  it will send are a person's or have an approval, committed or about to be committed with them. It lasts
  because revisions and reviews are only ever added.

`IngestProofs`, from `IngestAssumption` (items are finitely many, a page has at least one):

- `TypeCorrect`, `CursorNeverPasses`, `RulesTold` and `ImplementsLife` (`TypeOK`, `CursorCovers`,
  `EveryRuleTold`, `FollowsLife`) follow from `SyncInv`. A page works on a copy for many steps, during which
  Sources, the rules, the instruments and even the cursor change, so `PageOk` relates the copy to the
  committed tables and to the feed: each change still to do is its item's last, unless the item changed after
  the page; each item occurs once; every item up to the page's end is settled, missed, passed by the script or
  still to do; each document has made at most one step of its life; no rule that was there is untold.
  `AnswerFacts` is where the size of a page comes in: what Sources answers is closed downwards, so the cursor
  may go to its last change. A commit turns `PageOk` with nothing to do into `CursorCovers`, which is then
  about the page's cursor and what was unread when the page was read. `AheadUnread` covers a cursor ahead of
  Sources: the changes to come below it are not read.
- `ImplementsLife` maps the committed documents and deliveries to `DocumentLife`: no step but a commit moves
  them, and a commit moves each document by a step of its life or not at all.

`DraftsProofs`, from `DraftsAssumption`:

- `TypeCorrect`, `CitesStand` and `DatedBySources` (`TypeOK`, `MissingSinceWritten`, `AsOfItsSources`) follow
  from `DraftInv`. It says of a request what it has looked up so far: the citations it resolved are on record
  and were not hidden when it arrived, and its date is that of the citations it dated. That lasts although the
  reads are apart, for documents are hidden for good, keep a time once they have one, and only gain times
  (`SourcesGrow`).

`RegistryProofs`, from `RegistryAssumption`:

- `TypeCorrect`, `CompaniesOnce` and `KeysKept` (`TypeOK`, `OnePerCompany`, `NeverLost`) follow from
  `RegistryInv`, which says that every CIK an instrument has, or was created for, is an alias of some
  instrument, whatever its column holds by now, and that the company the sync is about to insert has no
  instrument of the list: nobody but the sync, which does one item at a time, makes one. `KeysKept` rests on
  aliases that are only ever added.

`AiBriefsProofs`, about `MarketBriefs` from `MarketBriefsAssumption` (ticks are finitely many):

- `TypeCorrect`, `DatedRight`, `TextReviewed` and `CallsLimited` (`TypeOK`, `DayOfItsRows`,
  `ReviewsOfTheText`, `CallsBounded`) follow from `BriefInv`. `CallsAccounted` is its core: every call is
  lost, awaited or led to the brief; once there is a brief nobody starts to look, so those that are looking or
  awaited then and the one that stored it are different ticks, which bounds the calls by their number.
- `ReadersSafe` (`ReadersAgree`) compares the queries themselves, which are written in different ways: the
  newest decision, some approval, no rejection, the newest day of those, the newest approvals up to a limit.
  `ReviewsTold` says that whoever decided second on a brief had looked before the first decision, so a brief
  with an approval may be indexed or was decided on twice at once (`ApprovedOrAtOnce`); `PickedListed` that the
  newest of them is within the sitemap's limit, whatever it is.

and about `Briefs` from `BriefsAssumption`:

- `BriefsTypeCorrect` (`BriefsTypeOK`) follows from `ListInv`. The lists of a tick are `ORDER BY ... LIMIT`, so
  that they are as long as they may be rests on stamps that differ (`StampsDiffer`): `FirstOfSize` is about the
  first n of a totally ordered set.
- `BudgetSafe` (`BudgetBounded`): the property counts the briefs being written together with those of the hour,
  and is inductive as it stands under `BriefsTypeOK`: storing a brief moves one from the former to the latter,
  and whoever passes the check found room in the hour and is not among those who write.
- `OncePerInputSafe` and `NewNumbersSafe` (`OncePerInput`, `NewNumbersDue`) follow from `WrittenInv`, for any
  readers. It says what a call carries through its reads: inputs read at a time have the numbers on record
  then, which are today's unless these grew since (`ReadAtTime`); and from the comparison on (`Compared`) the
  last brief has other inputs, or was stored after they were read (`NewInput`). The inputs themselves have no
  order: filings come and go. `GrowthOnly` and `PreparedFrom` say what a step may do to either.

`ReadersProofs`, about `Watchlists` from `WatchlistsAssumption`:

- `TypeCorrect`, `LimitsSafe`, `NothingLeft` and `EditsSafe` (`TypeOK`, `LimitsBounded`, `NothingOutlives`,
  `EditsAreGranted`) follow from `ListsInv`. A limit is counted one step before the insertion, so the bound
  is not inductive; `Counted` adds to what is there the requests that counted room and have yet to insert
  (`Naming`, `Fitting`): one of them counted below the limit, the others are fewer than the requests.
  `WorkOnKept` says that, but for the lists that went under a request (`raced`), whoever works on a list works
  on one that is there, and one that is not has nothing left; `EditorsGranted` that the members, and whoever a
  request adds for, are the owner or were given Can edit before.

and about `Serving` from `ServingAssumption` and `NothingAssumption` (the value for "nothing" is no key, no
list and no build):

- `ServingTypeCorrect`, `ServedSafe`, `CacheSafe` and `ForgottenSafe` (`ServingTypeOK`, `ServedIsRecent`,
  `CacheBounded`, `NobodyForgotten`) follow from `ServingInv`. What is served is stamped when its read ended,
  so the age of a read under way is part of the invariant (`BuildRecent`, `ReadsRecent`): it is at most
  `Slow`, and a page a build names is in the index or left it no earlier than the build began. `ListRecent` and
  `EntriesRecent` carry this over to what is kept. That `Put` keeps the bound, one entry for a key and the
  order of writing are lemmas about the entries with one removed and one appended.

Checked by TLC only: liveness (`AgesOut`, `Recovers`, `RecordingEnds`, `CatchesUp`, `NewNumbersBriefed`,
`SearchFollows`), which is out of the prover's reach: it needs fairness and `ENABLED`.

## 6. Not modelled

Validation of requests, authentication, rendering, agent pages and configuration: they hold no state of their
own, and what a route does in several steps is in the module of its component. The relay of the outbox and the
packages, which are not in the repository. The reads of observations (`latest`, `history`, `rates`,
`staleness`), the export of an account and the lists of rules, which change nothing. Of what is modelled:
text, names, notes, license terms, ids, the event payloads, statistics and `stale_since`, which are shown and
never decided on; what `facts.extract` and `mapping.mapItem` take from a document, beyond the keys in
`Registry`; the spacing of calls to SEC. The order of row locks between a page of the sync and a recording: a
cycle is broken by PostgreSQL, and both models have the abort. Transfers of a list and requests for access to
it, which are openvibe-sdk's.
