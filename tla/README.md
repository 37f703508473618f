# TLA+ development of the payment reconciliation service

This directory models the service in `src/app` (a FastAPI application over one
SQLite database) and `src/scripts/seed.py`, checks the models with TLC and proves
the central results with TLAPS. Line numbers refer to the files under `src/`.

## 1. The system

Upstream systems POST lifecycle events (`payment_initiated`, `payment_processed`,
`payment_failed`, `settled`). The service stores each event once in an append-only
log and folds it, in the same database transaction, into one row per payment.
Operators read lists and two reconciliation reports computed from those rows.

| Component | State it keeps | Operations | What makes it correct |
|---|---|---|---|
| Ingestion: `ingest.py`, `routers/events.py` | a batch in flight, the SQLite write lock | `POST /events`: validate sizes, BEGIN IMMEDIATE, look up / insert / upsert / bump per event, COMMIT or ROLLBACK, answer | each event id stored once; whole batches or nothing; the answer is true of the database; the lock is always released |
| Projection: `schema.sql`, the upserts of `ingest.py` | tables `events`, `transactions`, `merchants`; generated columns `status`, `payment_status`, `settlement_status` | first-timestamp fold, sticky contradiction flags, counters | rows are a function of the set of events, not of their order or repetition; status moves one way |
| Reports: `queries.py`, `routers/reconciliation.py` | none | summary (totals, groups), discrepancy report | parts agree with each other; every definition of a discrepancy agrees |
| Detail page: `routers/transactions.py` | none | row, events, recomputed discrepancies | the history explains the row |
| Paged lists: `/transactions`, `/events`, discrepancies, summary groups | none (the client keeps the offset) | count, rows, `has_more` | a walk sees each row once |
| Start-up: `main.py`, `scripts/seed.py` | chunk position of a load | create the schema, seed an empty database, seeder process | the service comes up; loads may be repeated, interrupted, concurrent |
| Connections: `db.py` | per-request connections; one shared `:memory:` connection and its open transaction | connect, configure, close | readers see committed data; on a shared connection nobody undoes or closes what others use |
| Timestamps, money: `timeutils.py` | none | parse, format, round, range bounds | text order is time order; a window is exact; rounding happens once |
| Meta: `routers/meta.py` | none | `/health`, `/merchants` | nothing stored is missing from either |
| Schemas, errors, configuration | none | field checks, envelopes, environment | (no state) |

Interactions. Handlers are synchronous functions in a thread pool, one connection
per request. The only shared state is the database file and its single write lock.
Every statement outside `ingest_events` runs in autocommit mode, so a report of
three SELECTs sees up to three different databases. The seeder is a second process
on the same file. The process may be killed at any point.

Behaviours that are hard to test: two writers with the same ids; an id twice in one
batch; late and conflicting events; a redelivery that names another transaction; a
failure in the middle of a batch; lost answers and retries; a batch that commits
between two SELECTs or two pages; a kill between two seed chunks; a seeder next to a
booting service. `PROJECT.json` lists them line by line with the properties that
watch them.

## 2. Modules

    Ledger --+-- Batch --+-- Ingest ---- MCIngest, IngestProofs
             |           +-- Boot ------ MCBoot, BootProofs
             |           |
             |           +--+ Readers -- MCReaders, ReadersProofs
             +-- Reports ---+ Paging --- MCPaging, PagingProofs
             |
             +-- SharedConnection ------ MCSharedConnection, SharedConnectionProofs
             +-- Replicas -------------- MCReplicas, ReplicasProofs
    Timestamps ------------------------- MCTimestamps, TimestampsProofs
    EventLog <- refined by Ingest and by SharedConnection
    Collections: sums and filtered lists, for Reports, Paging and Boot

`LedgerProofs` holds the lemmas every other proof module uses, about one statement of
ingestion, a whole batch, and sums and lists of any length; the others are one per
component. `TimestampsProofs` stands alone.

* **Ledger** - the database as data, no state machine. Keyed tables are functions,
  `events` is a sequence in rowid order. `FoldTime`, `Flag`, `FoldTxn`, `ApplyNew`,
  `ApplyReplay` are the statements of `ingest.py:36-101,149-189`; `Status`,
  `PaymentStatus`, `SettlementStatus` the generated columns (`schema.sql:67-95`).
  `ProjectionOfLog` and `KeysHold` say independently what a right database is.
  Timestamps are naturals, which **Timestamps** justifies; an amount is counted in tenths of a minor unit, the one
  digit `ROUND_HALF_UP` looks at; names are model values, with `""` for a blank one.
* **Ingest** - `POST /events` by pool threads. `req[w]` is the request of thread w,
  `lock` the write lock, `draft` the uncommitted database of its holder, `replies`
  the answers clients hold. Actions: `Receive` (with the 413 and 422 refusals before any
  database access; one invalid event refuses its whole batch), `BeginImmediate`, `BusyTimeout` (the error of a BEGIN that waited too long,
  raised *outside* the `try`), `StoreEvent`, `AbsorbReplay` (one loop iteration each),
  `Commit`, `Rollback` (any statement raising), `Respond`, `LoseReply`, `Crash`.
* **EventLog** - what ingestion promises: a log and a count of redeliveries, batches
  taken whole. `Ingest!Promise` is the refinement mapping.
* **Replicas** - several databases fed the same events in different orders with
  redeliveries, to state the order independence `schema.sql:14-19` claims.
* **SharedConnection** - `POST /events` when the database is `:memory:` and all
  threads have one connection (`db.py:39-49`). `image` is what the connection sees,
  `undo` what a ROLLBACK brings back. A transaction belongs to the connection: a
  second BEGIN fails, outside the `try` (`BeginFails`); readers see `image`. Each
  statement of the loop is a step of its own and may raise. The answer to a request
  is its end; `failed` remembers the requests that ended in a 500.
* **Batch** - a committed batch as one step, for the modules below; justified by
  `CommitsAreBatches`, which is proved of the statement-level model (`CommitsWhole`).
* **Reports** - `queries.py` as operators over a snapshot: filters with SQL NULL
  comparison, metrics, groups, and the three definitions of a discrepancy
  (`HasDiscrepancy`, `FlagColumns`, `DetailTypes`).
* **Readers** - summary, discrepancy report, detail page, `/merchants` and `/health` as
  sequences of SELECTs (`Statements`), with `CommitBatch` between any two. The last
  SELECT of a summary and of a discrepancy report is a page (`queries.py:349,455`):
  `Pages` are the subsets of as many rows as LIMIT and OFFSET leave; which of them the
  ORDER BY picks is left open here, as **Paging** has the orders. The severity filter
  comes after the page. A summary asked for by no dimension ends after its totals; one
  by an unknown or repeated dimension is refused.
* **Paging** - the four paged lists with their ORDER BY clauses, LIMIT/OFFSET and
  `has_more`; a client walks while batches commit and `clock` advances (`Tick`). Each page
  of a discrepancy walk has its cutoff resolved when its handler runs (`Resolve`,
  `reconciliation.py:166-172`): from `as_of` where the request has one, from the clock
  where it has none, which is the default. The walker advances by `limit`,
  as the tests do (`tests/test_sample_data.py:89-98`). A client that advanced by
  `returned` would never leave a page that a severity filter has emptied.
* **Timestamps** - `timeutils.py` and its callers on a scaled-down calendar: a text is
  the sequence of its fields and deciding separators, compared lexicographically, the
  true order is that of instants. `Post` normalises and stores, `List` resolves a
  window (`_resolve_window`, and GET /events, which accepts a reversed one), `Report`
  computes the staleness cutoff. Years below `10` stand for those below 1000, which
  `strftime` writes short; instants outside the calendar raise `OverflowError`,
  which nobody turns into a 422.
* **Boot** - `lifespan`, `_seed_if_empty` and `scripts/seed.py`, a chunk per step.
* **Collections** - `SumOver`, what SQL's SUM does with a column, and `Within`, what a
  filter does with a list.

Operators named `X_Word` next to an operator `X` are fault variants: what a plausible
slip in that code would make of it. No specification uses them; each property is
checked to fail when one replaces its original.

## 3. What the runs show

Runs that hold:

| Run | Instance | Properties |
|---|---|---|
| `ingest` | 2 threads, 3 requests out of 6 bodies, 1 crash | `TypeOK`; `ProjectionReflectsLog` (every row, also uncommitted, is what its events determine); `KeysNeverBite` (no PRIMARY or FOREIGN KEY error is reachable); `RepliesTruthful`; `ErrorMeansNothingStored`; `StatusNeverRegresses`; `CommitsAreBatches` (every change of the database is the whole batch of a request that is then answered 200 or 201); `ImplementsEventLog` (refinement of `EventLog`); `NoRequestHangs` (liveness) |
| `shared` | 3 threads, 4 requests out of 3 bodies, every statement may fail | `ConstraintsNeverBite` (at the moment each statement runs), `DirtyReadsExplained`, `FailuresLeaveNothing`, `SharedImplementsEventLog` |
| `replicas_converge` | 2 databases, 4 events, a redelivery each | `LifecycleConverges`, `UnflaggedRowsConverge` |
| `readers` | 1 request, 3 batches out of 5; pages of limit 3 and 1, the latter also from offset 1 | `TotalsNeverExceedGroups`, `HistoryExplainsRow`, `ContradictionsLast`, `MerchantsAccountForAll`, `DefinitionsAgree` |
| `paging` | 1 walk out of 32, 3 commits of 3 batches, 3 readings of the clock, pages of 1 or 2 | `QuietWalkIsExact`, `AgeingHidesNothing`, `NothingPassedOver` |
| `timestamps` | years of 2 days of 2 hours of 2 microseconds; 3 events out of 14 stamps, 10 bounds, 6 values of as_of | `TextOrderIsTimeOrder`, `WindowIsExact`, `DateGroupsAreDateWindows`, `StaleIsOlder` |
| `boot` | 5 records, chunk lengths 1, 2, 3; 2 crashes, 2 seeders, 1 client batch | `SeedStoredInOrder`, `SeedingIsIdempotent`, `BootsReplayNothing`, `ServiceComesUp` |

Why the bounds are enough. Two writers give every way to meet at the lock, since a
third can only wait as the second does; three requests allow first delivery, retry and
a conflicting request. The bodies hold each case of the loop: out of order, redelivered
under another transaction, twice in one batch, contradicting, oversized, invalid. On
the shared connection a second thread can meet the open transaction of a first while
a third waits to begin; batches of two events put a loop boundary inside it. The
calendar has two of everything below the year, so that each carry happens, and the
stamps lie on both sides of each.
Readers share nothing with one another, so one reader at a time is general, and three
SELECTs have at most two gaps for commits to fall into; three batches fill both and
leave one before. With two transactions, hence at most two groups or items, a
limit of 3 is a page with room for all, a limit of 1 a full first page or, from offset 1,
the last page or one behind the end. Three readings of the clock make transactions stale before,
during and after a walk, alone or several at once. Replicas meet in pairs in every property. Two chunks
and a rest is the shortest file on which every chunk boundary differs between loaders.
Only `replicas_converge`, which checks invariants and no liveness, declares a symmetry.
Deadlock checking is off because behaviours end when their bounds are used up.

Runs that exhibit a disagreement between the code and what its documents say; each
checks one property and TLC finds it violated:

| Run | Text | What happens |
|---|---|---|
| `doc_latest_name` | `README.md:544` "The latest `merchant_name` wins" | an unnamed event overwrites the name with the merchant id (`ingest.py:111`) |
| `doc_as_of` | `README.md:392` "as it would have looked at a past instant" | `as_of` moves the staleness cutoff only |
| `doc_severity_counts` | `README.md:389-395` counts "over the whole filtered population" | counts are taken before the severity filter |
| `doc_seed_whole` | `config.py:42-43` "load it once" | a kill between two chunks leaves a part, which later boots skip |
| `doc_memory_seed` | `main.py:44-45` "immediately explorable" | seeding closes the shared `:memory:` connection |

Several properties are worded around behaviour a reader of the documents may not
expect, and say how far the code's promise goes:

* `LifecycleConverges` and `UnflaggedRowsConverge` leave out what the first arrival
  decides: the currency always, amount and merchant when a flag is up.
* A flag is raised for another amount or merchant, not for another currency, and
  `payload_conflict` compares six columns, not the merchant's name.
* `TotalsNeverExceedGroups` is an inequality: a batch that commits between the SELECTs
  of a summary is in the groups and not in the totals. It speaks of a page that is not
  full: by `limit=2` two of three groups are returned, and the totals are of all
  (`tests/test_reconciliation.py`, `test_summary_group_pagination`). Of every page it says
  that it holds no more transactions than are stored.
* `ContradictionsLast` likewise: a report of `limit=1` counts 190 duplicates over one
  item (`tests/test_sample_data.py:52-56`), as `queries.py:429-431` intends. What it excludes
  is a page that ends before the count without being full.
* `CountsDescribeItems`, the disagreement of `doc_severity_counts`, is checked on first
  pages that have room for all that the header counts: not the page but the severity
  filter takes the items away.
* `DefinitionsAgree` compares the rank a report sorts by with the severity it shows for
  the default types only; the rank is over every flag whatever types are selected.
* `QuietWalkIsExact` needs the walk to be undisturbed and each page to ask the same
  (`Pinned`): a discrepancy walk must name an `as_of`. Without one every page is evaluated
  at its own time; a row that goes stale between two pages enters the list without any
  commit, pushes others over the page boundary, and they come twice.
  `AgeingHidesNothing` says what such a walk still gives: nothing that was there when it
  began is missed. Rows only enter, and those in the list keep their place among
  themselves and the severity they show: ageing adds `PROCESSED_NOT_SETTLED`, of medium
  severity, to processed transactions only, which are never `STUCK_IN_INITIATED`, the one
  low severity among the default types. A transaction flagged `DUPLICATE_EVENTS` can rise
  from low to medium. The clock is assumed never to be set back.
* With commits during a walk, rows
  may repeat or be missed at the end, and `NothingPassedOver` holds for fixed orders
  only (`FixedOrder`): GET /events; transactions by id, merchant or amount and groups by
  merchant or currency, in both cases under a filter that an event cannot take a row
  out of (`Lasting`: none by status, by date or for rows without duplicates). A row that
  leaves in front of the offset pulls the ones behind it over the page boundary.
* `SeedStoredInOrder` excepts clients that send ids of the sample file themselves, and
  `SeedingIsIdempotent` any client; boots and seeders may interleave with each other
  freely.
* The properties of `Timestamps` speak of years written in full.
* `DirtyReadsExplained` excepts the transaction whose event the next statement
  inserts: with `:memory:` a reader may see the upsert of an event before the event.
* Seeding that fails after its first chunk leaves that chunk behind.

### Fairness

`Ingest` assumes weak fairness of each thread's `Step`: a pool thread that can move
does move. That is the operating system's scheduling; waiting for the lock is not
assumed to succeed, since SQLite's busy handler gives up after `busy_timeout`
(`db.py:32`) and that outcome is an action too. Clients are not fair. `Boot` assumes weak
fairness of the service's own boot steps, `Start` included: the platform restarts a
dead container. Neither the seeder nor clients are fair. The other modules state
safety only and need none.

## 4. What is proved

TLAPS checks every proof; the theorems hold for all values of the constants under
the named assumptions `NullAssumption`, `FeedAssumption`, `BatchesAssumption` and
their like, which TLC evaluates in the runs.

* `LedgerProofs` - the lemmas. The core of the first part is `GoodDb`: tables typed, `KeysHold`,
  `ProjectionOfLog`. `ApplyNewGood` and `ApplyReplayGood` show that both branches of
  the loop keep it; these hold the arithmetic of the crossed COALESCE/MIN fold, of the
  event count as a cardinality, and of the sticky flags. `Convergence`: two good
  databases with the same events of a transaction agree on its lifecycle.

  The second part is what a batch does, for every length. `ApplyBatch` is a recursive
  function over the batch, and the provers cannot instantiate an induction rule; a
  least counterexample works instead. `UpTo` says that a *set* of naturals that
  contains 0 and is closed under the next step contains everything up to a bound, and
  takes the well-foundedness of finite sets from the library. With it `ImagesStep`
  gives the image after each event, `BatchExtends` shows that a batch keeps a database
  in order (`GoodDb`), takes nothing from it and stamps only new rows, and
  `BatchAccepted` that it stores its new events in batch order behind the old ones and
  counts every other one for the owner of the stored event. `LogTakesBatch` says the
  same in the words of `EventLog`, for both refinements. The same argument gives the
  lemmas about finite sums (`SumUnfolds`, `SumDisjoint` and their like, by `OverSubsets`)
  and about `Within`, again for lists of every length.
* `IngestProofs` - four invariants, each a part of the next.
  * `IInv`: `TypeOK`, `db` and `draft` are good, and `draft` keeps every timestamp `db`
    has (`KeepsTimes`). `ProjectionReflectsLog` alone is not inductive: that a stored
    event meets no other of its id, and that a replay finds the row it bumps, needs
    `KeysHold`; and `StatusNeverRegresses` needs the relation of `draft` to `db`, because
    COMMIT publishes many events in one step. Hence `TypeCorrect`, `ProjectionCorrect`,
    `KeysCorrect` and the action property `StatusForward`.
  * `EInv` adds who holds the lock (`LockHeld`), that no two requests or answers share
    a clock value (`OwnClock`), and which clock values are on rows (`StampsKnown`): those
    of a request that has not committed are not in `db`, and the draft adds at most
    the lock holder's. Hence `ErrorsStoreNothing`.
  * `AInv` adds what the results of an unfinished request say of the draft
    (`ResultsKnown`): each names an event the draft has, the created ones are as many as
    the rows with the request's stamp, the affected transactions those it touched. A
    COMMIT turns this into a statement about `db`, and later batches only continue the
    log (`ContinuedBy`). Hence `AnswersTruthful`.
  * `BInv` adds `DraftIsPrefix`: the draft is the image after as many events of the
    batch as the lock holder has results. Hence `CommitsWhole`, which justifies the
    modules that take a batch as one step, and `LogRefined`: under the mapping of
    `Ingest!Promise` the initial states map to initial states, `Commit` to `Accept`, and
    every other action, `Crash` and `Rollback` included, to a stutter.
* `ReplicasProofs` - every replica is good, hence `LifecycleConvergence` and
  `UnflaggedConvergence` for any number of replicas, any feed and any order.
* `ReadersProofs` - first, `DefinitionsCoincide`: the three definitions of a discrepancy
  and the two of its severity agree on every row and cutoff. It needs no invariant; the
  lemmas compare the formulas themselves. Second, answers of several SELECTs. `RInv`
  says of an answer in progress how each part it has got bounds every *later* database
  (`SummaryFits`, `ReportFits`, `DetailFits`, `MerchantsFit`, `HealthFits`). A SELECT
  establishes its bound on the snapshot it reads, where parts add up: sums over groups
  and counts over merchants are finite sums taken apart by `OverSubsets`, again a least
  counterexample. The last SELECT of a summary or a report is a page (`ResultsOf`):
  whatever the ORDER BY, one that is not full reaches the end of what was found, and from
  offset 0 it is all of it (`PageEnds`). A batch keeps the bound, because by `BatchExtends` it only adds.
  Hence `GroupsCoverTotals`, `HistoryExplains`, `ContradictionsStay`, `MerchantsComplete`.
* `SharedConnectionProofs` - the one `:memory:` connection. For `ConstraintsHold` and
  `FailuresClean` the invariant `IInv` says that at most one thread is between BEGIN and
  its end and that its transaction is the open one (`OneTransaction`: no ROLLBACK or
  COMMIT of another thread can come in between), what each stage of the loop has
  prepared for the next statement (`Prepared`), and that the rows a ROLLBACK restores
  carry the clock values of requests that ended well, the others that of the one thread
  inside (`StampsExplained`, `OwnStamps`). `DInv` adds what the image is at each stage
  (`Staged`): that of a whole number of events, plus the merchant and then the
  transaction row of the event in work. `DirtyReads` follows, because only the stage
  before the event's own INSERT has a row ahead of its events; and `SharedLogRefined`,
  because at COMMIT the image is that of the whole batch and no other statement
  changes what a ROLLBACK would restore.
* `TimestampsProofs` - for every calendar of years of equal length, not just the
  scaled-down one of the run. An
  instant is a number in mixed radix and its text lists the digits. `Split` compares
  numbers by quotient and then by remainder, `Earlier` applies it to the three carries,
  `TextOrder` compares texts at their first difference, and `PaddedOrder` joins the two.
  The invariant `WInv` says that rows hold the texts of their instants and that answers
  were computed from the rows there are (a `Post` replaces the answer looked at).
  Hence `TimestampsCompare`, `WindowsAreExact`, `StaleMeansOlder`, and `DateGroupsOpen`,
  which holds for the short years too.

* `BootProofs` - what loads leave behind. `IInv`: for some number k of the file's
  events the stored events of the file are those of an uninterrupted load of its first k
  (`Loaded(k)`), no loader's position (`Through`) is beyond k, and an ended load means
  that k is all of them; with no client every row is that load's, redelivery counters
  apart (`Same`). A chunk that starts at or before k replays what is there and stores
  the rest (`EventAt`, then `ChunkAt` by `UpTo` over the chunk); crashes and failures only
  forget a position, and a lost disk sets k to 0 and takes all positions back. Hence
  `SeedOrder` and `SeedingIdempotent`; what they suppose of clients (`PostsElsewhere`) is
  part of the properties, not an assumption. `BootsReplay` needs a second invariant
  (`BootsAlone`): without a seeder or a client the database *is* the image of an
  uninterrupted load at the service's position, counters included, because
  `_seed_if_empty` goes on only with an empty table; counters of images only grow
  (`DuplicatesStep`).
* `PagingProofs` - offset walks, for every list, filter, order and page size. `KeyOrder`:
  comparing key lists column by column, NULLS LAST, is a strict order whose ties are
  equal lists. `TransactionKeys`, `EventKeys` and `GroupOrderKeys` show that no two rows of
  a list have equal lists, because each ORDER BY ends in a column that tells its rows
  apart; so every row has a rank of its own (`RankOrder`, an injection of a finite set
  into an interval), the sorted list is the inverse of the ranks (`SortedIs`), and a
  page holds the rows of its ranks, each once (`PageHolds`). None of the properties is
  inductive, since none speaks of the offset. `Quiet` adds that a walk nothing has
  disturbed and whose pages ask the same has seen exactly the wanted rows of ranks below
  its offset and counted them right; when `has_more` is false the offset and a page reach
  beyond the last rank, also when the severity filter has thinned that page. `Waiting` adds that an unseen
  row has a rank not below the offset; a batch keeps that, because in a fixed order rows
  stay with their keys (`RowsStay`) and the rank of one that stays only grows
  (`RanksGrow`). The same `Waiting` holds in a discrepancy list in which nothing but the
  clock has moved (`Ageing`): a later cutoff takes no row out and keeps the severity of
  each (`SeverityLasts`), so the rows stay with their keys (`RowsAge`) when the next page
  is asked for (`CountStep`), and `has_more` compares with a count of the same cutoff. Hence
  `QuietWalks`, `NothingHiddenByAge` and `NobodyPassedOver`. TLC checked this `IInv` on the instance of `paging` first. Of
  alphabetical positions (`TextOrder`) `PagingAssumption` asks only that they are numbers
  and tell the ids of a kind apart.

Every safety and action property of the runs is a theorem. Only model-checked is
liveness (`NoRequestHangs`, `ServiceComesUp`): the prover has no rules for ENABLED, which
weak fairness is defined by. The runs that exhibit a disagreement are counterexamples
and need no proof. What an operator computes is shown for every input only where a
proof needs it (`ApplyBatch`, `Within`, `SumOver`, `Sorted`), each time by a least
counterexample, as the library's induction rules cannot be instantiated.

## 5. Abstractions and what is left out

* Extra fields of an event, `raw_payload`, texts of errors and logs.
* The ISO-8601 grammar: a text is a full timestamp, a bare date of the form YYYY-MM-DD,
  or rubbish. A week date of ten characters, which `date.fromisoformat` accepts too,
  is not modelled. Amounts above SQLite's 64 bits, infinite filter amounts.
* Power failures under `synchronous = NORMAL`. The crashes modelled lose the process.
* `min_amount` above `max_amount` (422); the rounded figures `settlement_rate` and
  `age_hours`.
* What pydantic checks by declaration, the response models and the texts of the error
  envelopes, the parsing of the environment: no state and no order of events.
* `--reset` while the service runs: it unlinks files that other connections hold.
* One service process, as the Dockerfile starts it (`--workers 1`).

## 6. Plan

Done, in order of importance: ingestion and projection, order independence, reports,
detail page and meta endpoints, the shared connection, timestamps, start-up and paged
lists, each model-checked and with its safety properties proved, and two refinements.

What would come next, if the code grows in that direction:

1. **Paging** by keyset instead of offset: `NothingPassedOver` would then be asked of
   every order, and `FixedOrder` would go.
2. **Ingest** with `received_at` read inside the write transaction: GET /events and the
   commit order could then be related (today they cannot, see the hazard at
   `ingest.py:142`).
3. **Boot** with a marker for a finished load, which `doc_seed_whole` shows to be missing.

## 7. Running

`tlc -config <run>.cfg <MC module>` for a row of the tables in section 3, with the
module named in `PROJECT.json`; `tlapm <module>Proofs.tla` for the proofs.
