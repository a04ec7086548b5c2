# fishing-deal-tracker in TLA+

TLA+ modules, model-checking configurations and machine-checked proofs for the
tracker: a crawler that runs from cron, reads retailers' pages politely, stores
what it saw in PostgreSQL, finds price drops, confirms them with a second fetch
and exports a feed for a static site.

Every definition names the code it stands for in `PROJECT.json` (`map`).

## 1. The system

Several times an hour a *tick* (`fpt tick`, `fpt/cli.py:run_tick`) opens one
database transaction and works through the retailers of
`config/retailers.yaml` one after the other. For each it fetches the discovery
pages (grids of products, or single product pages), records what they show,
enrols new product URLs as tasks, and then drains the retailer's task queue
with a budget of fetches. Every stored observation of an offer is validated,
and then either rechecks the offer's live deal, confirms one of its candidates,
or is searched for a new candidate. The transaction commits when the tick
returns. A second job exports the feed; a browser extension may post captures
to a small HTTP server; migrations are applied by hand or by CI.

| Component | State it keeps | Operations | Works with |
|---|---|---|---|
| Deal lifecycle: `fpt/store/pipeline.py`, `fpt/store/deals.py` | `price_observations` (append-only), `deals`, CONFIRM rows of `crawl_tasks` | ingest a listing: record, recheck, confirm, detect | called by the tick and by the drain; calls the rules and the references |
| Deal rules: `fpt/deals/detect.py`, `fpt/deals/confirm.py`, `fpt/pipeline/validate.py` | none | validate, three detection rules, checks C1-C10 | pure; thresholds from `config/deal_rules.yaml` |
| Reference prices: `fpt/deals/references.py` | none (reads observations, offers, variants) | R1/R2 verified reference, U1 current new price | resolved anew at every use |
| Queue: `fpt/scheduler/queue.py` | `crawl_tasks` | sweep the overdue CONFIRM tasks, drain | limiter, robots, fetcher, lifecycle |
| Grid ingest: `fpt/scheduler/listing_ingest.py` | offers keyed `sku\|grid` | grid row to observation | lifecycle, enroller |
| Enroller: `fpt/scheduler/enroller.py` | `discovery_hits`, `tracked_urls`, ENROLL rows of `crawl_tasks` | enrol a swept page | queue |
| Limiter: `fpt/scheduler/limiter.py` | in memory, per retailer and tick: request counters, outcomes, breaker | admit, record request, record outcome | tick, drain |
| Tick: `fpt/cli.py`, `fpt/db.py` | the transaction; which retailers were skipped | per-retailer loop, deadline | all of the above |
| Robots: `fpt/fetch/robots.py` | a cache per tick | admit a URL, failing closed | limiter (Crawl-delay) |
| Catalog: `fpt/store/catalog.py`, `fpt/store/listings.py` | brands, products, variants, listings, offers | upserts | lifecycle, references |
| Export: `fpt/export/*` | versioned directories and `latest/` | query, gate, write, promote, prune | reads the database beside a tick |
| Migrations: `deploy/migrate.py` | `schema_migrations` | apply pending files | the schema |
| Capture: `fpt/capture/*`, `fpt/store/captures.py` | sliding windows in memory, `captures` | accept one capture | concurrent request threads |
| Fetching, adapters, core values | none that outlives a fetch | fetch, parse, normalise | inputs of the above |
| Site and extension | none of their own | show the feed, send a capture | read the export |

### What is hard about it

* **Time.** Three clocks are compared with each other: the wall clock that
  stamps observations, the tick's start, and the clock the drain keeps by adding
  up its delays. Ten-minute gaps and eighteen-hour deadlines are measured
  across them.
* **Several fetches of one offer.** A candidate's CONFIRM fetch, an ENROLL page
  that lists the same offer, a page with the offer twice and a grid sweep may
  come in any order, each reading rows that another has just written.
* **Rows that return.** Deals expire, are rejected and are found again; open
  statuses are listed in an index, in a lookup, in a sweep and in an update.
* **Fetches that fail.** Budgets, robots.txt, blocks and errors end a task
  without an observation.
* **One transaction per tick.** An exception loses the work of every retailer,
  a CHECK violation included.
* **No coordination between jobs.** The exporter reads while a tick commits; a
  promotion can stop between two files; retailers at the end of the list depend
  on those before them.
* **Threads.** The capture server shares its rate-limit windows between request
  threads.

### What makes each part correct

* *Lifecycle*: a published deal rests on two looks at the same offer, the gap
  apart; its stored numbers make a deal; one open row per offer and rule, one
  open task per deal; live deals are refreshed or ended; tasks and candidates
  are closed in the end.
* *Limiter*: no more requests than the caps in any bucket, what is reserved for
  CONFIRM and HOT is spent on them alone, an open breaker admits nothing.
* *Enroller*: never more enabled URLs than the cap; a sighting that calls for a
  look has its task; the expiry of a URL is that of its last linked sighting.
* *Tick*: it ends; what counts as swept is recorded.
* *Catalog*: one row for each thing, whichever page comes first; references are
  prices of the same thing.
* *Export*: the feed and its product files belong together; an unhealthy feed
  does not replace a healthy one.
* *Adapters and robots.txt*: a price and its claim are of one variant, grid and
  product page agree, and closed sites are left alone.
* *Migrations*: every file is applied once, in order, whatever is interrupted.
* *Capture*: no more than the allowed number in any window; one row per key.

`PROJECT.json` lists the hazards, each at its line, with the properties that
are about it.

## 2. The modules

| Module | Models | Kind |
|---|---|---|
| `DealRules` | the pure decisions: quality guards, detection, confirmation, recheck | operators over records of integers |
| `DealLifecycle` | one retailer's observations, deals and CONFIRM tasks under ticks | the core state machine |
| `DealLedger` | what the deals table promises, without fetches, observations and queue | abstract specification, implemented by `DealLifecycle` |
| `RetailerLimiter` | the limiter of one retailer as the discovery loop and the drain drive it | state machine |
| `Discovery` | a tick over several retailers: deadline, due pages, pagination, enroller, drain, one transaction | state machine |
| `Catalog` | products, variants, listings, offers and observations under pages in any order, and the reference queries over them | state machine over `References` |
| `References` | the three selections of a reference price | operators |
| `Export` | the feed export beside a tick that commits, and a reader of the feed | state machine over `ExportRules` |
| `ExportRules` | rows to cards, cards to the schema, the retailer's health | operators |
| `Migrate` | overlapping, failing and repeated runs of the migration script | state machine |
| `MigrationLedger` | the history of runs that come one after the other, each a single step | abstract specification, implemented by `Migrate` |
| `Capture` | request threads, sliding window, idempotent insert | state machine |
| `CaptureBook` | a book with one entry for each capture, under a number of its own, which clients are told of | abstract specification, implemented by `Capture` |
| `Adapters` | from a response to the rows and listings taken from it | operators |
| `Robots` | which pages of which sites may be fetched | operators |
| `Intake` | what comes before a page is ingested: `Robots` and `Adapters` beside the `Catalog` | properties of operators, stated of the texts, responses and products there are |
| `MC...` | instances for TLC | inputs |
| `..._proofs`, `LeastNatural` | theorems | inductive invariants, three refinements |

How they meet. `Discovery` has the whole loop of the tick with its ENROLL
tasks; `DealLifecycle` has the part of the same loop that concerns deals and
CONFIRM tasks, and `RetailerLimiter` the part that concerns requests. Each
leaves the others' decisions open: in `DealLifecycle` and `Discovery` the
limiter and robots.txt may refuse any request and stop any drain, in
`RetailerLimiter` any task may be due, in `DealLifecycle` any reference in a set
may be resolved, in `Catalog` any page may come. So each allows more than the
composed system does, and a safety property of one holds of the whole. `Export` sees
the tick as commits of arbitrary rows for the same reason. A full product of
these state machines is not built: it would be out of TLC's reach and would
show little that the parts leave open, apart from liveness (section 6).

### DealRules

Money is an integer number of cents and 0 stands for `None`. `DiscountPct` is
`round((1 - p/r) * 100, 2)` in hundredths of a percent, rounded half up; floats
are not modelled beyond that. A fetched page (`Inputs`) has its price, shipping,
claimed price, clearance flag, availability, the identity it shows for the
offer (variant key and unit count) and the identity just written to the listing
row. The guards of `validate.py` that need more of the page than this (category
floor, out of band, unit mismatch, claimed price not above the price) are the
one boolean `guard`; `large_move` is modelled in full, because it decides
whether a confirmation or a recheck goes ahead. `Quality` has four values: the
code's OK and REJECTED, SUSPECT, and SUSPECT with `large_move` as its only
reason, which check C5 lets through.

`confirm_candidate` is `ConfirmChecks` and `Verdict`. C1 and C3 are met by every
caller and C2 cannot fail because every caller passes `PRODUCT_PAGE`; C8 fails
for every used offer, because the reference's group is always `NEW`, so a used
deal is always rejected at confirmation.

### DealLifecycle

| Variable | In the code |
|---|---|
| `now` | the wall clock |
| `phase`, `began` | where the running tick is, and `started_at` |
| `obs` | `price_observations`, a sequence whose index is the id |
| `deals` | `deals`, with the three observation ids of a row |
| `tasks` | the CONFIRM rows of `crawl_tasks` |

| Action | In the code |
|---|---|
| `TickStart` | `run_tick` opens its connection and takes `started_at` |
| `GridSweep` | a grid row with both prices ingested as an observation |
| `ProductFetch` | an ENROLL, HOT or BASELINE task, or a discovery page that parses into listings |
| `DrainStart` | `expire_overdue_confirm_tasks`, with the drain's clock anywhere between the tick's start and now |
| `ConfirmFetch` | the drain fetches the next due CONFIRM task and its page lists the offer |
| `ConfirmUnfetched` | the task ends in any other way: over budget, refused, failed, blocked, no longer listed |
| `TickEnd` | queue empty, limiter stop, or `max_tasks` |
| `Advance` | time passes, within a tick and between ticks |

`Ingest` is `ingest_parsed_listing` for one offer, with all it calls, in the
code's order: quality against the last OK price, the observation, then recheck
if the quality is OK and the offer has a live deal; else confirm if a candidate
is at least the gap old and there is a price; else detect if the quality is OK.

What is abstracted, and why that is sound for these properties:

* A tick is a transaction. A tick that dies leaves no trace, so only the time
  it took is visible, which `Advance` gives. Ticks do not overlap
  (`.github/workflows/crawl.yml` has a concurrency group).
* The resolved reference is an input: every member of `ReferenceSet` may be
  found at every use. This allows more than the database would.
* The other tasks of the queue are `ProductFetch`, at any time of a tick. Order
  matters for CONFIRM tasks only among themselves (`NextDue`).
* The limiter and robots.txt may stop or refuse at any task.
* An observation replayed with the same snapshot is a no-op in the code and
  has no action.
* `expire_stale_deals` has no action because nothing calls it.

### RetailerLimiter

| Variable | In the code |
|---|---|
| `hour`, `day` | `hour_bucket_start` with `requests_this_hour`, and the same of the day |
| `last`, `blocks`, `recent` | `last_request_at`, `consecutive_blocks`, `recent_outcomes` |
| `openUntil`, `trips`, `disabled` | `breaker_open_until`, `trips_in_48h`, `disabled` |
| `clock`, `phase` | the tick's clock for this retailer, and its progress |
| `log` | history: the requests this limiter has recorded |
| `contacts`, `lastContact`, `lastTrip` | history: what the retailer sees, in all ticks |

| Action | In the code |
|---|---|
| `Answered` | `can_admit`, a fetch that returns, `record_request`, `record_outcome`, the delay; in discovery or in the drain |
| `DiscoveryRaised` | a discovery fetch that raises: nothing recorded, nothing slept |
| `DrainRaised` | a fetch of the drain that raises: a request, no outcome, the delay |
| `DrainUnsafe` | a task's URL is unsafe, found before or after its fetch: no request, the delay |
| `Asked` | over budget, refused by robots.txt, or an unsafe discovery URL: only `can_admit`, which rolls the buckets |
| `StartDrain`, `EndDrain`, `StopDrain` | discovery is over; the queue or its share is; the limiter is shut |
| `NextTick` | `fpt/cli.py:328` builds a new limiter |

Floats become percentages in integers and time a small natural number. The
clock is the one the tick passes to the limiter: it moves by the delays alone,
not by the time the fetches take. Real gaps are no shorter, so what holds of the
gaps here holds of them. The delay may be any number between `MinDelay` and
`MinDelay + Jitter`. Which task is due is left open: any kind may come next.

### Discovery

| Variable | In the code |
|---|---|
| `lastSwept`, `tracked`, `hits`, `tasks` | `discovery_pages.last_swept_at`, `tracked_urls.expires_at`, `discovery_hits`, the ENROLL rows of `crawl_tasks` |
| `saved` | those tables as last committed |
| `wall`, `started`, `clock` | real time, `started_at` of the tick, and the clock the loop keeps for one retailer |
| `phase`, `turn`, `due`, `fetched`, `rows`, `at`, `leased` | the tick's place: retailer, pages left, pages fetched, rows left and their `fetched_at`, tasks taken |
| `ingested` | `listing_ingest_eligible_urls` of the grid at hand: the URLs, not the rows, that get no ENROLL task |
| `shown` | history: the rows parsed grids have had |

| Action | In the code |
|---|---|
| `StartTick`, `EndTick`, `Crash` | the transaction of `run_tick` begins, commits, is rolled back |
| `BeginRetailer`, `SkipRetailer` | the loop of `_process_retailers`, before and after its deadline |
| `GiveUp` | a page refused, not fetched, blocked or unparsable |
| `Sweep`, `NextGrid` | a grid is fetched, parsed and marked as swept; `next_page_url` is followed or not |
| `Enroll`, `SkipRow` | one item of `enroll_discovery_page`, released or rolled back to its savepoint |
| `BeginDrain`, `FetchTask`, `SkipTask`, `EndDrain` | `drain_retailer_queue` |

A task is `QUEUED`, `SKIPPED` (`SKIPPED_BUDGET`, `SKIPPED_ROBOTS`) or `FETCHED`
(`DONE`, `FAILED`), with the real time at which it left the queue (`until`), and a hit
says whether its row was a deep discount and its URL ingested: that is what
`SightingsArePlanned` relates.

A URL of the model is a retailer and an address, because `tracked_urls` and the
dedupe keys are keyed by both; the four Shimano brands, which share a host,
fit that. `tracked_urls.enabled` is not modelled: only
`expire_stale_tracked_urls` would clear it, and nothing calls that.
`last_item_count` is written and never read. `listing_complete` is read as the
code's default, true, which every shop configured without the key has. The hit
of a row that failed is undone with it, as in the database; the list of ids the
code returns keeps it, and is only counted.

### Catalog and References

`products`, `variants`, `listings`, `sellers`, `offers` and `log` are the tables
of those names (`log` is `price_observations`). `Fetch` brings a page, a sequence of
listings with one time and one snapshot; `IngestUnsafe`, `IngestByGtin` and
`IngestByKey` are the three ways of `ingest_parsed_listing` through
`fpt/store/catalog.py` and `fpt/store/listings.py`; `NextDay` is time. The
references are operators over these tables, each with its query in
`fpt/store/deals.py` and its rule in `References`.

Three assumptions are about what shops show. What is stored as OK has a positive
price and no amount is negative (`AmountAssumption`: CHECKs of
`db/migrations/007_price_observations.up.sql`). A SKU keeps its pack count
(`PackAssumption`): the query of R2 compares the counts the listings have now,
not those of their observations. Barcodes that a listing shows together are of one thing (`CatalogAssumption`):
every listing that shows one of them shows all. Most listings have one or none;
what happens otherwise is in section 5. The random suffix of a second slug is taken to be new (the code draws again when it
is not); the check of R2 that both variants are of one category is true of one variant and
left out; `match_candidates`, `merged_into_id` and `is_active` are never
written. `DISTINCT ON` without a full order is a choice of any row that ties.

### Export and ExportRules

| Variable | In the code |
|---|---|
| `rows`, `health`, `commits` | `deals` as joined, what is known of the one retailer, the commits of the tick beside the export |
| `pc`, `gen`, `flags`, `feed`, `stale`, `todo` | the running `run_export`: its step, its export id, `--force` and `--dry-run`, the documents, the retailers' health, the files left |
| `versioned`, `latest` | the directories `exports/<id>` and `latest` |
| `seen` | a reader: which export each file it has read is of |

`Start`, `QueryDeals`, `QueryProducts`, `QueryRetailers`, `WriteVersioned`,
`Gate`, `Promote`, `Finish` and `Die` are the steps of `run_export`, each query
with the snapshot of its own statement; `Commit` is the tick. `ExportRules` has the
columns of a row and what `queries.py`, `build.py` and `validate.py` make of
them; of the documents it has the fields that the validation looks at.

### Migrate

`disk` is the directory; `tracked`, `recorded` and `applied` are
`schema_migrations` (does it exist, which versions does it have) and the effects
of the files; each run has its step, its mode (`--dry-run` and `--status` are
`report`), the files it found, those still to apply, the versions in its open
transaction, and those it has printed. `Discover`, `EnsureTrackingTable`,
`ReadApplied`, `ApplyMigration`, `Commit`, `Conflict` and `Fail` are the steps of
`run`; `AddFile` is a deployment. What
psycopg does with a transaction opened by a SELECT is modelled as its
documentation and this code's use of it have it: nothing is committed before the
connection's block ends. `RunsAreSerial` maps `disk`, `recorded` and `applied` to
`MigrationLedger`, where a `Commit` is one run of what its checkout lacked
and nothing else that a run does shows.

### Capture

Each thread goes through `Arrive`, `Refuse` or `Allow` (`fpt/capture/ratelimit.py`),
`Reject` or `Validate`, `Insert`, `Commit`, `Reply`; `Abort` is a database that
is not there, `Restart` a new process. The clock is read in `Arrive`, before the lock,
as in `allow`: `MaxLag` is how long a thread may wait between the two. The
fields a capture is validated by one by one are one boolean, `sound`; price,
former price, time and key are modelled in full. A request without the token or
to another path changes nothing and has no action. `TableIsABook` maps the
committed rows, by key and id, and the answers to `CaptureBook`: a `Commit` that
inserts is an entry, a `Reply` tells of one, an aborted transaction and a
restart do not show.

### Adapters and Robots

`Adapters` has a site's product as its variants' prices, and what each parser
reads of it on a grid (`RowOf`, `Listed`) and on a product page (`ListingOf`),
what it makes of a page it cannot read (`Gate`, `NothingFound`), what
`blocks.py` and `url_safety.py` do around it, and which rows count as
observations (`Eligible`). One name stands for all shops of a platform. Dick's and
the two Coveo shops are disabled in `config/retailers.yaml`; their parsers are
modelled like the others.

`Robots` has a text as its lines. The search for named groups of
`fpt/fetch/robots.py` is given by what its loop finds: a line that shuts
everything out, after a user-agent line of the group with no other between. The
standard library's parser is modelled from how the code uses it (external).

`Intake` states the properties of both beside the `Catalog` that is fed by them:
the texts, amounts and products there are its constants, small sets for TLC
and any sets for the proofs.

## 3. The runs

| Run | Instance | Shows |
|---|---|---|
| `page` | one offer, two prices, with and without a verified reference, 4 observations | `SecondLook`, `OneOpenDealPerRule`, `OneOpenTaskPerDeal`, `LiveDealFirst`, `TasksAreClosed` and the refinement `LedgerSpec`. Four observations are enough to find, confirm, expire and find again, and for candidates of two rules side by side |
| `wide` | a grid offer and a used offer, 11 kinds of page, 3 kinds of reference, 3 observations | `TypeOK`, `RowsAreDeep`: every guard of validation, detection, confirmation and recheck is met from both sides |
| `limiter` | one request an hour and four a day, half of them reserved, an hour of 3 delays and a day of 7, 6 contacts, horizon 12 | `HourlyBudget`, `ReserveKept`, `DelayNeverRefuses`, `BreakerRests`, `DisabledForCause`: both buckets roll, also between ticks; the breaker trips by count and by rate, reopens and trips again within a tick |
| `tick` | two retailers, one with a cap of 1 and two pages of a grid that changes, one whose grid has its URL cheap, plain or twice, 2 ticks, horizon 4 | `CapHolds`, `ExpiryIsAccountedFor`, `SightingsArePlanned`, `SweptIsRecorded`, `TickEnds`: a URL comes, goes and returns, also at the cap and after its task was skipped, a tick dies between any two steps, the deadline passes |
| `feed` | two deals of two products, a fresh and a stale retailer, 2 exports, 2 commits, one reader | `ReaderFindsWhole`, `OnlyGoodFeeds`, `FeedIsServed`; over every kind of row with amounts in `Cents`, `AllRowsPublish`. Two exports are enough for a promotion over an interrupted one |
| `migrations` | two processes, 4 starts, two files at first and two that come later, one with a lower number and one whose version is taken | the refinement `RunsAreSerial`; `SuccessMeansApplied`, `InOrder`, `RunsEnd` |
| `capture` | two threads, one client, a stamped and a keyed capture, 2 requests in a window of 2, 3 requests, horizon 3 | `WindowBound`, `OneRowPerCapture`, `RefusedForCause` and the refinement `TableIsABook`: the third request is the one too many, and a replay may overlap the first, follow it or follow a restart |
| `shop` | 9 pages of two retailers, 4 fetches, 4 days | `OneRowEach`, `SameBarcodeMeets`, `OneObservationPerFetch`, `ReferenceIsComparable`, `SaleLeavesHistory`; over bounded inputs, `ClosedSitesAreLeftAlone` (every robots.txt of up to 4 lines), `FirmRowsAgree` (every Shopify product of up to two variants) and `DiscountsAreOfOneVariant` (the same for every parser and every kind of response). Three fetches make a barcode meet, a slug collide or a reference appear; the fourth changes what they left |
| `stale`, `sleep`, `rest`, `resume` | | four divergences of section 5 |

The lifecycle's instances use the thresholds of `config/deal_rules.yaml` and a
reference of 10000 cents, with the confirm gap as the unit of time. The deadline
is 2 gaps instead of 108: one tick in which a task is due and one in which it is
overdue are what the properties tell apart, and both occur. `MaxObs` bounds the
observations, `LastFetch` the time of the last one and `Horizon` the clock.

The properties of pure operators (`AllRowsPublish`, `ClosedSitesAreLeftAlone`,
`FirmRowsAgree`, `DiscountsAreOfOneVariant`) are of the constants and do not depend on the state; they are evaluated where a behaviour
begins (`Beginning`), and only there.

Every property of a passing run has a mutant: a plausible bug in a mapped
definition (written beside it as "Faulty") under which TLC finds the property
violated. The runs of `tick`, `feed`, `migrations`, `capture` and `shop` do not
check for deadlock, because there the system may really stop: no tick, export,
run or request need come again once the bounds are reached.

### Fairness

| Specification | Fair | Because |
|---|---|---|
| `DealLifecycle` | `TickStart`, `DrainStart`, `TickEnd`, `Advance`, weakly | cron keeps starting ticks; pages, tasks and the job's time are bounded; time passes. No fetch is fair: `TasksAreClosed` holds because the sweep of a later tick closes what is overdue. It is about a retailer the tick reaches |
| `Discovery` | `Work`, weakly | a process that runs goes on; its loops are bounded by `max_pages`, the rows of a page and `max_tasks`. No start of a tick is assumed |
| `Export` | `Run`, weakly | the schedule starts exports, and one that runs goes on; the last of a behaviour is not killed (`Die`) |
| `Migrate` | each run's `Step`, weakly | a started process goes on, and the database answers. `RunsEnd` is that two runs do not wait for each other |
| `Capture` | each thread's `Handle`, weakly | threads are scheduled; its run checks safety only |

## 4. What is proved

With TLAPS, for all constants that satisfy the named assumptions of the modules
and all numbers of steps. `PROJECT.json` lists the theorems one by one.

| Module | Assumes | Theorems |
|---|---|---|
| `DealLifecycle_proofs` | thresholds positive and in order, inputs of the right types, a positive gap smaller than the deadline | `Invariance`, `TypeCorrect`, `SecondLookHolds`, `RowsDeepHolds`, `OneOpenDeal`, `OneOpenTask`, `LiveDealFirstHolds`, and `Refinement`: `Spec => LedgerSpec` |
| `RetailerLimiter_proofs` | natural numbers, a positive delay, hour and day | `LimiterInvariance`, `LimiterTypeCorrect`, `HourlyBudgetHolds` (twice the hourly cap in any hour: the buckets do not slide), `ReserveHolds`, `DelayHolds`, `BreakerHolds`, `DisabledHolds`, `OneTripHolds` |
| `Discovery_proofs` | a URL belongs to one retailer (it is keyed by it) | `DiscoveryTypeCorrect`, `CapIsKept`, `ExpiryFollowsSightings`, `TasksAreNotDoubled`, `SightingsHaveTasks`, `SweepsAreRecorded` |
| `Export_proofs` | no product's slug is `meta` or `deals`; rows are what the schema allows, with amounts in `Cents`, a set of naturals | `ExportTypeCorrect`, `ReadersFindWholeFeeds`, `ServedIsArchived`, `ServedFeedsAreGood`, `RowsArePublishable` |
| `Migrate_proofs` | numbers are naturals | `MigrateTypeCorrect`, `NothingIsAppliedTwice`, `SuccessIsComplete`, `AppliedInOrder`, and `RunsSerialize`: `Spec => RunsAreSerial` |
| `Capture_proofs` | positive limit, window and minute | `CaptureTypeCorrect`, `WindowIsBounded`, `RefusalsHaveCause`, `AcceptedCapturesAreStored`, `ReplaysAreOneRow`, and `CapturesAreABook`: `Spec => TableIsABook` |
| `Catalog_proofs` (with `Intake`) | barcodes shown together are of one thing; OK prices are positive; a SKU keeps its pack count; texts are sequences of lines, amounts naturals or none, products have variants | `CatalogInvariant`, `RowsAreOne`, `BarcodesMeet`, `FetchesAreOnce`, `SalesLeaveHistory`, `ReferencesCompare`, `ClosedSitesAreNotCrawled`, `GridsAgreeWithPages`, `DiscountsAreOffered` |
| `LeastNatural` | - | a nonempty set of naturals has a least member, and a greatest if it is bounded, from the well-foundedness of strict inclusion among finite sets |

The proofs have one shape: a property is seldom inductive, so an invariant that
implies it is, a lemma per action shows that the action keeps it, and a last step
combines them. What the invariants add, and why:

* **Lifecycle.** `RowsInv` (a row's ids are its own offer's observations, a
  candidate's detecting observation was OK and has the row's price), `TasksInv` (a
  task names a row and is no older than it, so a missed deadline means that the
  candidate is old enough to lapse in the ledger) and `ClockInv` (nothing lies
  in the future). The refinement maps every action to `Propose`, `Settle`,
  `Expire`, `Lapse`, `Pass` or a stutter.
* **Limiter.** `HourBucket` relates the bucket to the log: what precedes it is
  not later than its start, and all of that but the latest `MaxHour` requests is an
  hour earlier; a bucket that starts anew shifts the first statement to the
  second. `OneTrip` has a consequence for the shipped policy, with its cooldown
  of hours: `disable_after_trips_in_48h` never takes effect, because no limiter
  lives to see a second trip.
* **Discovery.** The tables are `Good` twice, as written and as committed, since a
  crash makes the second the first. The tick's own sweeps are later than any
  committed one, which is what makes `last_swept_at` name one sweep, and a
  sighting that is enrolled now the latest. What is left unlinked is so for good,
  because no action removes a tracked URL: a retailer that is full stays full.
* **Export.** `Shape`, `NotYet`, `Promoting`, `Vetted`, `Shelf` and `Reader`: the files promoted so
  far are those `InOrder` puts first, so whoever sees the new `meta.json` sees
  the new products or newer ones; what is being promoted was validated and
  passed the gate.
* **Migrate.** A version in an open transaction is neither recorded nor in
  another's, and what a run still has to apply comes after all it has applied.
  For the refinement, `Found`: what a run has inserted is of the files it found,
  and those are deployed. So at its commit the open transaction holds exactly the
  versions of its checkout that the database lacks by then, whoever committed
  since the run read them: a run that would repeat one met the unique key.
* **Capture.** For the window, a bucket is the tail of the admissions, each stamped
  at most `MaxLag` before it took place; for the table, the rows of a key are
  those of its one committed insert, and a thread that answers has one. The
  refinement needs `IdsInv` besides: the ids of rows and of uncommitted inserts
  all differ, since a number the sequence gave is not given again after a rollback.
* **Catalog.** A suffixed slug has the place of its product, a variant has all
  barcodes of a listing or none, and a listing's variant has the barcodes it came
  in with. That a sale leaves the regular prices alone follows from the days of an
  offer being read off rows that an observation on clearance is not among. `Packed`
  makes references comparable: every observation has its listing, and a listing with
  a SKU still has the pack count its pages show, so the counts that the query
  compares are those of both observations.
* **Operators.** The properties of `ExportRules`, `Robots` and `Adapters` are proved from
  their definitions for amounts, texts and products of any size: what is the first
  or last line of a group, and the cheapest variant, comes from `LeastNatural`.
  That is no induction over data, because none of these definitions is
  recursive.

Model-checked only: the liveness properties (`TasksAreClosed`, `TickEnds`,
`FeedIsServed`, `RunsEnd`), which the prover cannot treat, and the four
violated promises. Every other property of a passing run is a theorem.

## 5. Where the code departs from its own words

Each of these is a run whose one property states the quoted promise and which
TLC refutes; the quotations are under `findings` in `PROJECT.json`.

| Run | Promise | What happens |
|---|---|---|
| `stale` | a live deal without fresh observations expires | nothing calls the function |
| `sleep` | a sleep between every single fetch | none after a discovery fetch that raises, which is not counted either |
| `rest` | after a trip, a cooldown of 12 hours | the next tick has a new limiter and contacts the retailer at once |
| `resume` | migrations before the failing one stay applied | all of a run are one transaction, and go with it |

Others are visible in the models and have no run of their own:

* A large move is not rechecked against a live deal, and may publish a second
  deal beside it (`Ingest`); nor is anything enqueued for it, although the comment at
  `fpt/pipeline/validate.py:11` says so.
* On a refresh the review band of 85 to 95 percent is not asked for
  (`Recheck`).
* A candidate whose CONFIRM task was skipped, failed or ended on a blocked page
  is never rejected, against `fpt/scheduler/queue.py:63-67` (`ConfirmUnfetched`).
* `ConfirmFetch` may take a task of the same tick once the delays add up to the
  gap, against the comment at `fpt/cli.py:588`; and a task enqueued by this tick may
  lie in the future of its drain's clock, against `fpt/cli.py:428-431`
  (`Ready` in `Discovery`).
* `deals.json` is promoted before the product files, so beside the old `meta.json` a
  reader may find new deals whose product file is not there yet, where
  `fpt/export/storage.py:13-24` has "already-fully-written new detail files".
  `ReaderFindsWhole` is what holds.
* A retailer's own second SKU can be the reference of its first
  (`fpt/store/deals.py:183`), though `fpt/export/build.py:96` calls it another retailer's;
  and `fpt/deals/references.py:73` checks the match of the other side only.
* Should a shop change the pack count of a SKU, the reference query takes the old
  observations for prices of the new count (`fpt/store/deals.py:166-191`);
  `PackAssumption` leaves that out.
* Two variants without a SKU are one listing, which then carries the label of one
  and the price of the other (`fpt/store/listings.py:64`).
* `merge_gtins_into_variant` (`fpt/store/catalog.py:63`) does not ask whether another variant
  has a barcode it adds. A listing with the barcodes of two variants gives one of
  them both, and `find_variant_by_gtin` may then find either; `CatalogAssumption`
  leaves such listings out.
* Where several agents share a robots.txt group, `fpt/fetch/robots.py:116` remembers
  only the last of them. A site that shuts out a named agent which is not the last of its
  group is crawled, though `fpt/fetch/robots.py:102-104` asks whether the agent's
  block "contains" the rule. `ClosedSitesAreLeftAlone` speaks of groups whose last agent
  is a named one, whatever else they name.
* At the cap a tracked URL that is seen again is left out like a new one
  (`fpt/scheduler/enroller.py:259-263` comes before the lookup), so its expiry is not
  put off, against `fpt/scheduler/enroller.py:120-122` ("a re-sighting of an already tracked
  URL pushes its expiry back out") and `:22-27`, which has only new items capped.
  `ExpiryIsAccountedFor` says what holds: the expiry follows the linked sightings, and only
  the cap or an unsafe URL leaves one unlinked.
* A task skipped for budget is not "re-planned on a later sweep"
  (`fpt/scheduler/queue.py:144-145`): a tracked URL that is seen again gets a task only
  if its row is a deep discount that its grid does not tell all about
  (`fpt/scheduler/enroller.py:273`), and any other stays with the skipped one.
  `SightingsArePlanned` says which sightings do get a task.
* A capture without a time or a key leaves a row per minute it is sent in.
* `parse` of the J&H and Academy adapters can raise, though
  `fpt/adapters/_shared.py:10` says that it never does; every caller catches it.
* `fpt/fetch/blocks.py` takes a 503 with the expected markup for a good page, and has no check
  of a redirect to the home page.

## 6. Not modelled

* **The product of the state machines.** Safety carries over from the parts
  (section 2). Liveness across them does not: that every retailer
  is reached (`fpt/cli.py:276`) is promised nowhere and would be false of a list that is too
  long for the deadline.
* **I/O and its encoding**: the HTTP requests, snapshots and redaction, `S3Storage`
  (the protocol of the local storage over the network), the HTTP server's routing, and
  the shape of documents beyond what the validation looks at. The validation also
  asks for texts that are not empty, which the schema allows: `AllRowsPublish` takes
  them to be filled.
* **Stateless normalisation**: barcode check digits, brand, condition and slug
  text, seen as equality of the result; `Crawl-delay`, which only lengthens a
  delay that the limiter's model already leaves open.
* **Functions nothing calls**: `expire_stale_deals` (the run `stale` is about
  that) and `expire_stale_tracked_urls`.
* **Tables nothing uses**: subscribers, watches, alert deliveries, roles.
* **Site and extension**: user interface code. What they read and send is the
  reader of `Export` and the requests of `Capture`.

## 7. Plan

What would add most next: `S3Storage` as a second storage of `Export`, with writes
that time out after they took effect; `Crawl-delay` as a lower bound of the
limiter's delay; listings whose barcodes belong to two variants, with what still
holds of them; and a SKU whose pack count changes, with what the reference then
compares.
