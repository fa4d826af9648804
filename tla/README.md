# StarPass backend: TLA+ models, checks and proofs

StarPass sells time-limited passes to creators' tiers. A Soroban contract is the
origin of tiers and of most passes; this backend (NestJS, Postgres through Prisma)
copies the contract's events into its tables, sells bundles and gifts itself, and
answers access checks from its tables. The modules here model the parts whose
correctness depends on the order of steps, on failures or on boundaries of time: the
pass store, the event indexer, accounts and their deletion, the client of the Stellar
node, the content scheduler, webhook deliveries, the response cache, reports, and what
is computed from the pass table.

Paths below are relative to the repository (`src/` is its source tree).

## Contents

| file | what it is |
|---|---|
| `Passes.tla` | the pass store: every writer of `Pass` and `EarningsRecord`, query by query |
| `PassBook.tla` | the abstract book of sales `Passes` implements |
| `PassesProofs.tla` | proofs about `Passes`: shapes and earnings |
| `BookProofs.tla` | more of them: the refinement of `PassBook`, stable rows, blocks, bundles |
| `Indexer.tla` | the event indexer: poller, checkpoint, handlers, reindex and replay jobs |
| `IndexerProofs.tla` | proofs about `Indexer` |
| `LedgerSearch.tla` | the binary search for a ledger by time |
| `LedgerSearchProofs.tla` | proofs about `LedgerSearch` |
| `Accounts.tla`, `AccountsProofs.tla` | sessions, data export, deletion request, anonymisation and permanent deletion over the tables and their foreign keys |
| `StellarClient.tla`, `StellarProofs.tla` | retries, circuit breaker and rate limiter under concurrent callers |
| `Analytics.tla`, `AnalyticsProofs.tla` | access checks, lists, content tokens, revenue and subscriber figures, as operators of the pass table |
| `Content.tla` | content schedules: claimed and notified by overlapping runs |
| `Deliveries.tla` | webhooks and e-mails of a sale |
| `Cache.tla` | the cached profile of a creator |
| `Reports.tla` | the daily limit on reports |
| `Services.tla` | the four last ones and `LedgerSearch` side by side, for one run |
| `ServicesProofs.tla` | proofs about each of the four |
| `MC*.tla`, `MC*.cfg` | instances for TLC |
| `PROJECT.json` | runs, mutants, findings, hazards, theorems, and the map from definitions to source lines |

Check a run with `tlc -config MCPassesChain.cfg MCPasses`, the proofs with
`tlapm PassesProofs.tla`.

## Inventory

What executes: one Node process (or several behind a balancer) runs HTTP handlers,
timers and fire-and-forget promises over one Postgres database. JavaScript between two
`await`s is atomic within a process; nothing is atomic across one. Every awaited
Prisma query is one autocommit statement; `$transaction` is READ COMMITTED. A
process may die anywhere: memory is lost, committed rows are not.

| component | state | operations | hard behaviour | what makes it correct |
|---|---|---|---|---|
| Pass store (`passes/`) | `Pass`, `EarningsRecord` | `upsertFromChain`, `purchaseBundle`, `giftPass`, hourly `deactivateExpiredPasses` | read-then-insert races, redelivered events, an insert nobody awaits, transactions that roll back | rows stable, one earnings record per paid pass charged to its payer, one trial per fan and tier, no sale to a blocked fan |
| Indexer (`indexer/`) | `IndexerCheckpoint`, `isRunning`, jobs in memory | poll, four event handlers, `startReindex`, `startReplayHistory` | swallowed failures, overlapping readers, restarts in the middle of a batch, bounded answers | checkpoint monotone and covering, tables in step with the contract, jobs complete |
| Tiers (`tiers/`) | `Tier`, content tokens | `upsertFromChain`, content tokens, analytics | replays of old events; a token that outlives its pass | a withdrawn tier stays withdrawn; a token bears witness of a pass held not long ago |
| Fans, GDPR (`fans/`) | `Fan` | `requestDeletion`, `anonymizeFanData`, `permanentlyDeleteFan`, `requestDataExport` | duplicate requests, two deletes with no transaction, foreign keys of kept passes | the retention period is respected and never starts anew, leavers hold no old pass, records of sales survive |
| Creators (`creators/`) | `Creator`, `Block`, `CreatorMember`, `Payout`, `ContentSchedule` | register, block, members, payouts, earnings, schedules | a block set during a purchase; activation claimed, then notified | content activated once, each holder told once |
| Stellar client (`stellar/`) | failure count, breaker flag, limiter | `withRetry` and its callers | retries, breaker, waiting callers | failures and requests are bounded, calls end |
| Sessions (`auth/`) | `Session` | login, refresh, logout | races with the deletion of the user | no session outlives its user |
| Response cache (`common/cache`) | key/value store | read-through GET, delete on update | a stale response cached after the delete | staleness has a cause and an end |
| Reports (`reports/`) | table | count-then-insert | races at the limit, midnight | the limit holds for one who waits |
| Webhooks, e-mail, sockets | `WebhookConfig` | register, remove, send | endpoints that fail, webhooks that come and go | everybody who should hear is tried once |
| Members, payouts, API keys | tables | CRUD | none of note | |
| Configuration, categories, search, GraphQL, health, metrics, dev | little | queries and CRUD | none of note | |

How they interact: the indexer calls `TiersService.upsertFromChain` and
`PassesService.upsertFromChain`; both purchase endpoints of `PassesService` read
`Tier.active` and `Block`, which the indexer and `CreatorsService` write;
`FansService.requestDeletion` and the cron write `Pass.active`. All of it meets in the
database, so that is the shared state of the models.

## Passes

**State.** The tables are functions or sets named after them (`passes`, `earnings`,
`blocks`, `fans`, `tierState`); a request is a record in `task[w]`: its label `pc`
(the query it sends next), its input, and what its earlier queries answered. `owed`
holds the passes whose `EarningsRecord` insert has been sent without `await`. `now`
is the clock in days. `unblocked` is a history variable: the pairs of creator and fan
seen unblocked since the request began.

**Actions.** One action per awaited query, named after its handler: `Chain*` for
`upsertFromChain`, `Bundle*` for `purchaseBundle`, `Gift*` for `giftPass`, `Deletion*`
for `requestDeletion`. A request refused by a guard in its first query never begins,
since it changes nothing. The transaction of a bundle is several steps, because its
reads see what others commit meanwhile; it collects its rows in `task[w].rows`, and
`BundleCommit` makes them visible at once or, when a generated id is taken, not at
all. `QueryFails` ends any request at any query, `EarningsFailed` and `Crash` lose
what nobody awaits. The cron, the tier events and the block list are one action each.

**Abstracted.** Prices (a paid pass earns one record), tx hashes, e-mail, webhooks,
metrics.
`Tier.trialDays` is a constant: no route sets it, but the column is read by both
purchase paths and may be set in the database. Generated ids are drawn from a set, so
that collisions happen.

**Abstract specification.** `PassBook` has no requests and no clock: a pass is entered
once, with a fixed owner and payer, may be retired once, and its account is settled or
lost once. Each entry names the `order` it came from, the set of tiers asked for, and
an order is sold in one step, one pass for each of its tiers, or not at all: a bundle
that stored two of its three passes, or stored them one after the other, takes no step
of the book. `ImplementsBook` says that every step of the store is a step of the book
under the mapping `Entry`. It is what a redelivery, a crash between the pass and its
record, or a bundle that fails half-way would break.

## Indexer

**State.** `Log` is the contract's event log, a constant; `tip` is how much of it has
closed. `checkpoint`, `users`, `creators`, `tiers`, `passes` are the tables;
`isRunning`, `reader`, `jobs` and `refused` (the breaker of the Stellar client, which
all callers share) are memory. A poll or a job is a reader: it fetches a batch, the
indices of the events an answer holds, and applies them in order. `delivered`, `lost`,
`handled` and `missed` are history variables.

**Actions.** `PollTick` to `PollStore` follow `processNewEvents`, `StartReindex` to
`JobCompletes` follow the two kinds of job, `Apply` runs one handler. A handler's
last write decides its effect and its earlier reads are of rows that are never
deleted, so a handler is one step here; the steps of `upsertFromChain` for passes are
in `Passes`. `PollAborts` is a query that throws (the `finally` resets `isRunning`),
`FetchFails` is `getContractEvents` answering `[]` after its retries, `ApplyFails` a
handler's exception, swallowed by `processEvent`. `BreakerTurns` opens or closes the
breaker at any time: while it is open no query of the node is answered. `Crash` loses
memory and keeps the tables. The readers are those of one process: `isRunning` keeps no
two processes apart, and with several of them the checkpoint can move back.

**The node.** `CloseLedger` and the answers to `getEvents` are external, modelled from
how `stellar.service.ts` uses them. At this commit `StellarService.rateLimiter` is
declared and never assigned, so `withRetry` fails on every call; the indexer's own code
is modelled against a client that can answer, as its unit tests do.

**Losses.** The code loses events in three ways: a fetch whose failure is answered with
an empty list, an answer that holds no more than 100 events, a handler's exception that
is swallowed. The history variable `lost` collects exactly those, so that every other
way of losing an event, through an overlap of readers, a restart, a ledger that closes
during a poll, or an off-by-one, is a violation. For jobs that would excuse too much,
since a job's first fetch has no upper bound and later ones ask again: `missed[j]` has
only what job `j` itself missed in the turn of the event's own ledger, so that a job
that left out a ledger of its range, the last one for instance, would break `JobsCover`
whatever earlier fetches or other readers lost. `lost` and `missed` are read by
properties only.

`UpNext` is every step but a restart, `Next` adds `Crash`; `Spec` is over `Next`, and
`FairSpec`, for liveness, over `UpNext`.

`IsLedgerFor` in `Indexer` is the reference that `LedgerSearch` is checked and proved
against.

## Accounts

**State.** `users`, `sessions`, `fan`, `passes` and `earnings` are the tables, reduced
to what the foreign keys and the handlers look at; a user and the fan of that user share
an id. `task[w]` is a request at its next query. `asked`, `gone`, `late`, `excused`,
`spent` and `recent` are history.

**Actions.** `Login*`, `Refresh*` and `Logout` follow `auth.service.ts`; `Deletion*`,
`Anonymize*`, `Permanent*` and `Export*` follow `fans.service.ts`, one action per
awaited query. `DeletionCancel` and `DeletionCommit` are the two statements of the
transaction, `PermanentFan` and `PermanentUser` the two deletes that are none. Foreign
keys act as `schema.prisma` declares them: passes keep their fan and their creator
(`KeptByPasses`, `Sold`), sessions and earnings records go with the row they refer to.
`Sell`, `Enrol` and `Book` are the sales of `Passes` as these tables see them. `Fails`
ends a request at any query.

**Bounds of the model.** A request lasts less than a day (`Tick`), and a fan who was
deleted is not enrolled again. `recent` holds a fan's exports of one cooldown period:
`Tick` drops the oldest of them (`Past`), and since they stand in the order of time the
rest is a suffix. `StellarClient!Tick` does the same to the limiter's timestamps
(`Aged`), for the `filter` of `acquire`.

## The client of the Stellar node

**State.** `failures` and `open` are the breaker's fields, `sent` the ages of the
limiter's timestamps, `call[c]` a caller between two awaits. `limiter` says whether the
field `rateLimiter` has a value: the runs look at both, since the constructor of this
commit never assigns it and a test or a fix does. `up` is the node, `outage` a history
of it.

**Actions.** `Begin` is the entry with the breaker's check; `Admitted`, `MustWait`,
`Woken` and `NoLimiter` are `acquire`; `Answered`, `NotAnswered` and `Retry` the loop of
`withRetry`. `isHealthy` and `emitFeeUpdatedEvent` take the same steps without the
loop, and the latter without the breaker. `Tick` runs the timers down. A tick is a tick
of the process's clock: waits in the limiter last what is left of the oldest request's
window, as little as one tick, and the first back-off lasts `InitialDelay` ticks.

**The limit.** `acquire` does not look at the window again when its wait is over, so
callers that wait together go on together, again and again: with a limit of 3 and three
callers admitted at 0, 200 and 400 ms, all three go on at 1000, 1200 and 1400 ms, nine
requests in a window. No bound by the number of callers is claimed. `met` notes that a
caller came to the limiter while another waited in it, until a window has been within
the limit again with nobody waiting; `LimitHoldsAlone` says that the limit holds
otherwise, so that such a meeting is the only way to exceed it.

**For good.** `Doomed` says that the breaker is open and no call that could close it is
in flight; calls of the health check and of the fee's event may be. `OpenForGood` says
that it then stays so, whatever those find out.

## What is computed from the pass table

`Analytics` states the queries and the arithmetic as operators named after the methods
and lets a small state machine fill the table, with trials too, age it, withdraw passes,
replace their expiry as `upsertFromChain` does when an event is delivered again
(`Redeliver`), hand out a content token and page through a list meanwhile. The queries are written where
the code writes them, each with its own comparison, so that the boundaries (the instant
of expiry, midnight, the ends of buckets and windows) can disagree. Stored prices are in their
smallest unit, `Cent` of them to the cent. A figure that the code rounds with `toFixed`
(revenues to cents, percentages and the average duration to tenths) is the set of its
possible answers, `Rounded`: the nearest values, of a tie either neighbour, since the
double that stands for it decides. `getEarnings` adds up without rounding, as the code
does. Rows that expire together come in any order, and in another one the next time.
`scroll.moved` notes that a redelivery has changed the expiry of a row of the list that
is paged through: rows then change places and a page can skip one. `held` notes when a fan last had a
valid pass of a tier, and forgets it when no token of that instant can be left; who has
a pass now is noted before anything is forgotten. The hour for which
`CreatorsService.getAnalytics` keeps an answer is left out: the figures are fresh ones.

## Four services

`Content` follows a run of the scheduler from `RunStarts` through `Claim`,
`ReadHolders` and `Notify`, with runs that overlap, queries that fail and processes
that die. `Deliveries` follows one delivery per creator of a sale; a creator's webhooks
come and go beside it. `Cache` has one entry, the requests that fill it and the edits
that delete it or do not. `Reports` counts and inserts, with midnight in between. They
share nothing: in `Services` a behaviour follows one of them, or a search of
`LedgerSearch`, which touches no table, so one run checks the five without their product.

## Runs

Passing:

| run | question | bounds |
|---|---|---|
| `chain` | Do concurrent deliveries of the same events keep rows stable and book each sale once, while tiers come and go, a fan leaves, the cron runs and the process crashes? | 2 workers, 2 events, 1 fan, clock 0..1 |
| `shop` | Do bundles, gifts and mints sell what was asked, book it in the same transaction, and spare blocked fans? | 2 workers, a bundle of 2, a gift, a mint, a block |
| `live` | Do requests end, paid passes get their record, expired ones retire? | 2 workers, one request of each kind, clock 0..1 |
| `poll` | Does the checkpoint cover what was handled and never move back, and does the tier table follow the contract, with restarts, failures and cut answers anywhere? | 6 events in 3 ledgers, answers of 5 events, 2 polls |
| `jobs` | Does a completed job cover its range, its last ledger too; does every job end; does the indexer catch up unless the breaker stays open or opens again and again, with node and handlers failing? | 3 events in 2 ledgers, answers of 2, 1 poll, 1 job, a reindex of both ledgers or a replay of a time span (requests with an empty or too long range are refused) |
| `stellar` | How far do failures go when the breaker opens; can the limit be exceeded by callers that never meet; does every call end; is the breaker ever closed once nothing is in flight that could close it? | 2 callers, 3 attempts, threshold 5, 2 requests in 2 ticks, one operation of each shape, with and without a limiter |
| `accounts` | Is the retention period kept, do leavers lose their passes, do sessions and records behave when logins, exports, deletions and sales overlap and fail? | 2 requests at a time, 2 users of whom one also sells, 1 pass, 1 token, days 0..3, retention 2 |
| `analytics` | Do all access routes agree at every instant, do tokens and pages keep their promises, do figures add up to what rounding may take, with trials and redeliveries? | 3 passes, 2 tiers with prices of 3 and 5 half cents, a trial, 1 fan, 4 ticks of half a day, windows of 2 and 3 days, daily and longer buckets, pages of 3 asked for under a cap of 2 |
| `services` | Is content notified once and to all, is a sale announced, is staleness explained, is the limit overshot by no more than the overlap; is the search for a ledger right for every chain and target, and safe with failing probes? | 2 runs, 3 schedules in batches of 2, 2 passes, 1 fault; 2 sales, 3 webhooks; 2 readers, 2 editors, 3 edits; 3 reports at once, limit 2; chains up to 5 ledgers, 4 times |

Two workers are enough for a race between two requests, the only kind the code has:
no handler waits for a third. Two events per fan and tier are enough to have a first
and a second purchase. Three ledgers give an event behind, at and ahead of the
checkpoint. Six events against answers of five make one answer that is cut, the fetch
of the whole log; every other fetch is whole, so that the indexer can reach the tip
without a loss at every ledger, the withdrawal a ledger later included. `jobs` needs
no third ledger, since its log has an event to fetch, one to wait for and a job that
overlaps both; answers of two cut the first fetch of all three. Two callers with three
attempts make six failures, one more than the threshold; a window of two ticks has waits
of one tick and of two. In `accounts` one user is fan and creator, which the foreign keys
of both kinds need, and the retention of two days leaves room for a second request on
the second day. Two ticks to the day put sales and expiries on and off
midnight; three passes give a tie and a pass between. Three due schedules exceed a
batch of two. In `analytics` a constraint (`McOneReader`) lets either the client with a
token or the one with a list be there, not both: neither reads what the other changes,
and no property speaks of both. Deadlock is checked everywhere but in `accounts`,
`analytics` and `services`, whose clocks, passes and sales are used up in the end and
whose search stops when it is done.

Violations, each a disagreement between the code and what a comment, a document or
its own error message says (quoted in `PROJECT.json` under `findings`):

| run | shows |
|---|---|
| `trial_race` | two trials of one tier for one fan |
| `export_race` | two exports of one fan in one cooldown period, where `src/fans/fans.service.ts:154` and `src/fans/fans.controller.ts:45` promise one |
| `health` | the health check denies a node that answers, because the limiter's field has no value |

By how much exports exceed their promise is bounded in the run `accounts`: by the requests
that overlap (`ExportsSpaced`).

Seen while modelling, and kept in the models as the code has it, without a run:

* the limiter's field is never assigned (`stellar.service.ts:17-23`), so besides the
  health check every `withRetry` (`:47`) and every fee event (`:231`) fails; once the
  breaker is open nothing closes it, since no call is let through to succeed
  (`OpenForGood`, with `Doomed`; a call already in flight can still close it);
* reports of one user that overlap all pass the count of the day, so more are filed than
  `reports.service.ts:27` says ("Maximum 5 reports per day allowed"); `LimitOvershoot`
  bounds the excess by the requests that overlap, and none do for one who waits for each
  answer (`reports.service.ts:16-24,45`);
* callers that wait in the limiter together exceed its limit without a bound by the
  limit alone, since `acquire` does not look at the window again
  (`rate-limiter.ts:18-30`; `Woken`, `LimitHoldsAlone`);
* `getContractEvents` answers a failed fetch with an empty list, and the checkpoint
  moves past the events (`indexer.service.ts:71`), though `docs/ARCHITECTURE.md:77`
  says that it "ensures the indexer resumes from the correct ledger after a restart"
  (`FetchFails`, `lost`);
* a reindex job that fetched a tier's creation applies it after the poller applied the
  withdrawal: the tier is on sale again and stays so (`JobAdvance`, `Apply`), though
  `indexer.service.ts:321` calls the handlers idempotent; `TiersInSync` is therefore
  checked for the poller alone;
* a fan who had a trial and then buys on chain is refused (`passes.service.ts:402-404`),
  the event is over and the pass never stored (`ChainPrior`, `Sold`), though
  `docs/ARCHITECTURE.md:88` says "the indexer keeps the DB in sync";
* a gift's sender is the fan of its earnings record, which cascades: when the sender is
  deleted the creator's record goes (`PaidBy`, `RecordsKept`), though
  `fans.controller.ts:54` says "Transaction records are retained for financial
  compliance.";
* a fan who ever had a pass can never be permanently deleted, because `passes.fan_id`
  does not cascade (`KeptByPasses`), though `docs/GDPR_DELETION.md` describes it;
* the cache key `tiers:list` stands for every page and creator of the tier list
  (`cache.interceptor.ts:16`);
* an active tier's every update sends `new_tier`, though `tiers.service.ts:198` says
  "not updates"; a fan with two passes of a creator hears of it, and of new content,
  twice;
* `schema.prisma` has no table for reports, and the application does not import
  `ReportsModule`: `Reports` models the service as it is written;
* a second delivery of a mint event replaces the expiry computed for a trial
  (`ChainUpdate`), so a fan's list, sorted by expiry, changes under a client that pages
  through it and the next page skips a pass (`passes.service.ts:468-475`; `Redeliver`,
  `scroll.moved`);
* `getRevenue` rounds to cents (`creators.service.ts:284,288`) what `getEarnings` (`:175`)
  and the table keep with six decimals: total, earnings and tiers agree to half a cent
  each, not exactly (`RevenueAddsUp`);
* the buckets of the subscriber series share their ends: a pass sold at midnight is
  counted in the day before too (`creators.service.ts:404`; `GrowthCounts`);
* two deletion requests in flight both pass the check for an earlier one
  (`DeletionRead`, `DeletionCommit`);
* `purchaseBundle` compares the number of tiers found with the number of ids asked, and
  an on-chain id is unique per creator only (`BundleTiers`): two creators' tiers under
  one id make up for an id that names none. `BundleMatchesRequest` therefore speaks of
  requests whose ids name one tier each (`OneTierEach`);
* a creator registered on chain gets a `User` row but no `Creator` row, so its tiers are
  dropped (`HandleCreatorRegistered`, `HandleTierCreated`);
* a job for one ledger handles every later one too, since `getContractEvents` has no
  upper bound (`Fetch`).

## Fairness

`Passes!FairSpec`: weak fairness of `Serve(w)` (a query that has answered resumes its
handler), of `EarningsWritten` (a statement sent is executed), and of the cron. There
are no crashes and no lost inserts in it, but queries may fail and end their request.
`LedgerSearch!SearchFairness`: weak fairness of answered probes, which says that a probe is
answered or fails. `Indexer!FairSpec`: weak fairness of the timer, of fetching or failing
to, of applying or failing to, and of jobs; strong fairness of the three queries of a
poll that may throw. Two of them are the database's, which is not down for ever. The
third asks the node for its latest ledger, and the breaker refuses it: the action is
enabled only while it is closed, so the assumption is that the node answers in the end
if it is asked again and again with the breaker closed, and none that the breaker
closes. It may stay open for good, and `CatchesUp` promises nothing then: an event is
behind the checkpoint in the end, or calls are refused. The model does not derive the
breaker from the failures of these calls: it opens and closes at will, more than the
code's. `StellarClient!FairSpec`: weak fairness of time
and of each caller's step, which an event loop with timers and a node that answers or
times out give; nothing forces the node up. `Content!ContentFairness`: weak fairness of
each run's steps, since the scheduler starts a run at start and every 15 minutes; faults
are bounded, as an outage that never ends would keep any schedule from being activated.
New ledgers, sales and requests are never forced.

## Proofs

For every value of the constants that satisfies the named assumptions:

* `PassesProofs!SpecTypeOK` and `SpecEarningsAccounted`. Neither is inductive: an update
  assumes that the pass it found is still stored, and the commit of a bundle copies rows
  prepared earlier. `IInv` adds `GoodTask`: what each request in flight carries is well
  formed, the pass an update is about to write exists, and prepared rows are active and
  have no giver.
* `BookProofs!SpecImplementsBook`: with `IInv`, every step does one of six things to the
  sales tables (`StepKinds`: keep, sell, retire, settle, forget, move an expiry), and
  each is a step of `PassBook` or leaves the book as it was; a sale's rows are those of
  one order, one for each tier asked for. `SpecPassRowStable` follows
  from the same six. `SpecNoSaleWhileBlocked` adds what a request has seen: past its
  block check, everyone it sells to is among `unblocked` (`Cleared`), which holds since
  `unblocked` contains all who are not blocked now (`Watched`). It assumes `Identified`:
  the contract gives a pass one id, with one tier and fan, and the ids the API makes up
  from the time of day are not among them; otherwise an event could extend another fan's
  pass. `SpecBundleMatches`: an injection between finite sets of equal size is onto.
* `IndexerProofs!SpecTypeOK`; `SpecCheckpointMonotone`, from `PollInv`: at most one
  poll is in flight, it started from the checkpoint as it still stands (`PollsApart`,
  `PollAhead`), and its target lies beyond; `SpecCheckpointCovers`, from `CoverInv`: for
  a poll that applies its batch, every event up to the ledger it will store is still in
  the batch, or was handled, or was lost. It needs `PollInv`: were two polls in flight,
  one could store a ledger the other has not read up to. `SpecJobsCover`, from `JobInv`:
  what is due at ledgers a job is past has been handled by it or was missed at its own
  ledger; while it applies the batch of its ledger, what is due there is in the batch as
  well. The tip the job was born at is never ahead of the chain, so that the fetch of a
  ledger has all that is due there, and a job completes only past its last ledger.
* `IndexerProofs!SpecTiersInSync`, under two hypotheses. `Jobs = {}`: a job can put the
  table back, as told above. `WithdrawnAfterMade`: the log withdraws only a tier it has
  made, since the handler drops the withdrawal of a tier it does not know; `MCIndexer`
  has TLC evaluate it on the logs of the runs. The table is not always a prefix of the
  log: a poll starts again from the checkpoint, below events that an earlier one, cut
  short by a restart, has applied, so rows go back in time and stay there if this poll
  dies too. `SyncInv` says what remains true: the last word on a tier is in the table if
  it lies behind the checkpoint (`SyncBehind`); while a batch is applied, the last word
  up to the ledger to be stored is in the batch or in the table (`BatchTells`), and stays
  in the batch as long as any earlier event does (`BatchGood`); and a tier once made is
  never absent again (`SyncRows`). It needs `CoverInv`, by which every event before the
  batch has been handled. `SpecTiersListed` says what is left of it beside jobs: no tier made
  behind the checkpoint is missing unless its event was lost, and none is invented, so a
  job can be wrong about no more than whether a tier is active.
* `LedgerSearchProofs!SpecTypeOK`, `SpecFindsLedger`, `SpecNeverTooLate`, from the
  loop invariant: below `low` all is closed in time, above `high` nothing is unless a
  probe failed.
* `AccountsProofs`: `SpecTypeOK`, `SpecLeaversPasses`, `SpecDeletedIsOut`,
  `SpecHalfDeletionExplained`, `SpecRetentionKept`, `SpecPeriodNeverRestarts` and
  `SpecRecordsKept`. `CoreInv` (`TablesGood` and `TasksGood`) ties each request in flight to the tables: a deletion
  between its two statements cancels every pass of its fan that is active and not sold
  since (`late`); a fan about to be deleted has a request as old as the retention
  period, and `asked` is never later than the row says. A second deletion request can
  write only on the day it read that there was none, which is why the period, longer
  than a day, cannot start anew once it has run. `SpecExportsSpaced`, from
  `ExportsGood`: a fan with an export in the period is cooling, so that no request
  passes the check any more, and the exports of the period and the requests already
  past the check are together no more than the requests there are. It takes a cooldown
  above zero and finitely many requests in flight.
* `ServicesProofs!SpecLimitOvershoot`: what is filed and what is in flight together never
  exceed the limit but for the peak of requests at once; the proof counts slots.
* `ServicesProofs!SpecNotifiedOnce` and `SpecHoldersTold`: a schedule that is active and
  not yet notified is in the hands of at most one run, whose position in the batch says
  how far it has come; entitled passes are among the holders it has read.
* `ServicesProofs!SpecSaleAnnounced`, for finitely many webhooks that have one owner
  each. `GoodDelivery`: while a delivery posts, the webhooks that were on since the sale
  are among those posted and those still to do, two lists without repetition that have
  nothing in common. `SpecStaleIsExplained`, from `CacheInv`: an entry's life ends no
  later than one life after its version was current, and one behind the row has an edit
  in flight or an excuse.
* `StellarProofs!SpecStormBounded` and `SpecOpenForGood`: `StormLeft` adds to the
  failures the attempts that calls in flight have left. A failure uses one of them up,
  and an open breaker admits no call that brings new ones. `SpecOpenForGood` has the
  action property and what follows from it: once `Doomed`, `Doomed` for ever.
  `SpecLimitHoldsAlone`, from `LimitInv`: while no callers have met, at most one waits, the
  window is no fuller than the limit, and a full one has lost its oldest request by the
  time the waiting caller goes on.
* `AnalyticsProofs!SpecAccessAgrees`, `SpecTokenOutlives`, `SpecScrollMissesNone` and
  `SpecFiguresAddUp`. `AnalyticsInv` has three parts: a pass is bought in the past and
  runs for a time (`RowsGood`); who has a valid pass is noted as holding it now, and a
  token in hand was issued at an instant still noted (`HeldGood`); a pass the client has
  not seen comes after the pages it has read (`ScrollGood`), since a sale inserts rows
  and never takes one from before it, and a redelivery that does is noted in `moved`.
  The rest is arithmetic: an answer is a count or a sum over the stored passes, and the
  theorems regroup it by fan, by tier, by day or by end of window; what is rounded is
  within half a unit of it, and sums of rounded terms are within half a unit for each
  (`RoundedIs`, `SumNear`). The assumptions are that ids, fans and tiers are finite, and
  periods, durations and page sizes are not zero.

Induction is needed for those sums, and the library's induction theorems, which take an
operator as parameter, cannot be used by the provers here. `SetInduction` derives it
for sets of naturals from the cardinality of finite sets: were m missing from a set
that holds zero and all successors, the numbers up to m that are missing would have a
proper part of their own size. From it follow induction over finite sets
(`SubsetInduction`), that the recursion behind `MapThenSumSet` has one solution
(`SumsExist`, `SumsGiveSum`), and the rules of sums (`SumRules` to `SumBound`); a
maximum and a sorted order exist (`MaxExists`, `SortExists`). `LastOfIndex` in
`IndexerProofs` uses the same argument for the last place of a set.

Every safety invariant and action property of the passing runs is stated by one of these
theorems. Only model-checked are the temporal properties `RequestsEnd`, `PaidIsBooked`,
`ExpiredIsRetired`, `CatchesUp`, `JobsEnd`, `SearchEnds`, `CallsEnd` and `DueIsActivated`:
the prover has neither fairness nor ENABLED. The three violations are TLC's as well.

## Not modelled, and what could follow

Not modelled: `mintPass`, `checkAndNotifyExpiringPasses` as a job, members, payouts and
`TiersService.bulkCreate`, which have no caller outside tests; receipts (arithmetic on
one row, with the fee of the day they are asked for); API keys and the platform's fee,
single rows that the last writer wins, and whose event to the contract is simulated and
not sent; categories, search, GraphQL, health, metrics and development seeds, which
query or count; rooms of sockets, tokens and signatures as text.

The order in which the modules came: the pass store and its abstract book, the indexer
and its search, then accounts, the Stellar client, the readers of the pass table, and
the four services. What would come next: how far a reindex job can put the tier table
back, which takes a history of the jobs that ran; the tier list's cache entry, once its
key says which list it holds; receipts against a history of fees.
