# Verification of the Kalshi pair-trading bot

The program in `src/kalshi_betting` looks for pairs of prediction markets that are worth more together than they cost, buys NO contracts in one market of a pair and YES contracts in the other, and once a week sells, trims and adds to what it holds.
It trades real money against an exchange that offers no atomic two-order request, whose replies can be lost after an order was carried out, and whose positions ledger is a little late.
Its settings are chosen from pages that a backtest builds, so the backtest and its pages have to tell the truth too.
This directory holds TLA+ models of the parts where that matters, TLC configurations that check them on small instances, and proofs, checked by TLAPS, that the main results hold for every instance.

Contents: [the system](#1-the-system) · [the plan](#2-the-plan) · [the modules](#3-the-modules) · [the runs](#4-the-runs) · [fairness](#5-fairness) · [the proofs](#6-the-proofs) · [where code and words disagree](#7-where-code-and-words-disagree) · [what is left out](#8-what-is-left-out).

Line numbers are those of the files in `src/`; `PROJECT.json` maps every definition to the lines it models (a small helper whose lines lie inside those of the definition that uses it is not listed again) and lists the hazards each property is for.

## 1. The system

One process per run, started by the weekly scheduler, by the live-settings page, or by hand.
Inside a run everything is sequential except the purchases, which a small thread pool makes.

```
scheduler.py ──starts──┐
defaults_server.py ────┼──> main.py --env prod ──> scanner (read) ──> seller (plan sales) ──> trader.sell_positions
by hand ───────────────┘      │  run_lock: one           │                                        │ account changes
      ^                       │  real-money run          └─> strategy (size, select) ──> trader.ensure_shard_collateral
      │ links                 │  at a time                                              ──> trader.execute_trades
      │                       └─ reporter: trade log, result file ──> read by defaults_server and by a person
dashboard.py pages <── backtester.py <── historical.py, market_details.py <── Kalshi's past markets
```

| Component | State it keeps | Operations | What is hard | What makes it correct |
|---|---|---|---|---|
| Pair purchases, `trader.execute_trades` and below | two process-wide latches about the order mapping, the list of unchecked pairs, per-pair baselines and status; the exchange's positions | buy NO, check the mapping, buy YES, re-read, unwind | lost replies, a late ledger, several pairs inside the mapping check at once, a wait for a verdict that may never come | the reported status is what the account holds; contracts held before are never sold; a wrong mapping costs at most one position and that one is named |
| Write pacer, `trader._WritePacer`, `_PairWrites` | credit, held credit, two waiting lines under one condition variable | acquire, hold, spend a hold, release, interrupted wait | notification without a timeout, interrupts between being served and returning, unwinds that must not wait behind purchases | no leaked hold, no lost wakeup, never faster than a token bucket, every wait ends |
| Shard funding, `trader.ensure_shard_collateral` | balances per exchange shard, accepted transfers, pairs still payable | plan transfers, post them, wait for arrival, drop unpayable pairs | refused, lost and late transfers; partial balance reads | what is kept can be paid; no shard is drained below its own need; money under way is reported |
| Position sales, `trader.sell_positions` and below | per-sale counts, two positions | sell first leg, size the second by what really sold, read back | partial fills, lost replies, an outside trade between plan and sale | the hedge is never oversold; the report is the account's change; a changed holding is not sold |
| Weekly scheduler, `scheduler.py` | state file (last slot, last result, retries), one registered job, one registered retry | start-up catch-up, weekly run, blind retry, record keeping | a crash between record and run, failed writes, a host that sleeps, the clock passing the weekly time during a run | a slot is traded at most once; a blind slot is retried within the cap; no slot is lost |
| Live settings page, `defaults_server.py`, with `run_lock.py` and `main.main` | page nonces and tokens, the last started run, result files, the OS lock | show page, save, start a run, notice its end, restart | pages kept open, double posts, restarts between any two steps, kills | one real-money run at a time; a run trades what its page showed; no save is undone; no warning is skipped |
| Settings, `config.py` | `live_defaults.json` | read, bring up to date, validate, write, flags of a run | power cuts, files of older versions, a file saved while a run boots | the file is whole after every cut; an old file never trades more unsaid; a run trades what it was asked |
| Production run, `main._run_prod` | cash, positions, sales, trades, exit code | read, sell, read back, size, fund, buy, record | figures from before the sales used after them; failures after money moved | nothing sold is bought back, cash is not overspent, every order sent is recorded or flagged |
| Market scan, `scanner.py` | none beyond one run | paged reads, coverage of shards, grouping into pairs, ladders of held positions | listings cut short, repeated or on halted shards; exemptions for what is already held | coverage is claimed only if it was had; an offer meets nothing held but what it adds to; it is the best of its group |
| Selection and sizing, `strategy.py` | none | Kelly size, selection under cash, ticker and ladder limits, a last look at the books | the price depends on the size; books move in between | a size is right at its own price; what is picked can be paid and filled |
| Sale planning, `seller.py` | none | plan sales, trims and add-ons from positions, fills and settlements | lists of the past that are cut, unreadable or about other stakes | what is sold, trimmed or added to was due, judged with its own partner |
| Market history, `historical.py`, `market_details.py` | day slices, assembled files, answers about events and markets | resumable fetches, merges, extensions, migrations | kills between slices, Kalshi's moving archive cutoff, failed lookups | what is served lacks nothing before the second it claims; nothing learned is forgotten |
| Backtest, `backtester.py`, `backtest.py`, `depth_model.py` | cash, books of open trades, markets and ladders in use; grids of results | find entries, walk through the days, skip runs of a grid | one account in many books with their own moments; two programs that promise one rule | the books agree; a skipped cell is its own run's result; entries are what the live scan offers |
| Backtest dashboard, `dashboard.py` | pages, chunk folders, the reader's choices | pack data, publish, load, save | families that fail half way, builds side by side, data arriving late | a choice shows its own run; a page keeps its folder; a save sends what is on screen |
| V2 probe, `v2_probe.py` | one cent and one position on the exchange | four steps run by hand | orders whose effect is what is to be found out, late reads | a verdict is true; what is left open is told |
| Exchange client, `_http.py`, `auth.py` | none | signed requests, retries, balances | what may be sent twice is decided by each caller | – |
| Trade log, `reporter.py` | the workbook, the run's result file | append, rescue dump | a failed write after trading | every trade sent is on disk somewhere |
| Live dashboard, `live_portfolio.py`, `live_dashboard.py` | snapshot and sale history | read-only pages, refresh | two servers sharing files | a page shows one consistent snapshot |
| Data page and glossary, `eda.py`, `glossary.py`; treasury interest, `treasury.py` | generated pages; a cached rate | render; fetch | – | they show, and decide nothing |
| Launcher, `start_dashboard.sh`, `scripts/` | – | start processes | – | – |

The components interact in five ways.
A run calls its parts in order (scan, sell, size, fund, buy) and hands each one what the last one *observed*, not what it ordered.
Pair threads share the pacer and the two latches.
Processes share the OS lock, `live_defaults.json`, the scheduler's state file, the result files, and the backtest's caches and pages.
A page's links and its save button carry settings from the backtest to the live run.
The exchange is shared with the account's owner, who may trade at any time.

## 2. The plan

In order of importance. The first twelve are written.

1. `PairTrade` – one batch of purchases: the part that can lose money silently.
2. `WritePacer` with its abstraction `TokenBucket`, and `WriteWindow`, an observer that counts its writes.
3. `ShardCollateral` – funding between balance and purchases.
4. `PairSale` – one sale.
5. `Scheduler` – what starts runs.
6. `LiveRuns` – the lock, the settings page, and the runs it starts; `Settings` – the file they share.
7. `ProdRun` – the whole production run, with what 1, 3 and 4 promise as its environment.
8. `LiveScan`, `PairSizing`, `Holdings`, `KellyTrim` – what a run decides to buy, how much, and what to sell.
9. `Corpus`, `EventStore`, `MarketSide` – what is kept on disk between backtests.
10. `PairScan`, `Replay`, `SweepReuse` – the backtest, and that it replays the live scan.
11. `PageChunks`, `PagePublish`, `FilterPage`, `FilterMenus` – the page, from its data to a reader's save.
12. `Probe` – the tool that tries the order path.
13. The proofs, in the order of what a run can cost: `PairTrade`, `PairSale`, `WritePacer`, `Scheduler`, `LiveRuns`, `PagePublish`, `ProdRun`, `Corpus`, `ShardCollateral`, `Probe`, `Settings`, `EventStore`, `MarketSide`, `LiveScan`, `FilterPage`, `FilterMenus`, `Holdings`. Not begun: the sizes of `PairSizing` and `KellyTrim`, and the backtest's own properties.
14. Not begun: `live_portfolio.py` and `live_dashboard.py` (snapshots of two servers that share files), and a composition of `Scheduler` with `ProdRun`'s exit codes.

Modules that belong to one phase of the program are put side by side, in behaviours that are each about one of them: they share no state in the code beyond what one hands the next, and each takes that as its input, from every value in a small set.
Where theorems are stated about them this is a module of its own, which the MC module extends to give the constants their values: `Funds` (`PairSale`, `LiveScan`, `ShardCollateral`, `Probe`, `Holdings`; `MCFunds` adds `PairSizing` and `KellyTrim`), `Stores` (`Corpus`, `EventStore`, `MarketSide`, `Settings`; `MCStores`) and `Pages` (`FilterPage`, `FilterMenus`; `MCBacktest`, which adds the other modules of the backtest for the checker only).

Abstract specifications: `TokenBucket` for the pacer (a refinement, proved); a comparison of two programs in `PairScan` (scan and backtest) and `SweepReuse` (a skipped cell and its own run); reference definitions beside the algorithms in `KellyTrim`, `MarketSide`, `PairSizing` and `LiveScan`.

## 3. The modules

### Orders

**PairTrade** (`trader.py` 2313–3283).
A pair is one signed position per leg, NO negative.
`main`, `nextp` and `expired` are the submitting thread: it submits one pair at a time and waits for a verdict on the mapping until the time budget of that phase runs out (`Watch`, `BudgetExpires`), then lets the pool run `Workers` pairs together, and returns when all have ended.
A worker's `pc` walks through `_execute_one`: baselines, add-on check, NO order, its reply or the re-read after a lost one, `_confirm_v2_no_mapping` with its bounded re-reads, YES order, re-read, `_rollback_no_leg`.
Each action is one exchange call with what the code decides from its answer.
An order's effect and its reply are one step, because nothing else reads the answer; a *lost* reply leaves the effect and tells the code nothing.
The ledger's lateness is the variable `lag`: a reading taken after `k` pauses with `k <= lag` may show the newest position any reading has shown instead of the true one.
`Worlds` is the set of starting situations: the plans, what the account holds, what a NO buy really does to the signed position (opens NO, opens YES, nothing), and the lag.
An outside trade may hit a market of a pair; the properties about that pair's contracts then say only what they can (`touched`).

**WritePacer, TokenBucket, WriteWindow** (`trader.py` 494–900).
`WritePacer` has the lock as a variable, one action per critical section of `_WritePacer`, a `Condition.wait` as two steps (sleep, wake), and the interrupt that can end a wait at any moment.
`_PairWrites`' two holds per pair and the unwind line are in it.
Time is a `Tick` that earns one token; the seconds per token are left out.
`TokenBucket` is the abstract specification: a credit of at most `Burst` that a tick raises and a write lowers.
`WriteWindow` adds an observer who begins to watch at any moment and counts ticks and writes.

**ShardCollateral** (`trader.py` 1797–2311).
`ensure_shard_collateral`: read balances, `_plan_shard_transfers`, post each transfer, poll until arrival, deadline or nothing left to await, then `_drop_unpayable` and the alert.
A portfolio is a sequence of pairs with a cost on each of two shards; money in flight arrives at any later moment or never.
A reply may be lost with the transfer accepted (the code never re-sends), a balance read can fail wholly or miss a shard.

**PairSale** (`trader.py` 3285–4002).
One `_sell_one`: a whole sale or a trim of a pair, or of a lone position.
The first leg's order fills any part; the second sells exactly what the first sold, or what the re-read shows; a lost reply is settled by re-reads with the same late-ledger rule as in `PairTrade`.
`sell_positions` calls it for one sale after another and keeps nothing between them, so one sale is the whole component.

**Probe** (`v2_probe.py`).
The four steps, each an order or a transfer whose effect (`world`) is what the step is to find out: every combination is an initial state.
It assumes that after the pause before a re-read a position is no longer late, and that nobody else trades the probed market; both are what the tool asks of the person who runs it.
Where the tool's own words say that a branch prints no verdict (`v2_probe.py:729`), the model's outcome says nothing either.

### What a run decides

**ProdRun** (`main.py` 276–780 and 1776–2396, with what it calls in `scanner`, `seller` and `strategy`).
One real-money run, from the balance to the exit code.
It composes the other trading modules by their results: `SellOne` takes any outcome `PairSale` allows, `Fund` may drop any pair, as `ShardCollateral` does, and `Buy` gives each pair a status of `PairTrade` and the contracts that status allows.
`pos` is what the account holds and `led` what its ledger shows; each re-read of the listing may show any part of what was sold that it has not shown yet, or none.
A listing may be cut short and then leaves out any markets.
Prices, dates and waits, which decide *which* positions are sold, trimmed or added to and which pairs are candidates, are left to choice, so the properties hold for all of them.

**LiveScan** (`scanner.py` 2700–5400, `main.py` 1935–1988).
Shard flags, the two paged listings with their stops, `check_shard_coverage`, the ladders the account is on, and the two searches with their rules for additions, gaps, fees and the best of a group.
A page's content may change between two requests, so a market may be seen twice or not at all.
`served` is what the exchange put on the pages, in order, and `listed` the places of what the run took from them; a group is a set of places, and its best pair the first, in the code's order of looking, that no other beats.
`Runs` gives each behaviour what it may find.
The listing claims full coverage of *shards*; it may be logged although a listing was cut short, and the properties say so.

**PairSizing** (`strategy.py`, `scanner.py` 6300–7440).
The books read in either generation of keys, the price of a size as two sums, `compute_trade` for new pairs, add-ons and the partner of a lone leg, `select_portfolio`, a move of the books, and the last look before the orders.
Prices are whole ticks and fractions are compared by multiplication.

**Holdings, KellyTrim** (`seller.py`, `config.py` 4700–5100).
`Holdings` is several days of settlements, sales, trims and additions of two stakes that may share their later market, with lists of the past that start late or are unreadable; `KellyTrim` the number of pairs a trim sells and the size cap from which that number is the same.
A settlement is stamped with a time of its own, up to a day ahead of the run that sees it. Among the settlements of one question, that of a stake bought later bears no earlier stamp (`Settle`): it was bought when those before it had been seen settled. Without this, four trades and a stamp in the future are enough for a lone market to be judged with another stake's partner, once its own is older than `MaxAge`.

### What starts runs

**Scheduler** (`scheduler.py`).
The clock is a counter of slots' fractions; `Week` ticks make a week.
The daemon registers one weekly job and at most one blind retry, polls, and runs the bot *inside* the poll.
`state` is the state file, `retry` lives in memory only, a run ends with an exit code that the code sorts into finished, blind and failed.
A kill loses memory and keeps the file; a write of the file may fail; a sleeping host lets the clock jump.

**LiveRuns** (`run_lock.py`, `defaults_server.py`, `main.main`, `reporter.write_run_report`).
Runs (started by the page, or elsewhere by the scheduler or by hand), the OS lock, each run's result file, the server's memory, and pages with their nonce, token and the settings they showed.
A request that is refused changes nothing and is left out of the step relation.
A momentary lock check by the server can spoil one try of a run's bounded tries for the lock.
The order in which runs end is the order in which their trading ended.

**Settings** (`config.py` 3700–5600, with the link and command line of `defaults_server.py`).
Settings are a function of eleven fields; a link, a file and a command line each name some of them.
`disk` is what a power cut now may leave of the file: a write that is not flushed leaves any of the old file, the new one and a torn one.
A save is its own steps (write, flush, rename, flush of the directory, read back), and a run reads the file some time after it was started.
A durable save is claimed for the step that answers *saved*: after a save whose directory flush failed, saving again answers that there is nothing to save, and flushes nothing.

### The backtest

**Corpus** (`historical.py`).
Day slices of archive and live endpoint, their stamps, the assembled file, its extension, and the stale file served on failure, against a Kalshi that settles markets and moves its archive cutoff.
Every file is written beside its name and renamed, so a killed write leaves no trace; a file that cannot be read is a missing one.

**EventStore, MarketSide** (`historical.py`, `market_details.py`).
Answers, titles and series kept of events, with capped lookups and a migration that may die half way; the candles (in windows under every reading of their ends), details, trades and close rules kept of a market.
Both assume that calls of one process follow one another, as the code's callers see to.

**PairScan, Replay, SweepReuse** (`backtester.py`, and the searches of `scanner.py`).
`PairScan` has the live search and the backtest's side by side on one corpus, in markets and weekly moments.
`Replay` is `_simulate_at_discount`: cash, payouts to come, open trades, markets and ladders in use.
`SweepReuse` is every deterministic world of two decisions, and the rules by which a grid cell is not simulated.

**PageChunks, PagePublish, FilterPage, FilterMenus** (`dashboard.py`).
The walk that packs each distinct trade list once, with any family failing half way; builds side by side that make, lock, rename and clean folders; the page's script between a reader's choice and the data it loads; and the menus whose ticks a save makes live.

## 4. The runs

Every bound is a constant of the module and appears in the `.cfg` file or in the MC module's instance.

| Run | What it asks | Why the bounds are enough |
|---|---|---|
| `pair` | Are reports true, are older contracts kept, are additions made to the holding they were planned for, and is the mapping judged right? | Two pairs and two threads give every overlap of two mapping checks, which is what the latches are about; two contracts tell a partial unwind from a whole one; two faults let a leg lose its reply and its re-read fail; three re-reads against a lag of 0 or 2 put the late ledger on both sides of the check, and a wrong mapping meets a ledger on time and one late by a pause; one outside trade on either market. |
| `pair_ends` | Does the batch always return? | One worker and a queue of two is where the submitting thread depends on the pool; two faults end a pair without a verdict. |
| `pacer` | Are holds and lines exact, is no wakeup lost, is the rate that of a bucket, does every wait end? | Three callers are one that holds, one in each line; a burst of two with one hold reaches both the full and the empty bucket; interrupts are unbounded. |
| `funds` | Of sales, the search, transfers, the probe, the plans and the sizes: see below. | Sales: up to two contracts a side, a lag of two under three re-reads, three faults. Search: up to three pages of two listings, with markets that repeat, change or stop trading between pages; up to three rungs of a question on one or two events, two twins, and one market held elsewhere, each varied in prices, dates, fees and holdings against a plain case. Transfers: three shards give one target two sources and one source two targets, two pairs compete, two faults are a lost transfer and a failed read. Plans: four days, three trades, two stakes that share a market. Sizes: books of up to four levels whose average rises within them, a fee that decides, five scans in which pairs share a market, a ladder or nothing, cash for none, some or all. |
| `sched` | Is a slot traded once, are blind slots retried and capped, is none missed? | Three weeks of six ticks: a slot, its successor and a retry chain that crosses between them; two kills can fall between record and run and again in the catch-up; one failed write and one sleep. |
| `sched_late_retry`, `sched_blocked` (violations) | Is a retry only for an unsatisfied slot; can a run block the next slot? | See section 7; no kills, faults or sleeps are needed. |
| `live` | One trader, the settings of the page, one run per page, no lost save, no skipped warning? | Two runs and two pages compete in every order; two server sessions put a restart between any two steps; one kill; two values of the settings, which are interchangeable (symmetry, safety properties only). |
| `prod` | Is nothing sold bought back, do purchases fit what is held, is the bankroll real, is every order on record, does a clean exit code mean a clean account? | Five markets: one question at three deadlines gives an exact pair, a lone leg, a new market for it and a market that fits neither; two markets on a second question, one of them on the event of the first, give a ladder shared across questions. Two contracts tell a trim from a whole sale; two re-reads after the first listing put the ledger on both sides of the last. |
| `stores` | Is what is kept on disk complete, never forgotten, and are settings what was saved and asked? | Three days and two markets put each settlement on either side of the cutoff and of a day's end; one fault and one move of the cutoff anywhere between runs. Events: two events, one lookup a call, three calls (learn, lose, learn again). Markets: windows of one to four requests. Settings: four pages, every old file with one or two retired keys, one save and one run at a time. |
| `corpus_cutoff` (violation) | Is a served file complete when the cutoff moves *during* a run? | See section 7. |
| `backtest` | Do the books agree, is a skipped cell its own run, are entries what was offered, does a page show its runs and save what it shows? | Walk: four pairs on shared markets and ladders over five days, two held at a time. Grids: every world of two decisions with three levels, days, moves and sizes. Pairs: two or three markets by wording, dates, prices and filing, each varied against the others' usual case. Pages: two cells, caps, moves and selections; three builds, so one cleans while another publishes and a third is killed. |

`live`, `stores`, `corpus_cutoff` and `backtest` do not check for deadlock: their pages, runs, calls and days are used up. Everywhere else a final state has a step of its own.

The runs take from a few seconds to about three minutes; the largest, `pair`, `prod` and `sched`, have two to three million states.

The type invariants of `PairTrade`, `WritePacer` and `PairSale` and the pacer's `CreditBound` are proved (section 6) and are not part of a run.
Type invariants of the other modules are implied, where they could fail, by the properties that are.

What the properties say:

* `ReportMatchesAccount` – with a prompt ledger and no outside trade, *executed* means both legs are there, *failed* and *rolled_back* mean nothing was left, whatever replies were lost.
* `OlderContractsKept` – no order of a pair, an unwind least of all, leaves fewer of the contracts that were there before the batch.
* `AddsOnlyToPlannedHolding` – an add-on buys nothing where the account no longer holds what the plan saw.
* `MappingJudgedRight` – with a right mapping, a ledger less late than the re-reads never stops the run; with a wrong one, and a ledger that one pause brings up to date, at most one pair ends wrong while the check can read; and the pairs that went ahead unchecked are named.
* `BookkeepingExact`, `WokenInTime`, `RateBound`, `EveryWaitEnds` – the pacer's holds and lines are what the callers hold and wait for, through interrupts; nobody sleeps on credit that is there and an unwind never waits for another pair; the pacer refines a token bucket; and each wait ends.
* `KeepsWhatCanBePaid`, `AlertIsRight` – the funding step keeps what can be paid, drains no shard below its own need, drops nothing when all can be paid, and raises its alert exactly when accepted money is under way (up to the case of section 7).
* `SaleReportMatchesAccount`, `HedgeNeverOversold`, `SellsOnlyThePlannedHolding` – for one sale.
* `TradesAreDue` – a sale, trim or addition was due by the true past, and a stake is judged with the partner it was bought with.
* `SizedAtItsPrice`, `PickedCanBeBought` – a size is within its budget and its gain at the price of that very size, what is held counted; a trim sells what its own price wants, and the cap from which its number is fixed is right; the portfolio is within the cash at its limits, no two trades meet, and what passed the last look fills on the books looked at.
* `ProbeSpeaksTrue` – a verdict is what the exchange does, what is left open is told, and no more than a cent is at stake if the exchange keeps its rules.
* `SlotsNotRepeated`, `SlotsNotMissed` – outside the two situations of section 7.
* `NeverRebuysSold`, `PurchasesFitHoldings`, `ValueBackedByContracts` – what a run's purchases may touch and are sized on, however late the ledger was after its sales; the middle one needs a first listing read to its end and no position opened elsewhere, the last that sales counted short have shown.
* `EveryOrderAccountedFor`, `NoSilentImbalance` – at the end of a run, by error or Ctrl-C too, the result says when orders may have been sent and every sale and purchase is on record unless the run was interrupted; an exit code for a clean run means no pair was left uneven, given a whole last listing that had caught up. A ledger still late at the last re-read leaves a short count unflagged, which the repository's notes record (`docs/claude/key-patterns/selling-and-rebalancing.md:21`).
* `OneTrader`, `TradesWhatWasShown`, `PageRunsAreSingle`, `PagesActOnWhatTheySaw` – for the settings page, across restarts.
* `ServedIsComplete`, `NeverForgets`, `StoresAreKept` – a served file lacks no market settled before the second it claims, in runs during which the archive cutoff stands still (`CompleteBelowFrontier` is about the others); no cache forgets one; answers, titles, candles, details, trades and close rules are what Kalshi said and are not lost.
* `RunsAreAsked`, `SettingsAreKept` – a run trades what the page that started it showed, or the file's settings under the flags it was given; the file is whole after every cut, and an older file never trades more without saying so.
* `BooksTrue` – the equity curve is the walk's cash, every book tells the same story, nothing is bought the day it was sold, one stake a ladder.
* `EveryCellIsItsOwnRun`, `EntersWhatIsOffered` – a skipped cell would have come out the same; scan and backtest agree, both ways, and a held pair keeps its kind.
* `PageIsItsRun`, `SavesWhatIsShown` – each scenario is drawn from its own run's data whatever failed, and the page in place has its folder; the save button sends what is on screen, and a live run with the saved filter trades what the page kept.
* `ScanIsTrue` – what a run says of the shards is so, nothing is scanned on a halted one, and an offer is of open markets, on no ladder of another holding, and the best of its group.

## 5. Fairness

Safety runs use a specification without fairness.
`pair_ends` uses `FairSpec`: weak fairness of every pair's steps and of the submitting thread, because each is a running thread whose exchange calls have timeouts. The expiry of the time budget is *not* assumed: the wait must be released without it.
`pacer` assumes that whoever has the lock goes on (weak fairness of the step inside it), and strong fairness of `Tick`, of a sleeper's wake-up and of the use or release of a hold: time passes however often the lock is taken, and a thread that asks again and again for a lock that is free again and again gets it. A pair that holds a place uses or releases it, because `_PairWrites` does so in a `finally`.

## 6. The proofs

All are checked by TLAPS to the last leaf, under the modules' named assumptions on constants (counts are naturals, `Unread` is no integer, every world is well formed) and nothing else.

* `PairTrade_proofs` – `TypeCorrect`, `PairKeepsOlderContracts`, `StatusIsTrue`, `AddOnsFitTheirPlan` and `MappingIsJudgedRight`, that is every safety property of the runs `pair`, for any number of pairs, workers, contracts, re-reads, faults, outside trades and any lag. `ReportMatchesAccount` is not inductive: it speaks of ended pairs, and says nothing of a pair between its orders. The strengthening `AccountIInv` says for every `pc` what the account must look like there: unmoved up to the NO order, moved by a NO buy or not while its reply is unknown, and so on; and that a baseline, once read, is the position before the pair. With a late ledger the part about status falls away and the part about older contracts does not, which is why they are separate conjuncts. The verdict on the mapping needs more. `Calm`, for a right mapping, rests on `AccountIInv` and on `Marked`: a pair whose baseline could not be read is among those that met a fault, and the re-reads outlast the lag, so the last change read is the true one. `OddInv`, for a wrong mapping, says what a pair holds at each step (`OddAccount`: it reaches its YES order only by a failed reading, and then it is on the list), that pairs run one at a time until the disproof and none begins after it (`OneByOne`), and that the one pair moved is the one at work, or the one that disproved the mapping (`CostsOne`).
* `WritePacer_proofs` – `TypeCorrect`, `CreditIsBounded`, `NoHoldLeaks`, `LinesAreExact`, together `BookkeepingIsExact`; `RateIsBounded`, `WritesAreBounded` and `NobodyOversleeps`: all that the run `pacer` checks but liveness, for any callers, any burst and any number of hedge writes. `PacerInv` relates the counter of holds to the callers' states, which an interrupt changes in between; the refinement needs it because a write spends either credit or a hold. `WritesAreBounded` is the docstring's own limit, at most `Burst + T` writes in any `T` ticks whenever the count begins; the count alone is not inductive, `Watched` bounds writes plus remaining credit. `WokenInTime` is not inductive either: it speaks of moments at which the lock is free. `WakeInv` says that one thread has the lock (`OneHolder`), and that whenever the front of the line depends on a waiting thread, because nobody unserved has the lock (`Quiet`), some waiting, unserved thread's sleep is over, or waits for the end of a hold only, or is no longer than what the front still lacks (`Timely`). A thread that takes the lock unserved is such a thread itself when it blocks again, and one that is served takes the lock and gives it back without changing any of this.
* `Funds_proofs`, about sales – `TypeCorrect`, `HedgeIsNeverOversold`, `OnlyThePlannedIsSold`, `SaleReportIsTrue`, for any plan, holding, lag and faults. `SaleIInv` says at each step what both legs have sold relative to what the code believes; `ToldInv` adds, for a ledger the re-reads outlast, that what the first leg is believed to have sold is what left the account.
* `LiveRuns_proofs` – `OneTraderAlways`, `ShownIsTraded`, `PageRunsStaySingle` and `PagesActSeen`, that is all four properties of the run `live`, for any number of runs, pages, servers and kills, any settings and any wait for the lock. `LiveIInv` has five parts: the shape; what a run's step says of its lock, tries, result and place (`RunInv`); what the request in work has already passed (`RequestInv`: from the check of its own runs to the start, none of the page's runs is going on); what pages and runs have to do with each other (`PageInv`: a page that started a run is used up for the server that issued it, and every version of the defaults was made from a page of its own, which bounds the versions by a pigeonhole argument); and that a person was asked, unless nothing was left for one (`WarnInv`). None of the four properties is inductive: each speaks of runs, and what keeps it true is what the server checked one or two steps before.
* `Scheduler_proofs` – `SlotsAreNotRepeated` and `SlotsAreNotMissed`, all of the run `sched`, for any week length, delay, cap, horizon and number of kills, failed writes and sleeps. `SchedIInv` has four parts beside the shape: no slot after the recorded one has had a run, and the recorded one has had as many retries as the file says (`Recorded`); a run in progress has claimed its slot (`Running`); a registered retry is the only one of its slot, which had no run that counts, it is next in number, and its slot comes before the weekly job's, unless a retry strayed into that slot (`Registered`); and the weekly job is due after the recorded slot (`WeeklyLater`). `SlotsAreNotMissed` rests on `Unmissed`, which holds as long as no write failed and no run raised: the weekly job stands as it was registered, at a moment whose slot was claimed or began during the run that was ending (`Timed`); a run that is to register it has claimed the present slot, or this one began meanwhile (`Prompt`); and a polling or sleeping daemon remembers the retry of a blind slot (`Remembered`). The slots' arithmetic (a week has one slot, the slot of a moment never decreases) is a handful of lemmas of its own.
* `ProdRun_proofs` – `SoldStaysSold`, `PurchasesFit`, `ValueIsBacked`, `OrdersAreAccountedFor` and `NoImbalanceIsSilent`, that is all five properties of the run `prod`, for any finite set of markets, any ladders, pairs, accounts and values, any number of re-reads and outside trades. None is inductive: each speaks of the time of buying, or of the end, and rests on what the run believed several steps before. `ProdIInv` keeps for every phase what the run believes beside what is so. `Sales` and `Ledger` say that every sale is as `PairSale` reports it (told as it was, or less by a trailing account, or for a person to look at), that no market is sold twice, and that the ledger lies between the position first read and the one there is; `Holding` and `KeptOff`, that after the last listing whatever was really sold is in `SoldTickers` or still taken for held, and never both sold and added to, because a planned market is no add-on; `Evened`, that a listing which shows the sales turns a short count into a case for a person; `Backed`, that the value kept is one the contracts of a whole listing pay and the sales no longer stand in; `Fits`, that a pair was found and chosen against this listing and these add-ons, which no later step changes. The properties then follow from a few lemmas about what is held (`HeldIsKnown`, `LedgerAsHeld`) and added to (`AddOnIs`: a held pair shares no label with anything else held).
  The sums (`Contracts`, the proceeds, the two legs of a held pair) are the community modules' fold over a finite set. What is proved of it (`TotalIsNat`, `TotalRemove`, `TotalGrows`, `TotalOfTwo`) is by the smallest subset for which it fails: the subsets of a finite set are well founded under inclusion (`FS_StrictSubsetOrderingWellFounded`, `WFMin`), which needs no induction theorem that takes an operator. That a sum exists at all (`SumsExist`) comes first, because the fold is a CHOOSE.
* `Corpus_proofs` – `WhatIsServedIsComplete` and `NothingIsForgotten`, the two properties of `Corpus` in the run `stores`, and `FilesAreComplete`: for any markets, days of any length, windows, horizon, kills, failed requests and lost files, *while the archive cutoff does not move during a run* (`~ MovesMidRun`). The condition is needed: `FilesAreComplete` is exactly what the run `corpus_cutoff` refutes without it (section 7), so a cutoff that moves under a run is the only thing that makes a file incomplete. `CorpusIInv` says of each store what makes it enough for the next: an archive day holds all that its stamp's cutoff can ever put there (`ArchSound`); a live day has elapsed and holds what the archive does not (`LiveSound`); an assembled file lacks nothing below its frontier, which is past, also when the frontier is only inferred from the newest record (`FileSound`); and a run's last reading lacks nothing older than what it holds, nothing before the frontier day and nothing of the old file (`SpoolSound`). The last part is the subtle one: it is what makes an inferred frontier safe although markets go on settling while the run reads. `AssembledHas` then puts every such market into the assembly, by way of the archive, a day file, the last reading or the old file. The run `stores` has days of one tick; the proof has days of any length, so settlements during a day, before and after a reading, are covered by it.
* `Funds_proofs`, about transfers – `FundingTypeCorrect`, `PaidFromWhatIsThere` (`KeepsWhatCanBePaid`, and that each transfer takes spare cash only) and `AlertIsTrue`, for any finite set of shards, any balances and portfolios, any number of looks at the balances and any number of faults. `CollateralInv` says that every balance is the opening one less what was taken from it and plus what has arrived (`BalanceIs`), that the code's reading is the opening one or, after the requests, no more than what is there now (`ReadingPast`), what holds at each stage (`Stages`), and that without faults every request is taken (`FaultFree`). The heart is the plan, a recursive function on the number of moves: a move takes no more than its source can spare, no more than its target lacks, and ends one of the two (`MoveFacts`), so after as many moves as there are shards nothing is short or nothing can be spared (`AfterFacts`, by counting up to a finite number, `CountingUp`), and a plan of an account that can pay for all leaves nothing short (`PlanFacts`). The sums are the community modules' fold, reasoned about as in `ProdRun_proofs`; `TotalBalance` compares four of them element by element.
* `Funds_proofs`, about the probe – `ProbeIsTrue` (`ProbeSpeaksTrue`), for any size of the probe's order, when the marks of a failed lookup are no numbers and no verdicts (`ProbeAssumption`). `ProbeInv` keeps for every point of the four steps the position there is, as what the exchange's behaviour (`world`) makes of the orders sent so far, beside what was last shown: the verdict depends on `world` only through them.
* `Funds_proofs`, about the search – `ScanSpeaksTrue` (`ScanIsTrue`: what a run says of its listing, and what it offers), for any listings and pages, any flags of shards, holdings, add-ons, prices, dates and fees, and any of the code's thresholds. `ScanAssumption` says that while a run looks, a ticker is one market's, under one event and in one wording (its price, date and state may differ from one page to the next); that times are numbers, and `None` is neither a number nor an answer; that what may be added to is held; and that the multipliers a fee may be lowered by are within the full fee. `ScanIInv` says that `listed` is every market read that was open and on no halted shard, and that what is said of the shards, the ladders and the offers are what this listing gives; they stay so because no later step touches the listing (`SameListing`, `SameOffers`). The weight is in what the definitions give, each proved of the code's own form against the property's plain one: the flags, of which the last one for a shard counts (`StatusesAre`); the market held, as listed or looked up, and the ladders, which are those of what is held in any reading of it (`HeldIs`, `LaddersAre`); what an offer adds to, which is one holding whose markets are all in the pair (`AddOnForIs`); the fee, which is never below the sure one (`FeesAre`); and then each kind of pair against `IsDue` (`SeriesDue`, `TwinDue`). Two markets of a pair have two tickers: for a pair that adds to something the code looks, for others it follows from the text or the event, which is where the assumption on tickers is used (`TwoMarkets`). `BestIs` says that an offer is one no candidate of its group beats.
* `Funds_proofs`, about the positions held – `TradesDue` (`TradesAreDue`), for any finite set of markets, questions and closing days, any trades and settlements, any level, checks, waiting days and age of a partner, and whatever of the past a list leaves out. The property speaks of the last trade only; `HoldInv` says what makes the next one right. What is held was bought with one other market of its question, nothing else of that question is held, and its last trade is among the account's days (`Mated`); that other market is still held, as many contracts (`MateHeld`), or it has paid out, as many as are held since unless the market was traded alone, and no settlement of the question bears a later stamp (`MatePaid`). The last part is what settles the hard case: a partner too old to be listed is not replaced by another stake's, because then every candidate on the question is too old (`PartnerTrue`). That a position has rested although its trades may not be listed is `WaitedIsRested`: what the list leaves out is older than what it begins with.
* `Stores_proofs`, about settings – `RunsTradeWhatWasAsked` and `SettingsStayWhole`, for any settings that may be set together, any older files and any flags (`SettingsAssumption`: no file is the mark of a missing or torn one, an older file has a retired key, the switch is a switch). `SettingsInv` says that the file, and all that a power cut may leave of it, are texts the code wrote or an older version did (`Contents`); that the page shows what its link proposes over the settings it saw (`OpenPage`); that a save is of what its page showed and has gone as far as it says (`UnderWay`); and that a run has the flags of its page (`Started`). The lemmas on reading are the ones it rests on: a text that was written is read back as what it was to write although defaults are left out of it (`TextIsRead`), and an older file's proposal is legal and leaves out what it left out.
* `Stores_proofs`, about events – `EventsStayTrue`, for any number of events, lookups and calls (`EventAssumption`: the mark of what is absent is no title and not the mark of a damaged file). `EventInv` has a part for each file. `AnswersInv` says that a file that parses holds Kalshi's answer, an unreadable entry or nothing for each event. `TitlesInv` says that what was returned is what is on disk. `SeriesInv` says that the copy of Kalshi's listing is never ahead of the listing, that labels that were returned are never ahead of the copy, and that fees are of the same reading as the labels or a later one. `Kept` (nothing learned is lost) is about a step, and follows with the invariant from what each call starts from: `AccumulatorIs` says what of the titles' two files, the one of before and the one of now, the merged contents have, whichever of the two could be read, and whether they may replace the file.
* `Stores_proofs`, about markets – `MarketStaysWhole`, for any candle length, any page of at least three candles, any horizon, moments of opening and closing, and any thresholds of the close rule (`MarketAssumption`: the mark of what is absent is no number and no record). `CandlesInv` says that a kept file, and an answer, hold what Kalshi serves for the window they are of as if it could be asked for in one request. The rest is arithmetic of the windows that it is really asked for in: their starts are a step apart (`Spans`), one of them is the first that reaches the end (`LastStart`), and a candle anywhere in the market's window lies in one of them and is left out by neither end, whether Kalshi counts an end in or out (`WindowsCover`). `DetailsInv` says what the records of a damaged file still are: the last one that parses decides, and a torn one is passed over, so no damage takes the fields away. `TradesInv` says that only a union whose volume is the market's is kept, and such a union has every trade, whichever of the two places holds it. `RulesInv` says that the rule learned from a series does not depend on the observation it started from: a field that fits all observations by one offset has that offset from each (`RuleIsOne`).
* `Stores_proofs`, both together – `WhatIsKeptStays` (`StoresAreKept`).
* In `Corpus_proofs`, about `PagePublish`: `PageKeepsItsFolder`, for any number of builds, when `NoBuild` is neither a build nor a folder's mark. `PublishInv` says that only the build under the lock is between taking it and its cleaning (`UnderLock`), that the folder of a build at work bears a mark that is not old (`Guarded`), that the page is of a build past its rename, so none that still fails (`PagePlaced`), and that the build that cleans never comes to its own folder and finds its own page in place, unless one without the lock came over it (`SparesItsOwn`).
* In `Corpus_proofs`, about `Pages`: `PageSavesWhatIsShown` (`SavesWhatIsShown`), for any scenarios, chunks, mixes and limit of kept data, and any categories, tags and spellings. `PageAssumption` says that the page is rendered with a scenario that was simulated, nothing ticked, that a block of ids is no chunk, and that at least one drawn chunk is kept; `MenusAssumption` that a page's categories and tags are those of its pairs, and that the names no backtest saw are new in any spelling. `ReaderInv` says what a page that works holds: its own chunk and those drawn last, once each (`Kept`); a picture drawn from the chunk its choice names, which it still holds (`Drawn`); and if a choice waits, a load under way of just what that choice needs, the block or, once that is in, the chunk (`Waits`). From it follows `Unanswered`: data that comes for a choice nobody waits for any more is never what the selects name, so it is let go and the count of what is held stays right. `TicksInv` says of the menus that what is ticked has all its twins and that no tag is ticked under a category that is; `SentIs` turns names compared by letter case into names on the bar, and `SavedIs` and `NoteIs` compare the live rule with the page's.

The theorems of `Funds_proofs` are about the behaviours of each part with the constants and variables `Funds` gives it, those of `Stores_proofs` and the last one of `Corpus_proofs` about the behaviours of `Stores` and `Pages`; these begin with the lemmas that a step of the composed system is a step of one part or leaves it alone. `PageKeepsItsFolder` is about `PagePublish` alone, instantiated in `Corpus_proofs` over constants and variables of its own.

The assumptions say what the code's constants are, and TLC evaluates them for the values of the runs, with one exception: `SettingsAssumption` is stated for any set of field values, and the set of all settings over it is too large to enumerate; it holds for the settings of the run `stores` by inspection.

Only model-checked: liveness (`BatchReturns`, `EveryWaitEnds`), and the properties of the sizes (`PairSizing`, `KellyTrim`), of the backtest (`PairScan`, `Replay`, `SweepReuse`) and of the page's data (`PageChunks`). Liveness under fairness and statements with ENABLED are outside this prover; the library's induction theorems are too, since they take an operator. What the sums and folds of `PairSizing`, `KellyTrim` and `Replay` compute for every input stays with TLC.

## 7. Where code and words disagree

Three runs are expected to end in a violation. Each checks one sentence of the code's own comments.

* `sched_late_retry` – a blind retry computes its slot when it fires. A catch-up that ends blind less than the retry delay before the weekly time leaves a retry that fires after the weekly run and trades the new slot a second time.
* `sched_blocked` – the weekly job is registered for the next date after the moment of registration. A catch-up, or a late weekly run, that spans the weekly time makes the daemon skip that slot, which `run_job`'s docstring rules out.
* `corpus_cutoff` – the archive cutoff is read once a run, and the live phase comes later. When Kalshi moves the cutoff in between, markets leave the live endpoint after the archive was read, and the run files the day as complete without them, although `_frontier_day_start`'s docstring says that every market settled before the frontier is there.

More points are only noted.

* The latch's comment says no pair sends anything once the mapping is disproven (`trader.py:369`). A pair that has already passed `_confirm_v2_no_mapping`'s one look at the latch still sends its YES order, and if that fails its unwind. This needs two pairs in flight, so it can happen only after the serial time budget has run out.
* A comment says a balance at the threshold proves that the accepted transfers arrived (`trader.py:2257`). A transfer whose request raised although the exchange took it lands on the same shard and can lift the balance there. `AlertIsRight` allows for it.
* When the *first* positions listing is cut short, sales and add-ons stop but time-series purchases do not, so one may land on a ladder, or against a position, that the listing left out; `_run_prod`'s docstring (`main.py:1813`) says no such trade is made on a ladder the account holds. `PurchasesFitHoldings` is violated without its condition on that listing.
* A settings page left open was acknowledged for the warning it showed, and its tick is accepted for whatever warning is current when it is posted (`defaults_server.py:3500`). `PagesActOnWhatTheySaw` asks only that a box was ticked.
* `load_market_trades` returns what it has when the side of the cutoff is not known, though its docstring promises `None` unless the trades are known in full (`MarketSide`).
* A build that puts its page in place *without* the lock, because it could not get it, while another cleans, can have its folder deleted, contrary to the docstring at `dashboard.py:12185`. `PageIsItsRun` is about pages put in place under the lock, by builds shorter than the age at which a folder counts as abandoned.
* A wrong mapping can cost more than one position when the ledger is later than one pause: the NO order of a pair fills, its reply is lost, both readings still show the old position, the pair is reported *failed*, and the next pair goes ahead (`trader.py:2827`). That the cost is one is claimed, and proved, only for a ledger that one pause brings up to date.
* `Holdings` keeps the guard on the oldest fill as the code has it; another guard already implies it.

## 8. What is left out

*Numbers.* Prices, fees and sizes are whole ticks, cents or counts from small sets; fractions are compared exactly, and the slack the code allows for floating point is left out. The price-move rule and the value check of a whole trim run (`seller.py`), the depth model, the charts, tables and the arithmetic of a mix (`dashboard.py`) are sums of prices that no property here is about.

*Wording.* Logging, HTML, notifications and the regular expressions that read a deadline out of a title are left out; an alert or a warning appears where a property is about it. `PairScan` takes the shape of a wording as an input.

*Reading.* Paging of the archive and its early stop in barren pages, the integrity sentences of `check_market`, the parsing of candles, and the check of a two-sided settlement's revenue (`seller.py:710`) are left out. A request that raises ends a run; in `LiveScan` that run hands nothing on and is not a behaviour.

*The exchange* is modelled by how the code uses it: orders that fill or are killed whole (purchases) or partly (sales), replies that are lost, transfers that are slow, a ledger that is late but never goes back to before what a reading has shown.

*Components without a module.* `_http.py` and `auth.py`: a retried request is one that each caller either may repeat (a read) or sends once; the models above have each caller's choice. `live_portfolio.py`, `live_dashboard.py`, `eda.py`, `glossary.py` and `treasury.py` show and decide nothing. The launcher starts processes. Dry runs and the sandbox run send no real-money orders.
