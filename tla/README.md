# Aperture in TLA+

Aperture (`alsy99/smart-folio`) runs a paper portfolio of twelve Indian large
caps under an investment policy statement (IPS). A desk in Next.js talks to a
gateway, the gateway to gRPC services: trading keeps the book, learning decides
which methods trade and with what weight, sentiment reads the news with the
help of paid models, and a public campaign replays a frozen plan so that anyone
can check it. This directory holds TLA+ models of the parts of that system that
decide and remember, TLC runs over small instances of them, and TLAPS proofs of
what must hold for every instance.

## 1. Inventory

| Component | Source | State | Operations | What makes it correct |
|---|---|---|---|---|
| Tick engine | `internal/trading/engine.go` | published plan, campaign switches | `Loop`, `Tick`, `Plan`, `Execute` | a tick acts on the book it locks; no buy against a rail; a stopped, closed or ended book is not bought into |
| Paper book | `internal/trading/book.go`, `service.go` | cash, peak, positions, open trades, day's buys | close, mark, snapshot, session roll | the sleeves add up to the positions; turnover is per day |
| Core sleeve | `internal/trading/core.go`, `internal/policy/rebalance.go`, `pkg/core` | core units, last rebalance, pending | allocate, drift, plan tickets, work tickets | sales are covered; a complete job is inside the band; a large job is finished over sessions |
| Period ledger | `internal/trading/period.go` | open period, booked rows | open, flow, mark, close | booked profit is the book's profit; one row set per session, under its statement |
| Broker rails and costs | `pkg/broker`, `pkg/costs` | none (pure) | `Check`, `Room`, `RailRoom`, `MayExit`, fills, charges | no admitted buy breaks a cap |
| Operator handlers | `internal/trading/handlers.go` | campaign | `StartCampaign`, `SetAutopilot`, reads | a restart leaves nothing of the former book |
| Market clock | `pkg/marketclock` | none | `IsOpen`, `SessionsHeld` | sessions held never overcounted for weekdays |
| Policy service | `internal/policy/service.go`, `store.go`, `boot.go` | statement files, BOUND pointer | `PutIPS`, `GetIPS`, `PreviewTargets`, `Boot` | the bound pointer and the book agree, over restarts |
| Rebalance calendar | `internal/policy/calendar.go` | none | `IsRebalanceSession`, `NextRebalance` | one rebalance session in a month or quarter, its last |
| Learning | `internal/learning`, `pkg/learn`, `cmd/review` | weights, journal, closes and periods on disk | `RecordTrade`, `RecordPeriod`, the review, `Boot` | what is in memory is what is on disk; weight is lost for evidence only |
| Backtest lab | `pkg/backtest`, `pkg/strategies`, `pkg/tape`, `cmd/lab` | bar cache, roster snapshots | `RunOn`, `RunBacktest`, `SaveRoster`, `Seed` | judged on the exchange's closes, no look ahead; what trades was saved |
| LLM desk, sentiment, advisor | `pkg/research`, `pkg/llm`, `internal/sentiment`, `internal/advisor` | receipts, day budget file, reports | `Refresh`, `Run`, `AllowLLM`, `Charge`, `Pin`, chat | the day's cap and its one model; no report before its news |
| Market data, INDstocks client | `internal/marketdata`, `pkg/indstocks` | token, spacing, caches | `GetQuotes`, `GetBars`, `Snapshot` | nothing older than its time to live is served or shown |
| Campaign | `pkg/campaign`, `internal/campaign`, `cmd/campaign` | spec, bars, ledger files | fetch, run, verify, check | replayed with no look ahead; verified means same causes |
| Rate limits | `pkg/ratelimit`, `pkg/live` | tokens | `Allow` | never more than the burst |
| Gateway, web desk | `internal/gateway`, `apps/web` | the page | reads, polls, commands | what is painted was true, and comes to be so |

How they interact. `Loop` calls `Tick` once a minute and the gateway calls it
on request, so two ticks run concurrently. `Tick` reads the campaign under the
service mutex, releases it, runs `Plan` (learning's weights, sentiment's
reports, strategy signals), checks the clock, fetches quotes, and only then
takes the mutex for the whole of `Execute`. Operator calls (`StartCampaign`,
`SetAutopilot`, the policy service's `BindIPS` and `CoreInput`) take the same
mutex for a moment each. Closed trades and periods go to learning from
goroutines. Learning writes its weights file and so does `cmd/review`; the
sentiment service and the advisor share the day's budget file; every process
has an INDstocks client of its own with its own token and caches. Files are the
only thing that survives, and each is written by a rename, an append or in
place.

Hard behaviours: everything read before the mutex is stale under it; two
sleeves share one position per name; a rebalance is planned as a batch and
worked ticket by ticket; rails are per day, per name, per sector and per
drawdown and bind in combination; a build takes many sessions; statements,
campaigns and periods change at times of their own. Beside the book: appends
and writes that are cut short, read-modify-write of one file by two processes,
caches judged fresh by their ends or by their age, folds and calendars cut by
integer arithmetic, and a page painted from reads of different moments.
`PROJECT.json` lists the hazards at their lines.

## 2. Modules

| Module | What it is |
|---|---|
| `Broker` | the rails and the cost model as operators, in whole rupees and percents |
| `Allocate` | target weights, drifts and the band rule of the core |
| `PaperBook` | the book, its tickers and its operator as a state machine, with all properties |
| `Portfolio` | what the book promises its client, as an abstract specification |
| `MCPaperBook` | instances: sectors, statements, what `Plan` may see |
| `PaperBookProofs` | sums over the names, the operators, types, the sleeves, the sales, the turnover cap, the halt, the satellite's slice, the period ledger, the account |
| `PolicyStore` | `PutIPS`, the statement files, `BOUND`, the boot and the freeze as a state machine |
| `StatementRegistry` | what the policy service promises, as an abstract specification |
| `MCPolicyStore` | instances: what is frozen |
| `PolicyStoreProofs` | types, the freeze, the pointer, the refinement, the acknowledged put |
| `Review` | the weight review of `pkg/learn` as operators, weights as exact shares |
| `Learning`, `MCLearning` | the learning service over its directory, with `cmd/review` beside it |
| `LearningProofs` | memory and file, backup, journal and ledger |
| `WalkForward` | signals, folds, gate, verdict and bar alignment of the lab as operators |
| `Lab`, `MCLab` | cached bars, runs of the lab, roster snapshots and their adoption |
| `LabProofs` | what trades was saved and has earned, no look ahead, the closes judged on, the folds |
| `Calendar` | rebalance sessions and the next one, over the sessions a tape shows |
| `Campaign`, `MCCampaign` | tape, replay, ledger, verification and commits of the public campaign |
| `CampaignProofs` | verification and commits, no look ahead, the rebalances, the forecast |
| `Research`, `MCResearch` | news, receipts, budget file, models and tilt |
| `ResearchProofs` | asked once, one model a day, the cap, no later news |
| `IndStocks`, `MCIndStocks` | the broker client of two processes, market data and the health page |
| `IndStocksProofs` | the ages of what is served, the spacing of requests |
| `Gateway`, `MCGateway` | the limiter, the page and the services that stop |
| `GatewayProofs` | the limiter's burst and what the page paints |

`PaperBook` and `PolicyStore` meet in `BindIPS`: the book of the one is a
position under a statement that may change at any time, the book of the other
is only the statement it is under. `Campaign` extends `Calendar`, `Learning`
extends `Review` and `Lab` extends `WalkForward`: the algorithm is a module of
operators, the process that calls it a state machine. What one component takes
from another is a constant of its model that may be any of several values:
`Rosters` of `Learning` is what `Lab` adopts, `Tilts` of `PaperBook` what
`Research` tilts, `Picks` of `Campaign` what the lab finds.

`PaperBook` follows the code's own structure:

| Code | Model |
|---|---|
| `Service.cash, peak, pos, coreQty, open` | `cash`, `peak`, `pos`, `coreQty`, `sat` |
| `Service.dayKey, dayBuys` | `dayKey`, `dayBuys`; `bought` is a history variable the code has not |
| `Service.ips, coreLastRebal, corePending` | `ips`, `lastRebal`, `pending` |
| `Service.period, periods, lastMarks` | `period`, `rows`, `lastMarks` |
| `Service.camp`, `Service.plan` | `camp`, `plan` |
| a goroutine inside `Tick` | `pc`, `saw`, `quote` of a ticker |
| the locals of `Execute` | `ex`, the frame of the tick that holds the mutex |
| `Tick` | `TickStart`, `TickEnded`, `Plan`, `Check`, `GetQuotes`, `Lock` |
| `Execute` | `Lock`, `ExitTrade`, `CoreSession`, `PlanSell`, `SellsPlanned`, `PlanBuy`, `BuysPlanned`, `CoreTicket`, `CoreWorked`, `SatelliteStart`, `Satellite`, `Finish` |
| `StartCampaign`, `SetAutopilot`, `BindIPS`, `CoreInput` | `StartCampaign`, `SetAutopilot`, `BindIPS`, `PreviewTargets` |
| the clock | `CloseMarket`, `NextDay`, `CampaignEnds` |

Execute is split at its loop iterations. While it holds the mutex no other
step is taken (`Idle` guards every other action). That loses nothing: a step
of another goroutine outside the mutex touches only its own `pc`, `saw` and
`quote`, or reads the published `plan` and `camp` that Execute does not write,
so it commutes with the steps of Execute.

`PolicyStore` follows the calls:

| Code | Model |
|---|---|
| `<id>.json`, `BOUND` | `disk`, `bound` |
| frozen ledgers of `campaign/` | `frozen`, written by `Freeze` (`cmd/campaign -run`) |
| `Service.ips` | `book` |
| a goroutine inside `PutIPS` | `pc`, `put` of a client: `PutStart`, `StorePut`, `SetBound`, `OnPut`, `PutFails` |
| `policy.Boot` and `main` | `phase`, `chosen`: `Start`, `TryPreferred`, `TryPointer`, `TryOnly`, `TryDefault`, `PointDefault`, `BootBind` |
| the end of the process | `Crash`, possible between any two of these |

`acked` and `since` are history. A file is written beside and renamed over, so
a put file is there or not. A statement is its id and its terms, and its hash
stands for both (`ips.Hash` is over every field). Validation is left out: an
invalid statement is answered before anything is read or written.

`Learning` follows `internal/learning/service.go`:

| Code | Model |
|---|---|
| `closes.jsonl`, `closes.bak.jsonl`, `periods.jsonl`, `weights.json` | `closes`, `backup`, `periods`, `weights`; a line may be `Cut`, or `Bad` where a later line ran into a cut one |
| `Service.snap`, `journal`, the trading set | `snap`, `journal`, `roster` |
| the newest 200 closes of `bootJournal` | `JournalCap`; `booted`, the lines the last boot read, is history |
| `RecordTrade`, `RecordPeriod` | actions of those names, with failing and cut writes |
| `maybeWeekly` and `RunWeekly` | `MaybeWeekly` (loads without the lock), `RunWeekly`, `RunWeeklyFails` (under it) |
| `cmd/review` | `ToolLoads`, `ToolSaves` |
| process | `Boot`, `Crash`, `CrashInReview`, `CrashInRecordTrade`, `CrashInRecordPeriod` |
| `learn.Reweight`, `ReweightPeriods`, `ApplyReview` | `Reweight`, `ReweightPeriods`, `ApplyReview` of `Review` |

`Lab`: `RunBacktest` of a call, of `Seed` and of `cmd/lab` is the action
`RunBacktest` (fetch and judge), then `SaveRoster`, then `ApplyBacktest` under
the lock. `WalkForward` translates `strategies.Evaluate`, `simulateFold`,
`oosWindows`, `walkForward`, `passesGate` and `RunOn` in whole rupees, basis
points and thousandths, and `bars`, `Days` and `Closes` of `pkg/tape`.

`Campaign`: a command of `cmd/campaign` is `Begin`, one `ReplayDay` a day, and
`Save`, `CrashInSave` or `Verify`; `Edit` and `Commit` are what a maintainer
does between them. A price stands for the session it was printed at and a day's
equity for everything it was computed from, so that two equities agree exactly
when their causes do. `Tick` and `CoreWorks` are `coreLocked` and `Rebalance`:
the core works on its first session, on a session of the calendar and while work
is pending (`Pending`), and not while it is halted (`Halted`). The same days
pass for the live desk (`how = "live"`), which has no tape to tell it of a
holiday.

`IndStocks`: a caller is `at[c]`: waiting for its turn (`throttle`), minting a
token, in flight, pausing before its retry. `GetQuotes`, `GetBars` and
`Snapshot` begin a call from the caches, `Send`, `Retry`, `Served` and `Fails`
are its requests. Times are ages that stop at the limit the code compares them
with, and `Tick` passes one unit.

`Research`: `Refresh` gathers and clusters, `Consider` is `Desk.Run` up to the
model, `Complete`, `Answer`, `ProviderFails`, `ReadForPin` and `Pin` are the
chain for either process, `ReadForCharge` and `Charge` the budget file's
read-modify-write, `TickEnds` the moment the book's tick takes its tilt.

`Gateway`: `Read` is one request through the limiter to its service or its
fallback, `Paint` what the page shows when the last is answered, `Press`,
`Execute` and `Refuse` a command. The book and the statement are version
numbers.

### What is abstracted in the book

* Money is whole rupees and weights are whole percents (basis points for
  targets). A rail is a floor; a whole-rupee notional is inside the code's
  rail if and only if it is inside the floor.
* Slippage is the flat 4 basis points of a name whose average volume is not
  known, rounded against the book. Charges are 12 rupees (brokerage and GST)
  plus 0.115% on a buy (STT and stamp duty) and 0.1% on a sale; the exchange
  and SEBI fees of a fraction of a basis point are left out. The charge of a
  sale is taken on its proceeds.
* Average prices, profit columns, excursions, trade lessons, benchmark scores
  and logs feed the desk and the journal, never a decision, and are left out.
* The satellite's methods are one track; a name the tilt stands aside from is
  a name without a score. `Plan` may see any of the `Views` with any of the
  `Tilts`, and the roster may be empty (`Rosters`).
* The rows of one period close are one record with their summed profit. Its
  field `under`, and the variable `bought`, are history for the properties.
* A name of `Unquoted` has no series on the tape and so never a quote.
* Ticks of different days run at the same time of day, so a hold is a whole
  number of days; the closing minute, in which the market is open and the
  session already counts as held, is a choice of its own (`TicksAtClose`).
  The `SessionHold` of six hours is implied by a session held.
* Which days are rebalance sessions is a constant (`RebalanceDays`).
* A tick has a context of twelve seconds: none is in flight over a night.
* `SCALP_MODE`, the market clock override and `SetStrategyWeights` (one of the
  inputs of `Plan`) are left out.

### What is abstracted elsewhere

* Learning: a close has a strategy, a regime and a sign; a period has a sleeve,
  a method and the sign of its excess. Weights are shares and so exact; the
  halving per losing tag or statement and the floor (`1 / Parts` of the total for
  the code's 0.05) are kept.
* Lab: a tape prints one close a day, and before it a candle that may stand at
  any of `Mornings` (`Quote`, until `CloseMarket`); highs are three thousandths
  above the close. A file of bars is its first and its last day and what the last
  one showed when it was fetched, as the days before are closes for good. Of a run
  only fetch and save are separate steps. Charges are as in the book.
* Campaign: a month has ten days; the replayed tick is reduced to what the
  calendar, the quotes, a halt and pending work decide. Whether a book is halted
  and whether a session's work leaves every name in its band are unknown
  functions of the rules, the book and its marks (`Halts`, `Finishes`);
  `PaperBook` says what they come of. The live desk's day is one tick at its last
  mark; work that finishes in a later tick of the same session counts as one.
* IndStocks: an answer is the names it holds and its age; what a name costs and
  what a bar says are left out.
* Research: an article is its title; about which name it is, is a constant.
  Which clusters are material is a choice. Every provider has a key.
* Gateway: of thirteen reads there are four, one for each service and way to
  fail: trading's and sentiment's fail the refresh, learning's have a fallback at
  the gateway, a failed statement is caught on the page. They are answered in the
  order they are sent and a poll waits for the one before. The page's error line
  is left out.

## 3. Runs

| Run | Properties | Instance and what it shows |
|---|---|---|
| `PaperBook` | `TypeOK`, `LedgerReconciles`, `HaltStopsBuys`, `SatelliteWithinSlice`, `KeepsAccount`, `CompleteMeansInBand` | one ticker, two names, marks of 500 and 1000, five days with a rebalance on the last, a 95/5 statement with a 9% halt; ticks may run in the closing minute; the book implements `Portfolio`, and a job that says it is complete is |
| `Race` | `SleevesReconcile`, `TurnoverPerDay` | two tickers, three names of which two share a sector and one is never quoted, two days, the second a rebalance session, three operator calls, two statements and none at boot, failing quotes, an empty roster, a campaign that ends |
| `Build` | `CoreGetsBuilt` | twelve names in six sectors as shipped, fifteen days, one price |
| `Statement` | `AckedPutSurvives`, `KeepsPromise` | one client, four puts, two crashes at any step, ledgers unreadable or frozen meanwhile: the service implements `StatementRegistry` with its fairness |
| `Store` | `FrozenKept`, `PointerNamesFile` | two clients, three ids of which two are frozen, a preferred id, three puts, two crashes, any file operation may fail |
| `Learning` | `MemoryIsFile`, `BackupHoldsLedger`, `JournalHoldsLedger`, `LossNeedsEvidence`, `LosersNeverGain`, `DueIsReviewed` | two methods, two closes of which a boot lists one, a period, one death or failed write anywhere, `cmd/review` once: memory and files agree but for what failed, weight moves on evidence only, a due review happens |
| `Campaign` | `VerifiedMeansSame`, `NoLookAhead`, `RebalancesOnTime`, `CheckedMeansReproducible`, `ForecastKept` | fifteen days over the ends of months of ten, two tapes with a holiday (one while work is pending, one on the last weekday of a month), four specs (monthly, folded, quarterly with a shock that halts the book, none), two rosters, two programs, two edits or commits at any time |
| `Lab` | `ClosesAreTheExchanges`, `FoldsAreSeenOnce`, `NothingEarnedNothingTrades`, `AdoptedWasSaved`, `NoPeeking` | three days of runs before and after the close, over tapes with halts and with a late listing, candles that stand low or are not there yet, six methods, the boot's run and `cmd/lab` at once, one death or failed save |
| `IndStocks` | `QuotesAreRecent`, `LiveIsRecent`, `CallersSpaced`, `VenueIsSeen` | two callers for quotes, for bars or for the health page, two listed names, no token, a pasted one or a minted one, a venue that is slow, wrong, silent and well again |
| `Research` | `OneModelPerDay`, `CapHoldsOnTodaysNews`, `TiltSeesNoLaterNews`, `AskedOnce` | two articles an hour apart about one name, two models, two days, one failed write or death, or one chat of the advisor |
| `Gateway` | `PaintedWasTrue`, `BurstBounded`, `PageCatchesUp` | polls and one command through a bucket of eight, trading or sentiment stops once, learning at any time, the book changes |
| `DayCap` | `DayCap` (refuted) | news of yesterday is charged to yesterday, so today may see more completions than its cap |

Bounds of the book, all constants of `PaperBook`: `MaxDay`, `MaxTicks` in a day,
`MaxCommands` in all. Two prices a factor of two apart are enough to halt the
book, to push a name over its cap and out of its band, and to bring all of it
back; two names are enough for a rail that binds on the second because of the
first. A session's turnover cap is an eighth of the 81% core of the twelve
names, so the build needs nine or more sessions: `Build` has fifteen days. Five
days let a satellite position reach its three sessions of minimum hold. Two
ticks in flight are enough for every race here, as the book is the only thing
they share. `Race` has marks that halve and double between the two.

Every property of a passing run fails on a mutant of the code's logic; the
mutated operators stand before the originals in the modules, and
`PROJECT.json` pairs them.

In `PolicyStore` the bounds are `MaxPuts`, `MaxCrashes` and `MaxFreezes`. Two
puts are enough for a race and a third or fourth comes after a restart; two
crashes let a boot die that recovers from the first. Two terms for an id are
enough to tell a change. TLC stops at a bounded end, so these runs do not check
for deadlock.

The other bounds. `Learning`: `MinN` is 2 in place of 20 and both fills reach
it; `JournalCap` is 1 in place of 200, so that a boot on two closes lists less
than the ledger; one death or failure (`MaxFaults`) falls at any step.
`Campaign`: `MaxEdits` 2 lets the inputs change and change back, or be committed
between a run and its verification; the build and every rebalance take two
sessions (`MCFinishes`), so that one is pending over a holiday and another over
the end of a month, and the shocked book is halted on the eighth and ninth of a
month (`MCHalts`), once with its build pending and once when it was to
rebalance. `Lab`: a year has three days, so that three days of runs move the
folds by one; `Slack`, `Lag` and `Stale` are one day (the code's 45, 7 and 7),
so a file of before the close is used on the day after and no longer.
`Roster.cfg` (`MCLab`) has a second call of `RunBacktest` besides, over two days
without candles, and checks `AdoptedWasSaved` once more. `IndStocks`: `Gap`,
`Pause` and `Timeout` are one unit and the caches live two, so an answer can be
on its way while an entry expires. `Research`: `DayLen` 2 and `MaxTime` 2 give
an hour on either side of midnight; `MaxCalls` 1 and `MaxTokens` 3 against a
cost of 2 make both caps bind; more than one fault and more than one chat leave
what five minutes can check. `Gateway`: the eight of `Burst` are the reads of
two refreshes, and a refill of four a second those of a poll.

Five runs assume fairness. `Build` (`PaperBook`'s `FairSpec`): ticks and Execute
go on when they can, days pass, and a session of a running campaign is not over
before some tick of it has taken the mutex. The last is what the code's ticker
gives: `Loop` ticks every minute and a session has 375 of them. No operator ever
has to act. `CoreGetsBuilt` speaks of a campaign started on the first day
because a later one has too few days left within `MaxDay`. `Statement` uses
`PolicyStore`'s `FairSpec`: a handler that has begun and a boot that has begun
run on, as a goroutine does; nobody has to start the process, to put anything or
to kill it. `Learning`: the hourly ticker looks, and a review that has begun
ends; nobody has to start the service and a ledger may be unreadable for good,
so `DueIsReviewed` speaks of a service that runs on a ledger it can read.
`IndStocks`: time passes, the trading service and the health page go on asking
(both are tickers), and a request ends by the client's timeout at the latest;
the venue owes nothing, so `VenueIsSeen` supposes that it answers from some time
on. `Gateway`: time passes, the page's timer runs, a request that was sent is
answered, and whoever runs trading and sentiment starts them again: the page
cannot show what nobody serves, and as long as sentiment is away no refresh is
painted, its reads being neither caught nor answered for. Learning may stay away
for ever. `Lab`, `Campaign` and `Research` claim safety only.

### Disagreements

`DayCap` is what `README.md:100` of the repository says: "Hard cap on LLM calls
per IST day (default 5)". `Desk.AllowLLM` asks the file of the clock's day
(`desk.go:68`), and `Run` charges the day of the story (`desk.go:150`).

The following configurations are kept beside the runs; TLC finds a
counterexample under each of them, a legal sequence of calls.

| Configuration, module | Property | What the repository says | What the code does |
|---|---|---|---|
| `DeskStop`, `MCPaperBook` | `StoppedMeansNoBuys` | `docs/spec.md:103-105`: "A human can stop the book without a deploy: 1. Desk **Stop** (autopilot off)." | a tick in flight read the switch before its quotes and still fills (`engine.go:56`) |
| `AfterHours`, `MCPaperBook` | `ClosedMeansNoBuys` | `docs/spec.md:108`: "Paper fills also refuse when the market clock is closed" | the clock is asked before the quotes; only the core asks again (`engine.go:62`) |
| `TailTwice`, `MCPaperBook` | `TailClosesOnce` | `engine.go:48`: "The tail period closes once at the last marks the book saw." | a late tick opens a period that the next closes as a second tail (`engine.go:201`) |
| `Rebind`, `MCPaperBook` | `PeriodUnderItsIPS` | `period.go:44`: "periodTrack is the open period for the book under its IPS." | `BindIPS` keeps the open period, the close writes the new statement (`service.go:175`) |
| `HaltedMonth`, `MCPaperBook` | `OnePeriodPerSession` | `core.go:164-167`: "A calendar rebalance session closes the period that ran since the last one" | a halted session closes one at every tick (`core.go:168`) |
| `TwoWriters`, `MCPolicyStore` | `BookUnderBound` | `internal/policy/store.go:19`: "Bound is the statement the live book is under" | two interleaved puts set `BOUND` and the book in different orders (`internal/policy/service.go:98`) |
| `MonthEnd`, `MCCampaign` | `RebalancesOnLastSession` | `docs/spec.md:19`: "**Rebalance session** = last NSE session of the civil month (monthly IPS) or of the quarter (quarterly). Dates come from NIFTY50 candle dates, not a weekend calendar." | the dates reach up to now, so on the day itself no later session is known and the civil weekday rule decides (`calendar.go:58-67`), in the replay as at the desk: a month whose last weekday is an exchange holiday is not rebalanced |
| `HalfCandle`, `MCLab` | `DaysOverAreCloses` | `pkg/tape/indstocks.go:1`: "Package tape gives the method lab real daily closes" | a run's window ends at 23:59 of today, `DailyHistory` keeps any candle with a close (`history.go:60-69`), and `bars` uses the file while it ends within a week of the window, whenever it was fetched (`indstocks.go:86`): a day that is over may be judged on a price of its morning |
| `LiveMarks`, `MCIndStocks` | `NeverMockAsLive` | `README.md:16`: "Mock PnL is never presented as live NSE." | the health page speaks of its own client, while a name the venue left out is marked from the mock (`marketdata/service.go:82`) |

What the code does at the end of a month is `RebalancesOnTime`, which holds; how
long an unfinished candle is used `ClosesAreTheExchanges` bounds.

What else the models brought up, where no document says otherwise: the service
writes over what `cmd/review` wrote (`learning/service.go:207`); a torn line of
`closes.jsonl` blocks every later review; a strategy at weight zero is raised to
the floor by a losing tag (`weekly.go:68`); a cap that is spent stops the tilt,
a cap of zero does not; the order of a story's items changes its cache key; the
advisor pins the day's model and is not budgeted; an empty list of reports
makes every read refresh; a read that fails and is not caught holds the whole
page as it was, while a failed `GET /ips` is painted as no statement;
`sentiment_tilt` can never pass the lab's gate, which has no news.

## 4. Proofs

Every theorem is about the specification a run checks, with every value of the
constants their `ASSUME`s admit. What those assume is typing and what the code
fixes: at least one name, marks of 20 rupees or more (below that a sale may be
worth less than its charges and a fill may round to nothing), statements
`ips.Validate` admits, a search for the next session that outlasts a quarter.

A sum, a walk over days or a run of the lab is a recursive function, and the
library's induction theorems, which take an operator, cannot be used with the
provers at hand. Such facts are proved by a least counterexample instead
(`WFMin` over the naturals, or over the parts of a finite set): the set of the
days, or parts, for which the fact fails has a least element, and what precedes
it contradicts it.

### The book (`PaperBookProofs`)

Over every universe, sector map, set of prices, statements, tickers and bound.

* `TypeCorrect`. One lemma per action, over typing lemmas of the operators.
  That the sum over all names is an integer, and what becomes of it when one
  name changes, are the lemmas on sums the other proofs share.
* `SleevesAlwaysReconcile`, `SalesAlwaysCovered`. `SleevesReconcile` alone is
  not inductive. A waiting sale subtracts its units from the position in full
  and from the core only down to zero (`sellCoreLocked`), so a sale of more
  than the core has would break the sum. `TicketsInv` adds that a waiting sale
  is covered, that no name is sold twice (`SellsOnce`, which needs
  `SellsInOrder` while the sells are planned) and that no ticket survives its
  plan (`TicketsWait`). `BookInvariant` proves the conjunction. `SellsCovered`
  is a part of it and no run's own property: a run that broke it would deal
  more than the account has, which `KeepsAccount` forbids.
* `TurnoverAlwaysCapped`. `TurnoverCounted`: while a tick holds the mutex the
  book's counter belongs to the exchange's day and has seen every buy of it,
  and a ticker at the lock has today's clock. An admitted buy fits under what
  `TurnoverRoom` leaves, so it fits under the cap, and no other step buys.
* `HaltAlwaysStopsBuys`, `SatelliteAlwaysWithinSlice`. `MarksInv`: while a tick
  holds the mutex, every position is carried at the quotes of that tick, which
  holds only because a name without a quote is never held, ticketed or bought.
  Then the equity a buy is checked against is the equity at the quotes, and a
  fill lowers it by its charges and slippage, never below what the rail has
  just admitted.
* `LedgerAlwaysReconciles`. `LedgerInv`: what the booked rows and the open
  period have earned is what the book has earned. The open period's account of
  cash (`Accounts`) is: its equity at the start, plus what each sleeve's flow
  adds, less the sleeve's value then. Each fill moves cash and one sleeve's
  flow alike; a mark moves neither.
* `AccountAlwaysKept`: the book implements `Portfolio`. The mapping is exact, the
  account's units being the two sleeves' and its mark the quotes of the tick.
  `TicketsPriced`: a waiting ticket asks for a unit or more at the fill of the
  name's quote, so a fill is a deal at a price the market shows. A sale never
  brings more than its units are worth and always something, as no mark is
  below 20 rupees. An admitted buy is no more than the cash beyond the rails'
  buffer of a tenth of the book and no more than a name's cap of 8%, so the
  buffer pays its charges (`AdmittedIsPaid`).
* `NothingEverOwed`: hence, with types, neither cash nor units are ever owed,
  although the fills subtract their cost without a look at what is left
  (`core.go:215`, `engine.go:322`).

### The policy service (`PolicyStoreProofs`)

Over any clients, ids, terms and bounds.

* `PointerAlwaysNamesFile`, with file errors and crashes: a put at `SetBound`
  and a boot at its own have stored the statement (`PointerInv`).
* `FrozenAlwaysKept`, with file errors and crashes, assuming that no ledger is
  written meanwhile (`PutIPS` checks before it stores and never again, and
  `FrozenIPS` passes over a ledger it cannot read, so a put beside
  `cmd/campaign -run` may change what it freezes) and that IPS A is frozen as
  it ships, since `Boot` does not ask: every statement about to be stored or
  bound is one the freeze allows (`FrozenInv`).
* `RegistryImplemented`, assuming one client, no file errors and no ledger
  written meanwhile (`TwoWriters` shows why one client): every step is a step
  of `StatementRegistry` or a stutter. `PromiseInv` says where a put or a boot
  in progress stands; without it a bind could take up a statement that is not
  on record. The registry's fairness is only model-checked.
* `AckedPutAlwaysSurvives`, assuming one client, readable and writable files
  and no `IPS_ID`, which overrides the pointer by intent. Ledgers may be
  frozen or torn meanwhile. `AckedInv` follows an acknowledged statement from
  the disk and the pointer through a boot's choice to the book.

`TypeCorrect` of this module types every state of the store; it is what the
others rest on, and no run repeats it.

### The gateway and the page (`GatewayProofs`)

Over any bucket, poll and bound.

* `BurstAlwaysBounded`: what passed this second and what the bucket holds are
  together at most the burst (`BurstInv`); a request moves one from the one to
  the other, a second empties the first.
* `PaintedAlwaysTrue`: of a refresh under way (`RefreshInv`) whose reads have
  not failed, the book read is not older than its beginning, as
  `GET /portfolio` is not caught and has no fallback; the page takes both over
  when it is painted.

### The learning service (`LearningProofs`)

Over any methods, rosters, faults and reviews.

* `MemoryAlwaysFile`, `BackupAlwaysHoldsLedger`: inductive as they stand, one
  step per action. Whatever leaves a file other than its copy is in `drift`,
  and only the action that puts it right takes it out.
* `JournalAlwaysHoldsLedger`, for any `JournalCap`: the journal lists the lines
  written since the boot and the newest `JournalCap` before them, newest first,
  which a line cut short and one that runs into it do not disturb (`Lists`, a
  place in the journal for each of these lines). Older lines are on disk only
  (`bootJournal`).
* `LossAlwaysNeedsEvidence`, `LosersNeverGainAtAll`. `EvidenceInv`: the rows a
  review loaded, however long ago, still stand in the ledgers, since a ledger
  only grows and a torn line costs only the one that runs into it. So whatever
  counts `MinN` in a review counts `MinN` on disk. A review is then a chain of
  scalings (`NoGain`): the share of what does not shrink is multiplied by one
  ratio, that of what shrinks by no more, and `Reduced` divides both alike.

### The broker client (`IndStocksProofs`)

Over any callers, venue behaviour, limits and times to live.

* `CallersAlwaysSpaced`. `SpacedInv`: a caller sleeps at least as long as its
  place in the queue asks, so what it has slept and what it still has to sleep
  are together no less than the gap after what it saw last sent.
* `QuotesAlwaysRecent`, `LiveAlwaysRecent`. `AgesInv`: what a cache entry holds
  is at most a request's timeout older than the entry; the time to live bounds
  the rest.

### The desk of language models (`ResearchProofs`)

Over any feeds, providers, caps and clocks. One invariant, one lemma per action.

* `AskedAlwaysOnce` (`AskedInv`): a key put to a model has a receipt or is at
  the desk, and the story at the desk had none when it was taken up.
* `OneModelAlways` (`PinInv`): the answers of a day that is not loose (its pin
  neither lost nor raced) are of the model its file has pinned, and who asks a
  pinned provider asks that one.
* `CapAlwaysHolds` (`CapInv`): on a day no charge was missed, the file counts at
  least what the day's own news has cost, and a story let past the cap still
  has its place. A copy about to be written back is the file itself, or a
  charge was written between and the day is missed. It speaks of today's news;
  that of yesterday is the disagreement `DayCap`.
* `TiltAlwaysPast` (`NewsInv`): nothing a tilt is made of was published later
  than the bar it is for.

### The public campaign (`CampaignProofs`)

Over any tapes, picks, specs and programs.

* `VerifiedAlwaysSame`, `CheckedAlwaysReproducible`. `ReplayInv`: the book and
  the lines of a replay are a function of the inputs it loaded (`BookOn`,
  `LinesTo`), day by day. `GitInv`: what git said of the inputs and of the
  ledger was so: the commit holds these inputs if the tree was clean. Hence two
  ledgers that agree were computed from inputs that agree in all the replay
  reads, and a commit replays to what it names.
* `NeverLooksAhead`: inputs that agree up to a day (`Alike`) give walks that
  agree up to it, by the least day on which they would not.
* `ForecastAlwaysKept`: the session announced is the first weekday ahead that
  ends a period (`ForecastIs`), as long as the tape grows by weekdays only.
* `RebalancesAlwaysOnTime`, on every tape, a month that ends on a holiday among
  them, and for every `Halts` and `Finishes`. On the day itself the calendar ends
  with that day at the latest, so a day is a rebalance session exactly when it is
  the last weekday of its period (`CivilLastIs`, `PeriodGrows`). `WorkInv` says of
  each day so far whether the core worked on it; that a day adds work at its end
  only, and so changes nothing of what an earlier day found unfinished, is
  `WorkAdded` and `UnfinishedIs`.

### The lab (`LabProofs`)

Over any tapes, parameters, horizons and deaths.

* `AdoptedAlwaysSaved`. `SavedInv`: a whole file was written by a save, and what
  a call is about to adopt is what it saved.
* `NothingTradesUnearned`: on closes that only fall, with no candle above a close
  before it, no method passes the gate.
  A long-only book on falling closes is `Lean`: with a position it is worth at
  most the cash it began with, and without one it has not gained either. So each
  fold earns nothing or less, the compounded product of the folds is at most
  one, and the gate refuses. `BarrenInv` carries it through runs, snapshots and
  adoption.
* `NeverPeeks`: two tapes that agree up to a day give the same signals, fills
  and books up to that day; the walks are compared day by day.
* `ClosesAlwaysTheExchanges`, whenever the bars were fetched. `CacheInv`: of a
  file only the last day may show anything but the close (`IsFile`), and bars on
  disk or just fetched are what the exchange printed but for that day (`BarsAre`).
  A file in use ends no more than `Lag` days before what is asked for (`FetchedIs`),
  so what a method is judged on at a session is what the exchange printed last by
  then, and every session of the index is there, but for the first `Slack` days and
  the last `Lag`.
* `FoldsAlwaysSeenOnce`, as long as folds begin past the first quarter of the
  days (`FoldsAreLate`), as the last two of three or more whole years do; the
  code asks for five. The cuts are ordered, so no day is in two folds. A method
  is judged on names with a print in all but a quarter of the days, so the first
  print comes before the fold and nothing in it is filled backward. In the `Lab`
  run `FoldsAreLate` holds in every reachable state.

### Only model-checked

* Liveness: `CoreGetsBuilt`, `DueIsReviewed`, `VenueIsSeen`, `PageCatchesUp` and
  the fairness in `KeepsPromise`.
* `CompleteMeansInBand` (in `PaperBook`, where jobs complete; in `Race` a name that is
  never quoted keeps its job pending) is no theorem for every price: the job rounds quantities
  down, so a share dearer than a percent of the book can leave a name outside
  the band, and a name exactly on the edge of its band is pushed over it by the
  charges of the others. The run checks it at prices of the universe's order.
* That a name without a quote keeps its mark at zero is part of the tape
  (`Unquoted`), so no proof speaks of a name that loses its quote while held.

## 5. Plan

1. `Broker`, `Allocate`, `PaperBook` and their proofs (done).
2. `PolicyStore` and `StatementRegistry` with their proofs (done).
3. `Calendar`, `Campaign`, `Learning`, `Lab`, `Research`, `IndStocks`, `Gateway`
   (done), with a module of proofs each (done).
4. The proof of every safety property a run checks that holds of every
   instance (done; section 4 names the one that remains with TLC).
5. `Portfolio`, an abstract account that `PaperBook` implements, with the
   step-by-step proof (done).
6. A directory of statements shared by two policy services; a name that loses
   its quote while it is held.

## 6. Not modelled, and why

* The desk's panels, formatting and charts: they show what `Gateway`'s page holds.
* `gen/` is generated from the protocol files and has no behaviour of its own.
* `pkg/prices`, the mock's random walk: `LiveMarks` only asks whether a mark is
  the mock's.
* The option chain and the order calls of `pkg/indstocks`: nothing of the paper
  desk calls them; the order limiter of `pkg/live` is armed on no path.
* The providers' HTTP and the prompts; which story is material and what a thesis
  scores is a matter of the text.
* Sentiment scores, trade lessons, excursions, benchmark scores, the statistics of
  the lab and of `GetJournal`: they are shown, and no model's decision reads them.
* Fundamentals, regimes and the notes of `pkg/ta`: text for the reader of a trade.
