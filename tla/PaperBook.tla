------------------------------ MODULE PaperBook ------------------------------
(***************************************************************************)
(* The paper trading book of internal/trading under an investment policy   *)
(* statement (IPS): the tickers that plan and execute, the operator calls  *)
(* that race them, and the book they share.                                *)
(*                                                                         *)
(* A tick runs Plan and fetches quotes without the service mutex and then  *)
(* executes under it.  Execute is split at its loop iterations; `ex' is    *)
(* the frame of the Execute that holds the mutex, and no other step is     *)
(* taken while it is held (what the code reads in there was fetched before *)
(* the lock, so every other interleaving gives the same book).             *)
(***************************************************************************)
EXTENDS Allocate, Sequences

CONSTANTS
    Tickers,        \* callers of Tick
    Prices,         \* marks a name can have
    Policies,       \* the statements a client may put
    FirstPolicy,    \* the statement bound at boot
    RebalanceDays,  \* days the tape calls a rebalance session
    Views,          \* what Plan may decide: each name's long score in percent, 0 is none
    Weight,         \* weight of the signalled method, percent
    Tilts,          \* share of the satellite slice sentiment leaves, percent
    Rosters,        \* may learning leave some (TRUE) or no (FALSE) method
    CampaignDays,   \* days a campaign runs
    Unquoted,       \* names without a series on the tape: never quoted
    MayFail,        \* may fetching the quotes fail
    TicksAtClose,   \* may a tick run in the closing minute
    MaxDay,         \* bound: the last day
    MaxTicks,       \* bound: ticks started in a day
    MaxCommands     \* bound: operator calls in all

Unbound == [id |-> "none", core |-> 0, sat |-> 0, maxdd |-> 0, fold |-> FALSE]

\* What ips.Validate admits of a statement, in percents.
Statements == [id : STRING, core : 80..100, sat : 0..20, maxdd : 1..15, fold : BOOLEAN]

\* A mark of 20 rupees keeps any sell worth more than its charges.
ASSUME PriceAssumption  == \A p \in Prices : p \in Nat /\ p >= 20
ASSUME PolicyAssumption == \A p \in Policies : /\ p \in Statements
                                               /\ p.sat = 100 - p.core
                                               /\ p.id # Unbound.id
ASSUME FirstAssumption  == FirstPolicy \in Policies \cup {Unbound}
ASSUME PlanAssumption   == /\ Views \subseteq [Names -> 0..100]
                           /\ Tilts \subseteq 75..100
                           /\ Weight \in 0..100
                           /\ Rosters \subseteq BOOLEAN
ASSUME BoundAssumption  == /\ {MaxDay, MaxTicks, MaxCommands, CampaignDays} \subseteq Nat
                           /\ Unquoted \subseteq Names
                           /\ MayFail \in BOOLEAN /\ TicksAtClose \in BOOLEAN

VARIABLES
    day, open,                   \* the exchange: civil day, cash session
    ips, lastRebal, pending,     \* the bound statement and its calendar work
    cash, peak, pos,             \* the whole book
    coreQty, sat,                \* its two sleeves: core units, open satellite trades
    dayKey, dayBuys,             \* the turnover rail
    period, rows, lastMarks,     \* the open rebalance period and the booked ones
    camp, plan,                  \* the campaign and the published plan
    pc, saw, quote,              \* each ticker: where it is, what it read
    ex,                          \* the Execute frame under the mutex
    bought,                      \* history: notional bought on this day
    used                         \* what the model's bounds have spent

market == <<day, open>>
book   == <<cash, peak, pos, coreQty, sat, dayBuys, bought>>
policy == <<ips, lastRebal, pending>>
ledger == <<period, rows>>
ticks  == <<pc, saw, quote>>
vars   == <<market, policy, book, dayKey, ledger, lastMarks, camp, plan, ticks, ex, used>>

-----------------------------------------------------------------------------
(* Records of the book.                                                    *)

NoTrade == [qty |-> 0, entry |-> 0, opened |-> 0]
Flat    == [qty |-> 0, mv |-> 0]

NewTrack(mv) == [mv0 |-> mv, flow |-> 0, peak |-> mv, maxdd |-> 0]

NoPeriod == [from |-> 0, under |-> Unbound.id, eq0 |-> 0,
             core |-> NewTrack(0), sat |-> NewTrack(0)]

NoTickets == <<>>

EmptySnapshot == [equity |-> 0, peak |-> 0, cash |-> 0, held |-> [x \in Names |-> 0],
                  dayBuys |-> 0, haltAt |-> 0]

NoMarks == [x \in Names |-> 0]
NoQuote == [last |-> NoMarks, day |-> 0, open |-> FALSE, done |-> FALSE]

NoExec == [phase |-> "idle", i |-> 0, quote |-> NoQuote, drift |-> NoMarks,
           snap |-> EmptySnapshot, tickets |-> NoTickets, complete |-> TRUE]

Idle == ex.phase = "idle"

Greater(a, b) == IF b > a THEN b ELSE a

Weekday(d) == d % 7 \notin {6, 0}

\* Full sessions between a fill and a clock: today's counts once it is done.
SessionsHeld(from, to, done) ==
    Cardinality({d \in (from + 1)..(IF done THEN to ELSE to - 1) : Weekday(d)})

-----------------------------------------------------------------------------
(* Valuations.                                                             *)

\* What GetQuotes returns of the marks: a name without a series has none.
QuotesOf(marks) == [x \in Names |-> IF x \in Unquoted THEN 0 ELSE marks[x]]

EquityOf(p) == cash + Total([x \in Names |-> p[x].mv])
Equity      == EquityOf(pos)

CoreHeld(marks)  == [x \in Names |-> coreQty[x] * marks[x]]
CoreValue(marks) == Total(CoreHeld(marks))

\* An unquoted satellite name is valued at its entry.
SatValue(marks) ==
    Total([x \in Names |-> sat[x].qty * (IF marks[x] = 0 THEN sat[x].entry ELSE marks[x])])

Snapshot == [equity |-> Equity, peak |-> Greater(peak, Equity), cash |-> cash,
             held |-> [x \in Names |-> pos[x].mv], dayBuys |-> dayBuys, haltAt |-> ips.maxdd]

Pnl(track, mv) == mv + track.flow - track.mv0

MarkTrack(track, mv) ==
    LET v == mv + track.flow
        top == Greater(track.peak, v)
    IN  [track EXCEPT !.peak = top, !.maxdd = Greater(track.maxdd, top - v)]

\* The core wants its slice, and the satellite's too when that is empty.
Wanted == IF ips.fold /\ ~plan.roster THEN ips.core + ips.sat ELSE ips.core

-----------------------------------------------------------------------------
Init ==
    /\ day = 1 /\ open = TRUE
    /\ ips = FirstPolicy /\ lastRebal = 0 /\ pending = FALSE
    /\ cash = StartCash /\ peak = StartCash
    /\ pos = [x \in Names |-> Flat]
    /\ coreQty = [x \in Names |-> 0] /\ sat = [x \in Names |-> NoTrade]
    /\ dayKey = 0 /\ dayBuys = 0 /\ bought = 0
    /\ period = NoPeriod /\ rows = <<>> /\ lastMarks = NoMarks
    /\ camp = [active |-> FALSE, auto |-> FALSE, end |-> 0, over |-> FALSE]
    /\ plan = [sig |-> [x \in Names |-> 0], tilt |-> 100, roster |-> TRUE]
    /\ pc = [t \in Tickers |-> "idle"] /\ saw = [t \in Tickers |-> FALSE]
    /\ quote = [t \in Tickers |-> NoQuote]
    /\ ex = NoExec
    /\ used = [ticks |-> 0, commands |-> 0]

-----------------------------------------------------------------------------
(* The exchange.                                                           *)

CloseMarket ==
    /\ Idle /\ open
    /\ open' = FALSE
    /\ UNCHANGED <<day, policy, book, dayKey, ledger, lastMarks, camp, plan, ticks, ex, used>>

\* A tick has twelve seconds: none in flight survives the night.
NextDay ==
    /\ Idle /\ ~open /\ day < MaxDay
    /\ camp.active => camp.over \/ day < camp.end
    /\ \A t \in Tickers : pc[t] = "idle"
    /\ day' = day + 1
    /\ open' = Weekday(day + 1)
    /\ bought' = 0
    /\ used' = [used EXCEPT !.ticks = 0]
    /\ UNCHANGED <<policy, cash, peak, pos, coreQty, sat, dayBuys, dayKey, ledger, lastMarks, camp, plan, ticks, ex>>

\* A campaign ends to the minute it began: the clock passes its end at some
\* time of its last day, with ticks in flight or not.
CampaignEnds ==
    /\ Idle /\ camp.active /\ ~camp.over /\ day = camp.end
    /\ camp' = [camp EXCEPT !.over = TRUE]
    /\ UNCHANGED <<market, policy, book, dayKey, ledger, lastMarks, plan, ticks, ex, used>>

\* The model's horizon: the last day is over and no tick is in flight.
Horizon ==
    /\ Idle /\ day = MaxDay /\ ~open
    /\ \A t \in Tickers : pc[t] = "idle"
    /\ UNCHANGED vars

-----------------------------------------------------------------------------
(* The operator.                                                           *)

Command == Idle /\ used.commands < MaxCommands /\ used' = [used EXCEPT !.commands = @ + 1]

\* Mutant: the core's units survive the restart.
FreshBookKeepsCore ==
    /\ cash' = StartCash /\ peak' = StartCash
    /\ pos' = [x \in Names |-> Flat]
    /\ sat' = [x \in Names |-> NoTrade]
    /\ UNCHANGED coreQty

FreshBook ==
    /\ cash' = StartCash /\ peak' = StartCash
    /\ pos' = [x \in Names |-> Flat]
    /\ coreQty' = [x \in Names |-> 0] /\ sat' = [x \in Names |-> NoTrade]

\* A campaign starts over with fresh cash and an empty book under the same
\* statement.  The session's spent turnover and the plan are kept.
StartCampaign ==
    /\ Command
    /\ FreshBook
    /\ camp' = [active |-> TRUE, auto |-> TRUE, end |-> day + CampaignDays, over |-> FALSE]
    /\ lastRebal' = 0 /\ pending' = FALSE
    /\ period' = NoPeriod /\ rows' = <<>>
    /\ UNCHANGED <<market, ips, dayKey, dayBuys, bought, lastMarks, plan, ticks, ex>>

SetAutopilot(on) ==
    /\ Command
    /\ camp.auto # on
    /\ camp' = [camp EXCEPT !.auto = on]
    /\ UNCHANGED <<market, policy, book, dayKey, ledger, lastMarks, plan, ticks, ex>>

\* Another statement restarts the calendar; the same one is a no-op.
BindIPS(p) ==
    /\ Command
    /\ ips # p
    /\ ips' = p /\ lastRebal' = 0 /\ pending' = FALSE
    /\ UNCHANGED <<market, book, dayKey, ledger, lastMarks, camp, plan, ticks, ex>>

\* PreviewTargets reads the book through CoreInput, which marks it at fresh
\* quotes and takes a snapshot: positions and the peak move between ticks,
\* the marks the period was last walked at do not.
Marked(marks) == [x \in Names |-> IF marks[x] = 0 THEN pos[x]
                                  ELSE [pos[x] EXCEPT !.mv = pos[x].qty * marks[x]]]

PreviewTargets ==
    /\ Command
    /\ ips # Unbound
    /\ \E marks \in [Names -> Prices] : pos' = Marked(QuotesOf(marks))
    /\ peak' = Greater(peak, EquityOf(pos'))
    /\ UNCHANGED <<market, policy, cash, coreQty, sat, dayBuys, bought, dayKey, ledger, lastMarks, camp, plan, ticks, ex>>

-----------------------------------------------------------------------------
(* The rebalance period.                                                   *)

\* The period the book opens now: none without a statement.
OpenedPeriod(marks, date, equity) ==
    IF ips = Unbound THEN period
    ELSE [from |-> date, under |-> ips.id, eq0 |-> equity,
          core |-> NewTrack(CoreValue(marks)), sat |-> NewTrack(SatValue(marks))]

\* The rows of the open period, as one record, booked under the statement
\* bound now.  `under' is not in the code: the statement it opened under.
PeriodRow(marks, date, why) ==
    [ips |-> ips.id, under |-> period.under, from |-> period.from, to |-> date, why |-> why,
     pnl |-> Pnl(period.core, CoreValue(marks)) + Pnl(period.sat, SatValue(marks))]

BookedRows(marks, date, why) ==
    IF ips = Unbound \/ period = NoPeriod THEN rows
    ELSE Append(rows, PeriodRow(marks, date, why))

\* Mutant: the booked period goes on.
NextPeriodKept(marks, date) == period

\* Closing a period books it and opens the next one at the same marks.
NextPeriod(marks, date) ==
    IF ips = Unbound \/ period = NoPeriod THEN period
    ELSE OpenedPeriod(marks, date, Equity)

CoreFlow(amount) ==
    IF period = NoPeriod THEN period ELSE [period EXCEPT !.core.flow = @ + amount]

SatFlow(amount) ==
    IF period = NoPeriod THEN period ELSE [period EXCEPT !.sat.flow = @ + amount]

-----------------------------------------------------------------------------
(* A tick up to the mutex.                                                 *)

\* Tick on a running campaign; the autopilot switch is read here, once.
TickStart(t) ==
    /\ Idle /\ pc[t] = "idle" /\ used.ticks < MaxTicks
    /\ camp.active /\ ~camp.over
    /\ pc' = [pc EXCEPT ![t] = "plan"]
    /\ saw' = [saw EXCEPT ![t] = camp.auto]
    /\ used' = [used EXCEPT !.ticks = @ + 1]
    /\ UNCHANGED <<market, policy, book, dayKey, ledger, lastMarks, camp, plan, quote, ex>>

\* Tick past the campaign's end: the tail period closes at the last marks.
TickEnded(t) ==
    /\ Idle /\ pc[t] = "idle"
    /\ camp.active /\ camp.over
    /\ period # NoPeriod
    /\ rows' = BookedRows(lastMarks, day, "ended")
    /\ period' = NoPeriod
    /\ UNCHANGED <<market, policy, book, dayKey, lastMarks, camp, plan, ticks, ex, used>>

\* Plan: learning's weights, the investigations and the strategies decide
\* which names carry a long signal; the plan is published whatever they say.
Plan(t) ==
    /\ Idle /\ pc[t] = "plan"
    /\ \E sig \in Views, tilt \in Tilts, roster \in Rosters :
          /\ ~roster => sig = [x \in Names |-> 0]
          /\ plan' = [sig |-> sig, tilt |-> IF roster THEN tilt ELSE 100, roster |-> roster]
    /\ pc' = [pc EXCEPT ![t] = "check"]
    /\ UNCHANGED <<market, policy, book, dayKey, ledger, lastMarks, camp, saw, quote, ex, used>>

\* After Plan: closed market or a switched-off autopilot ends the tick.
Check(t) ==
    /\ Idle /\ pc[t] = "check"
    /\ pc' = [pc EXCEPT ![t] = IF open /\ saw[t] THEN "quote" ELSE "idle"]
    /\ UNCHANGED <<market, policy, book, dayKey, ledger, lastMarks, camp, plan, saw, quote, ex, used>>

\* Execute before the lock: quotes and the clock, or an error.  Nothing else
\* reads a price, so the market's moves are the choice of the quotes here.
\* In the closing minute the market is open and its session already done.
GetQuotes(t) ==
    /\ Idle /\ pc[t] = "quote"
    /\ \/ /\ \E marks \in [Names -> Prices], done \in BOOLEAN :
                /\ ~open => done
                /\ open /\ done => TicksAtClose
                /\ quote' = [quote EXCEPT ![t] = [last |-> QuotesOf(marks), day |-> day,
                                                  open |-> open, done |-> done]]
          /\ pc' = [pc EXCEPT ![t] = "lock"]
       \/ /\ MayFail
          /\ pc' = [pc EXCEPT ![t] = "idle"]
          /\ UNCHANGED quote
    /\ UNCHANGED <<market, policy, book, dayKey, ledger, lastMarks, camp, plan, saw, ex, used>>

-----------------------------------------------------------------------------
(* Execute, under the mutex.                                               *)

last  == ex.quote.last
today == ex.quote.day
Goto(phase, i) == ex' = [ex EXCEPT !.phase = phase, !.i = i]

\* Mutants: the rail's counter starts over at every tick, or never.
RollEveryTick(d) == dayKey' = d /\ dayBuys' = 0
RollNever(d)     == dayKey' = d /\ UNCHANGED dayBuys

\* The turnover counter is the session's: another date resets it.
RollSession(d) == dayKey' = d /\ dayBuys' = IF d = dayKey THEN dayBuys ELSE 0

\* Take the mutex: roll the session, mark the book, open a period if none.
Lock(t) ==
    /\ Idle /\ pc[t] = "lock"
    /\ LET q == quote[t]
           marked == Marked(q.last)
       IN  /\ RollSession(q.day)
           /\ pos' = marked
           /\ lastMarks' = q.last
           /\ period' = IF period = NoPeriod THEN OpenedPeriod(q.last, q.day, EquityOf(marked))
                        ELSE period
           /\ ex' = [NoExec EXCEPT !.phase = "exits", !.i = 1, !.quote = q]
    /\ pc' = [pc EXCEPT ![t] = "idle"]
    /\ quote' = [quote EXCEPT ![t] = NoQuote]
    /\ saw' = [saw EXCEPT ![t] = FALSE]
    /\ UNCHANGED <<market, policy, cash, peak, coreQty, sat, bought, rows, camp, plan, used>>

\* shouldExit without SCALP_MODE: recycle after MaxHold days; before that a
\* lost signal closes the name once the min-hold rail lets it go.
ShouldExit(x) ==
    LET days == today - sat[x].opened
    IN  /\ MayExit(SessionsHeld(sat[x].opened, today, ex.quote.done), days)
        /\ days >= MaxHold \/ plan.sig[x] = 0

\* closeLocked: the sale pays the cash, the position loses the trade's units.
CloseTrade(x) ==
    LET proceeds == sat[x].qty * SellFill(last[x])
        net      == proceeds - RoundTripSell(proceeds)
        left     == pos[x].qty - sat[x].qty
    IN  /\ cash' = cash + net
        /\ period' = SatFlow(net)
        /\ pos' = [pos EXCEPT ![x] = IF left <= 0 THEN Flat
                                     ELSE [qty |-> left, mv |-> left * last[x]]]
        /\ sat' = [sat EXCEPT ![x] = NoTrade]

ExitTrade ==
    /\ ex.phase = "exits" /\ ex.i <= N
    /\ IF sat[ex.i].qty > 0 /\ last[ex.i] # 0 /\ ShouldExit(ex.i)
       THEN CloseTrade(ex.i)
       ELSE UNCHANGED <<cash, period, pos, sat>>
    /\ Goto(IF ex.i = N THEN "core" ELSE "exits", IF ex.i = N THEN 0 ELSE ex.i + 1)
    /\ UNCHANGED <<market, policy, peak, coreQty, dayBuys, bought, dayKey, rows, lastMarks, camp, plan, ticks, used>>

\* The drift of every name from its target, at the quotes of the tick.
CoreDrift == Drift(Targets(Wanted), CoreHeld(last), Equity)

\* coreLocked up to its tickets.  A rebalance session first closes the
\* period that ran since the last worked session, halted or not.
OpensPeriod == lastRebal # 0 /\ lastRebal # today /\ today \in RebalanceDays

WorksCore == /\ ~Halted(Snapshot)
             /\ ex.quote.open
             /\ lastRebal = 0 \/ today \in RebalanceDays \/ pending

CoreSession ==
    /\ ex.phase = "core"
    /\ IF ips = Unbound
       THEN UNCHANGED <<peak, rows, period>> /\ Goto("satellite", 0)
       ELSE /\ peak' = Snapshot.peak
            /\ IF OpensPeriod
               THEN rows' = BookedRows(last, today, "rebalance") /\ period' = NextPeriod(last, today)
               ELSE UNCHANGED <<rows, period>>
            /\ IF WorksCore
               THEN ex' = [ex EXCEPT !.phase = "sells", !.i = 1, !.drift = CoreDrift, !.snap = Snapshot]
               ELSE Goto("satellite", 0)
    /\ UNCHANGED <<market, policy, cash, pos, coreQty, sat, dayBuys, bought, dayKey, lastMarks, camp, plan, ticks, used>>

-----------------------------------------------------------------------------
(* policy.Rebalance: tickets against a simulated snapshot, sells first.    *)

Ticket(x, side, qty, price) ==
    [sym |-> x, side |-> side, qty |-> qty, price |-> price]

Notional(t) == t.qty * t.price

\* What the loop makes of one name or ticket.
Planned(t, snap, whole) ==
    ex' = [ex EXCEPT !.i = ex.i + 1, !.tickets = Append(ex.tickets, t), !.snap = snap,
                     !.complete = ex.complete /\ whole]
DeferredSilently == ex' = [ex EXCEPT !.i = ex.i + 1]   \* mutant: the job is not left pending
Deferred         == ex' = [ex EXCEPT !.i = ex.i + 1, !.complete = FALSE]
Skipped          == ex' = [ex EXCEPT !.i = ex.i + 1]

AfterSell(s, x, proceeds, mv) ==
    [s EXCEPT !.cash = @ + proceeds, !.held[x] = @ - mv]

AfterBuy(s, x, notional) ==
    [s EXCEPT !.cash = @ - notional, !.held[x] = @ + notional, !.dayBuys = @ + notional]

SellQtyWhole(x) == pos[x].qty   \* mutant: the name is closed, both sleeves of it
SellQty(x)   == Lesser(ex.drift[x] \div last[x], coreQty[x])

\* A name above target is sold down to it, never below what the core holds.
PlanSell ==
    LET x   == ex.i
        qty == SellQty(x)
        t   == Ticket(x, "SELL", qty, SellFill(last[x]))
    IN  /\ ex.phase = "sells" /\ ex.i <= N
        /\ IF ex.drift[x] > 0 /\ Trades(ex.drift, Equity, x)
           THEN IF last[x] = 0 \/ (qty >= 1 /\ ~SellAllowed(qty, t.price))
                THEN Deferred
                ELSE IF qty >= 1
                     THEN Planned(t, AfterSell(ex.snap, x, Notional(t), qty * last[x]), TRUE)
                     ELSE Skipped
           ELSE Skipped
        /\ UNCHANGED <<market, policy, book, dayKey, ledger, lastMarks, camp, plan, ticks, used>>

\* A name below target is bought up to it or to the rail that binds; a
\* rail that binds leaves the job pending for the next session.
PlanBuy ==
    LET x     == ex.i
        want  == -ex.drift[x]
        room  == Lesser(want, RailRoom(ex.snap, x))
        qty   == room \div BuyFill(last[x])
        t     == Ticket(x, "BUY", qty, BuyFill(last[x]))
        clamped == room < want - 1
    IN  /\ ex.phase = "buys" /\ ex.i <= N
        /\ IF want > 0 /\ Trades(ex.drift, Equity, x)
           THEN IF last[x] = 0 \/ TurnoverRoom(ex.snap) < MinNameNotional
                THEN Deferred
                ELSE IF room >= MinNameNotional /\ qty >= 1 /\ BuyAllowed(ex.snap, x, Notional(t), TRUE)
                     THEN Planned(t, AfterBuy(ex.snap, x, Notional(t)), ~clamped)
                     ELSE IF clamped \/ (room >= MinNameNotional /\ qty >= 1)
                          THEN Deferred
                          ELSE Skipped
           ELSE Skipped
        /\ UNCHANGED <<market, policy, book, dayKey, ledger, lastMarks, camp, plan, ticks, used>>

\* The sell loop is over, then the buy loop is.
SellsPlanned == /\ ex.phase = "sells" /\ ex.i = N + 1
                /\ Goto("buys", 1)
                /\ UNCHANGED <<market, policy, book, dayKey, ledger, lastMarks, camp, plan, ticks, used>>

BuysPlanned == /\ ex.phase = "buys" /\ ex.i = N + 1
               /\ ex' = [ex EXCEPT !.phase = "tickets", !.i = 1,
                                      !.drift = NoMarks, !.snap = EmptySnapshot]
               /\ UNCHANGED <<market, policy, book, dayKey, ledger, lastMarks, camp, plan, ticks, used>>

-----------------------------------------------------------------------------
(* coreLocked's ticket loop.                                               *)

Held(x, qty) == IF qty <= 0 THEN Flat ELSE [qty |-> qty, mv |-> qty * last[x]]

\* Mutant: a sale gives turnover room back.
SellCoreNetting(t) ==
    LET net == Notional(t) - RoundTripSell(Notional(t))
    IN  /\ cash' = cash + net
        /\ period' = CoreFlow(net)
        /\ coreQty' = [coreQty EXCEPT ![t.sym] = AtLeastZero(@ - t.qty)]
        /\ pos' = [pos EXCEPT ![t.sym] = Held(t.sym, @.qty - t.qty)]
        /\ dayBuys' = dayBuys - Notional(t)
        /\ UNCHANGED <<peak, bought>>

SellCore(t) ==
    LET net == Notional(t) - RoundTripSell(Notional(t))
    IN  /\ cash' = cash + net
        /\ period' = CoreFlow(net)
        /\ coreQty' = [coreQty EXCEPT ![t.sym] = AtLeastZero(@ - t.qty)]
        /\ pos' = [pos EXCEPT ![t.sym] = Held(t.sym, @.qty - t.qty)]
        /\ UNCHANGED <<peak, dayBuys, bought>>

BuyCore(t) ==
    LET spent == Notional(t) + RoundTripBuy(Notional(t))
    IN  /\ cash' = cash - spent
        /\ period' = CoreFlow(-spent)
        /\ dayBuys' = dayBuys + Notional(t) /\ bought' = bought + Notional(t)
        /\ coreQty' = [coreQty EXCEPT ![t.sym] = @ + t.qty]
        /\ pos' = [pos EXCEPT ![t.sym] = Held(t.sym, @.qty + t.qty)]

\* A buy is admitted again, on the book as it is when its turn comes.
CoreTicket ==
    LET t == ex.tickets[ex.i]
        admitted == BuyAllowed(Snapshot, t.sym, Notional(t), TRUE)
    IN  /\ ex.phase = "tickets" /\ ex.i <= Len(ex.tickets)
        /\ IF t.side = "SELL"
           THEN SellCore(t) /\ Skipped
           ELSE /\ peak' = Snapshot.peak
                /\ IF admitted THEN BuyCore(t) /\ Skipped
                   ELSE UNCHANGED <<cash, period, dayBuys, bought, coreQty, pos>> /\ Deferred
        /\ UNCHANGED <<market, policy, sat, dayKey, rows, lastMarks, camp, plan, ticks, used>>

CoreWorked ==
    /\ ex.phase = "tickets" /\ ex.i > Len(ex.tickets)
    /\ lastRebal' = today
    /\ pending' = ~ex.complete
    /\ ex' = [ex EXCEPT !.phase = "satellite", !.i = 0, !.tickets = NoTickets, !.complete = TRUE]
    /\ UNCHANGED <<market, ips, book, dayKey, ledger, lastMarks, camp, plan, ticks, used>>

-----------------------------------------------------------------------------
(* The satellite's buys.                                                   *)

\* The loop is entered unless the book is halted or under no statement.
SatelliteStart ==
    /\ ex.phase = "satellite" /\ ex.i = 0
    /\ peak' = Snapshot.peak
    /\ IF Halted(Snapshot) \/ ips = Unbound THEN Goto("finish", 0) ELSE Goto("satellite", 1)
    /\ UNCHANGED <<market, policy, cash, pos, coreQty, sat, dayBuys, bought, dayKey, ledger, lastMarks, camp, plan, ticks, used>>

SatelliteSlice == PctOf(plan.tilt, PctOf(ips.sat, Equity))

SatelliteRoomPerIdea == AtLeastZero(SatelliteSlice)   \* mutant: what is held is forgotten
SatelliteRoom == AtLeastZero(SatelliteSlice - (Gross(Snapshot) - CoreValue(last)))

\* Score and method weight size the idea; the rails and the slice clamp it.
IdeaSize(x) == (PctOf(NameCap, Equity) * plan.sig[x] * (50 + Weight)) \div 10000

Wants(x) == plan.sig[x] >= 25 /\ last[x] # 0 /\ sat[x].qty = 0

BuySatellite(x, qty) ==
    LET fill  == BuyFill(last[x])
        cost  == qty * fill
        spent == cost + RoundTripBuy(cost)
        held  == Held(x, pos[x].qty + qty)
    IN  /\ cash' = cash - spent
        /\ period' = SatFlow(-spent)
        /\ sat' = [sat EXCEPT ![x] = [qty |-> qty, entry |-> fill, opened |-> today]]
        /\ pos' = [pos EXCEPT ![x] = held]
        /\ dayBuys' = dayBuys + cost /\ bought' = bought + cost
        /\ peak' = Greater(peak, cash - spent + Total([y \in Names |-> IF y = x THEN held.mv ELSE pos[y].mv]))

Satellite ==
    LET x     == ex.i
        size  == Lesser(Lesser(IdeaSize(x), Room(Snapshot, x)), SatelliteRoom)
        qty   == size \div BuyFill(last[x])
        spentOut == SatelliteRoom < MinNameNotional \/
                    (Wants(x) /\ TurnoverRoom(Snapshot) < MinNameNotional)
    IN  /\ ex.phase = "satellite" /\ ex.i \in Names
        /\ IF /\ ~spentOut /\ Wants(x)
              /\ size >= MinNameNotional /\ qty >= 1
              /\ BuyAllowed(Snapshot, x, qty * BuyFill(last[x]), FALSE)
           THEN BuySatellite(x, qty)
           ELSE UNCHANGED <<cash, period, sat, pos, dayBuys, bought, peak>>
        /\ IF spentOut \/ x = N THEN Goto("finish", 0) ELSE Skipped
        /\ UNCHANGED <<market, policy, coreQty, dayKey, rows, lastMarks, camp, plan, ticks, used>>

\* The drawdown path of both sleeves is walked once, then the lock is free.
Finish ==
    /\ ex.phase = "finish"
    /\ period' = IF period = NoPeriod THEN period
                 ELSE [period EXCEPT !.core = MarkTrack(period.core, CoreValue(last)),
                                     !.sat  = MarkTrack(period.sat, SatValue(last))]
    /\ ex' = NoExec
    /\ UNCHANGED <<market, policy, book, dayKey, rows, lastMarks, camp, plan, ticks, used>>

-----------------------------------------------------------------------------
Exchange == CloseMarket \/ NextDay \/ CampaignEnds \/ Horizon

Operator == \/ StartCampaign
            \/ \E on \in BOOLEAN : SetAutopilot(on)
            \/ \E p \in Policies : BindIPS(p)
            \/ PreviewTargets

Tick(t) == TickStart(t) \/ TickEnded(t) \/ Plan(t) \/ Check(t) \/ GetQuotes(t) \/ Lock(t)

Execute == \/ ExitTrade \/ CoreSession
           \/ PlanSell \/ SellsPlanned \/ PlanBuy \/ BuysPlanned
           \/ CoreTicket \/ CoreWorked
           \/ SatelliteStart \/ Satellite \/ Finish

Next == Exchange \/ Operator \/ (\E t \in Tickers : Tick(t)) \/ Execute

Spec == Init /\ [][Next]_vars

\* The loop ticks every minute and a session has hundreds of them: a session
\* of a running campaign is not over before a tick of it took the mutex.
SessionTicked == camp.active /\ ~camp.over /\ open /\ ~open' => dayKey = day

\* Ticks, Execute and the exchange go on; an operator never has to act.
FairSpec ==
    /\ Init /\ [][Next /\ SessionTicked]_vars
    /\ WF_vars(Execute)
    /\ WF_vars(\E t \in Tickers : Tick(t))
    /\ WF_vars(CloseMarket /\ SessionTicked) /\ WF_vars(NextDay)

-----------------------------------------------------------------------------
(* Type correctness.                                                       *)

TrackType  == [mv0 : Int, flow : Int, peak : Int, maxdd : Int]
Ids        == {p.id : p \in Policies \cup {Unbound}}
PeriodType == [from : Nat, under : Ids, eq0 : Int, core : TrackType, sat : TrackType]
RowType    == [ips : Ids, under : Ids, from : Nat, to : Nat,
               why : {"rebalance", "ended"}, pnl : Int]
MarksType  == [Names -> Prices \cup {0}]
QuoteType  == [last : MarksType, day : Nat, open : BOOLEAN, done : BOOLEAN]
TicketType == [sym : Names, side : {"BUY", "SELL"}, qty : Nat, price : Nat]
PositionType == [qty : Nat, mv : Nat]
TradeType    == [qty : Nat, entry : Nat, opened : Nat]
Phases     == {"idle", "exits", "core", "sells", "buys", "tickets", "satellite", "finish"}

FrameType == [phase : Phases, i : Nat, quote : QuoteType, drift : [Names -> Int],
              snap : Snapshots, tickets : Seq(TicketType), complete : BOOLEAN]

MarketTyped == day \in Nat \ {0} /\ open \in BOOLEAN

StatementTyped == ips \in Policies \cup {Unbound} /\ lastRebal \in Nat /\ pending \in BOOLEAN

BookTyped == /\ cash \in Int /\ peak \in Int
             /\ pos \in [Names -> PositionType]
             /\ coreQty \in [Names -> Nat]
             /\ sat \in [Names -> TradeType]
             /\ dayKey \in Nat /\ dayBuys \in Nat /\ bought \in Nat

LedgerTyped == period \in PeriodType /\ rows \in Seq(RowType) /\ lastMarks \in MarksType

DeskTyped == /\ camp \in [active : BOOLEAN, auto : BOOLEAN, end : Nat, over : BOOLEAN]
             /\ plan \in [sig : [Names -> 0..100], tilt : 75..100, roster : BOOLEAN]
             /\ used \in [ticks : Nat, commands : Nat]

TickersTyped == /\ pc \in [Tickers -> {"idle", "plan", "check", "quote", "lock"}]
                /\ saw \in [Tickers -> BOOLEAN]
                /\ quote \in [Tickers -> QuoteType]

Loops == {"exits", "sells", "buys", "tickets"}

\* The loops count from 1.
FrameTyped == ex \in FrameType /\ (ex.phase \in Loops => ex.i >= 1)

\* Every variable holds a value of its type; quantities, the notional
\* bought and the frame's index are never negative.
TypeOK == /\ MarketTyped /\ StatementTyped /\ BookTyped /\ LedgerTyped
          /\ DeskTyped /\ TickersTyped /\ FrameTyped

-----------------------------------------------------------------------------
(* Safety.                                                                 *)

\* The two sleeves share one position per name (core.go coreQty, engine.go
\* open trades, book.go pos) and are kept by different code paths: whatever
\* is bought, sold, recycled or restarted, the position is their sum, so
\* neither sleeve ever sells the other's units.
SleevesReconcile ==
    \A x \in Names : pos[x].qty = coreQty[x] + sat[x].qty

\* A sale still to be worked never asks for more than the core holds of the
\* name, although coreLocked sizes all its tickets before it works the first
\* and sells without a second look (core.go sellCoreLocked clamps silently).
SellsCovered ==
    \A j \in 1..Len(ex.tickets) :
        LET t == ex.tickets[j]
        IN  t.side = "SELL" /\ (ex.phase = "tickets" => j >= ex.i) => t.qty <= coreQty[t.sym]

\* What the periods booked is what the book made (period.go: value = market
\* value + net cash flow): at the last marks, over sales, charges, restarts
\* and re-bindings, the two sleeves of the open period explain the equity
\* since it opened, and while the campaign runs the rows already booked
\* explain the equity it opened at.
Booked(rs) == SumFunction([i \in DOMAIN rs |-> rs[i].pnl])

EquityAt(marks) == cash + Total([x \in Names |-> pos[x].qty * marks[x]])

LedgerReconciles ==
    period # NoPeriod =>
        /\ ~camp.over => Booked(rows) = period.eq0 - StartCash
        /\ EquityAt(lastMarks) = period.eq0 + Pnl(period.core, CoreValue(lastMarks))
                                            + Pnl(period.sat, SatValue(lastMarks))

\* What makes SleevesReconcile and SellsCovered inductive: tickets wait only
\* while there is a plan, the sells are planned in the order of the names,
\* and so no name is sold twice.
TicketsWait  == ex.phase \notin {"sells", "buys", "tickets"} => ex.tickets = NoTickets
SellsInOrder == ex.phase = "sells" => \A j \in 1..Len(ex.tickets) : ex.tickets[j].sym < ex.i
SellsOnce    == \A j, k \in 1..Len(ex.tickets) :
                    /\ ex.tickets[j].side = "SELL" /\ ex.tickets[k].side = "SELL"
                    /\ ex.tickets[j].sym = ex.tickets[k].sym
                    => j = k

TicketsInv == SellsCovered /\ TicketsWait /\ SellsInOrder /\ SellsOnce

\* Some name's position grows in this step.
Buys == \E x \in Names : pos'[x].qty > pos[x].qty

\* No fill buys while the book is at or past the client's drawdown cap, in
\* either sleeve, wherever in the tick the cap is hit (check.go Halted).
HaltStopsBuys ==
    [][Buys => 100 * (peak' - Equity) < ips.maxdd * peak']_vars

\* The rail's counter lives in the book and is rolled by the ticks; against
\* the exchange's own day, over restarts of the campaign and racing ticks,
\* a day's buys never pass the cap (check.go TurnoverRoom).
TurnoverPerDay ==
    [][Buys => bought' <= PctOf(TurnoverCapDay, Equity)]_vars

\* What makes TurnoverPerDay inductive: while a tick holds the mutex the
\* counter is of the exchange's day and has seen every buy of it, and no
\* ticker brings yesterday's clock to the lock.
TurnoverCounted ==
    /\ dayKey <= day
    /\ bought <= IF dayKey = day THEN dayBuys ELSE 0
    /\ ~Idle => dayKey = day
    /\ \A t \in Tickers : pc[t] = "lock" => quote[t].day = day

\* A satellite buy leaves the open satellite trades inside the statement's
\* slice, although the code measures the satellite as gross minus core.
SatelliteWithinSlice ==
    [][(\E x \in Names : sat'[x].qty > sat[x].qty)
         => SatValue(last)' <= PctOf(ips.sat, Equity)]_vars

\* rebalance.go Plan.Complete: "every name inside the band after these
\* tickets".  A job that is not pending any more leaves no name out.
CompleteMeansInBand ==
    [][(lastRebal' # lastRebal \/ (pending /\ ~pending')) /\ ~pending' /\ lastRebal' # 0
         => \A x \in Names : 100 * Abs(CoreDrift[x]) <= NameBand * Equity]_vars

\* The book is an account without credit and without short positions: every
\* step of tickers and operator deals in one name of one sleeve at the quotes of
\* the tick, reprices, starts over or leaves the account alone, although tickets
\* are sized on a snapshot that knows no charges (core.go, engine.go, check.go).
Account == INSTANCE Portfolio WITH
    Start <- StartCash, mark <- last,
    units <- [core |-> coreQty, satellite |-> [x \in Names |-> sat[x].qty]]
KeepsAccount == Account!Spec

-----------------------------------------------------------------------------
(* Liveness.                                                               *)

\* The core is too large for one session's turnover rail: coreLocked carries
\* the rest over in corePending.  A campaign that starts on the first day
\* has, sessions later, every name inside its band and nothing pending,
\* whatever rail clamped the tickets on the way (core.go, rebalance.go).
CoreGetsBuilt == (camp.active /\ day = 1) ~> (lastRebal # 0 /\ ~pending)

-----------------------------------------------------------------------------
(* What the repository says and a run refutes.                             *)

\* docs/spec.md, Kill switch: a human can stop the book by Desk Stop
\* (autopilot off).  After the switch is off, nothing is bought.
StoppedMeansNoBuys == [][Buys => camp.auto]_vars

\* docs/spec.md: "Paper fills also refuse when the market clock is closed".
\* No Execute buys whose own clock read a closed market.
ClosedMeansNoBuys == [][Buys => ex.quote.open]_vars

\* engine.go: "The tail period closes once at the last marks the book saw."
TailClosesOnce ==
    Cardinality({i \in DOMAIN rows : rows[i].why = "ended"}) <= 1

\* period.go: "periodTrack is the open period for the book under its IPS."
PeriodUnderItsIPS == \A i \in DOMAIN rows : rows[i].ips = rows[i].under

\* core.go: "A calendar rebalance session closes the period that ran since
\* the last one [...]; a halted month still books its period": its one.
OnePeriodPerSession ==
    \A i, j \in DOMAIN rows :
        rows[i].why = "rebalance" /\ rows[j].why = "rebalance" /\ rows[i].to = rows[j].to => i = j
=============================================================================
