------------------------------- MODULE Broker -------------------------------
(***************************************************************************)
(* The broker rails (pkg/broker) and the cost model (pkg/costs) as pure    *)
(* operators.  Money is whole rupees, weights are whole percents.  A rail  *)
(* is a floor: a whole-rupee notional is inside the rail of the code iff   *)
(* it is inside its floor, so nothing is lost by rounding.                 *)
(***************************************************************************)
EXTENDS Integers, FiniteSets, Functions

CONSTANTS
    N,       \* number of names in the universe, numbered in book order
    Sector   \* the sector of each name

Names == 1..N

ASSUME NAssumption == N \in Nat \ {0}
ASSUME SectorAssumption == Sector \in [Names -> Nat]

-----------------------------------------------------------------------------
(* Published constants: pkg/costs and pkg/broker/rails.go.                 *)

StartCash       == 1000000
NameCap         == 8
GrossCap        == 90
CashBuffer      == 10
SectorCap       == 25
CashSlice       == 8
TurnoverCapDay  == 10
DrawdownHalt    == 15
MinNameNotional == 5000
MinHoldSessions == 3
MaxHold         == 15

PctOf(pct, x) == (pct * x) \div 100

\* The sum of a rupee-valued function over the names.
Total(f) == SumFunction(f)

-----------------------------------------------------------------------------
(* Fills and delivery charges, rounded against the book.                   *)

\* Flat 4 bps each way: the rate of a name whose ADV is not known yet.
Slip(px) == (4 * px + 9999) \div 10000

BuyFill(px)  == px + Slip(px)
SellFill(px) == px - Slip(px)

\* 10 brokerage + 18% GST, STT 0.1% (and 0.015% stamp duty on a buy).
RoundTripBuy(notional)  == IF notional <= 0 THEN 0 ELSE 12 + (115 * notional) \div 100000
RoundTripSell(notional) == IF notional <= 0 THEN 0 ELSE 12 + notional \div 1000

-----------------------------------------------------------------------------
(* A snapshot of the book as the rails see it.                             *)

Snapshots == [equity : Int, peak : Int, cash : Int, held : [Names -> Int],
              dayBuys : Int, haltAt : Int]

Gross(s) == Total(s.held)

SectorHeld(s, sym) ==
    Total([x \in Names |-> IF Sector[x] = Sector[sym] THEN s.held[x] ELSE 0])

\* Mutant: the halt is the book's default for every client.
HaltThresholdOfTheBook(s) == DrawdownHalt

HaltThreshold(s) ==
    IF s.haltAt > 0 /\ s.haltAt < DrawdownHalt THEN s.haltAt ELSE DrawdownHalt

\* Drawdown >= HaltThreshold, without the division.
Halted(s) == s.peak > 0 /\ 100 * (s.peak - s.equity) >= HaltThreshold(s) * s.peak

AtLeastZero(x) == IF x < 0 THEN 0 ELSE x

TurnoverRoom(s) ==
    IF s.equity <= 0 THEN 0 ELSE AtLeastZero(PctOf(TurnoverCapDay, s.equity) - s.dayBuys)

Lesser(a, b) == IF b < a THEN b ELSE a

\* Room under every rail but the cash slice: what a calendar ticket sizes to.
RailRoom(s, sym) ==
    IF Halted(s) \/ s.equity <= 0
    THEN 0
    ELSE AtLeastZero(
           Lesser(PctOf(NameCap, s.equity) - s.held[sym],
           Lesser(PctOf(GrossCap, s.equity) - Gross(s),
           Lesser(s.cash - PctOf(CashBuffer, s.equity),
           Lesser(PctOf(SectorCap, s.equity) - SectorHeld(s, sym),
                  TurnoverRoom(s))))))

\* Room of a signal-driven buy: no more than a slice of the cash on one idea.
Room(s, sym) == AtLeastZero(Lesser(PctOf(CashSlice, s.cash), RailRoom(s, sym)))

\* A buy that passes the broker: Check on a BUY intent with qty >= 1.
BuyAllowed(s, sym, notional, calendar) ==
    /\ ~Halted(s)
    /\ notional >= MinNameNotional
    /\ notional <= TurnoverRoom(s)
    /\ notional <= IF calendar THEN RailRoom(s, sym) ELSE Room(s, sym)

\* Check on a SELL intent: any whole quantity at a positive price passes.
SellAllowed(qty, price) == qty >= 1 /\ price > 0

\* The min-hold rail of a signal-driven close, in days and full sessions.
\* The hold of SessionHold hours is implied by a full session held.
MayExit(sessions, days) == days >= MaxHold \/ sessions >= MinHoldSessions
=============================================================================
