---------------------------- MODULE WalkForward ----------------------------
(***************************************************************************)
(* The method lab as operators: the signals of pkg/strategies, the fold    *)
(* simulation, the gate and the roster verdict of pkg/backtest, and the    *)
(* alignment of daily bars of pkg/tape.                                    *)
(*                                                                         *)
(* A tape gives one close a day to each name.  Money is whole rupees,      *)
(* returns are basis points, rounded down.                                 *)
(***************************************************************************)
EXTENDS Integers, FiniteSets, Sequences, SequencesExt, FiniteSetsExt

CONSTANTS
    Equities, Index,   \* the names of the universe and NIFTY50
    Variants,          \* the search grid, the shipped defaults among it
    Params,            \* its parameters: [method, frame, fast, slow, lookback]
    Defaults,          \* the shipped defaults
    Hold,              \* sessions a position is held at most, by frame
    Warm,              \* closes behind a day before it is traded
    Year,              \* days in a year
    MinDays, MinTrain, \* days of a tape, days before its first fold
    MinOOSTrades       \* the gate's round trips

MaxNewPerSnap == 2
DDCapPct      == 15
StartCash     == 1000000
Whole         == 10000   \* in basis points
Names         == Equities \cup {Index}

ASSUME LabAssumption ==
    /\ IsFiniteSet(Names) /\ Index \notin Equities /\ Equities # {}
    /\ Defaults \subseteq Variants /\ DOMAIN Params = Variants
    /\ \A v \in Variants : /\ {Params[v].fast, Params[v].slow, Params[v].lookback} \subseteq Nat
                           /\ Params[v].fast <= Params[v].slow
    /\ {Warm, Year, MinDays, MinTrain, MinOOSTrades} \subseteq Nat
    /\ Year > 0

Abs(x) == IF x < 0 THEN -x ELSE x
SumOver(c, first, last) ==
    LET upto[k \in first - 1 .. last] == IF k < first THEN 0 ELSE upto[k - 1] + c[k]
    IN  upto[last]

-----------------------------------------------------------------------------
(* Signals.  a against b is a score: its direction, and whether it is worth *)
(* an entry (a score of a quarter).                                        *)

Flat == [dir |-> 0, strong |-> FALSE]

\* Above b by more than up, below it by more than down (in thousandths), and
\* strong from 1 in `part` of b on.
Against(a, b, up, down, part) ==
    [dir    |-> IF 1000 * (a - b) > up * b THEN 1
                ELSE IF 1000 * (b - a) > down * b THEN -1 ELSE 0,
     strong |-> part * Abs(a - b) >= b]

Opposite(s) == [s EXCEPT !.dir = -@]

\* Fast mean against slow mean, both times their lengths.
Means(p, c, i) == <<SumOver(c, i - p.fast + 1, i) * p.slow,
                    SumOver(c, i - p.slow + 1, i) * p.fast>>

SMA(p, c, i)      == LET m == Means(p, c, i) IN Against(m[1], m[2], 1, 1, 160)
Momentum(p, c, i) == Against(c[i], c[i - p.lookback], 2, 2, 100)
MeanRevert(p, c, i) ==
    Opposite(Against(c[i] * p.slow, SumOver(c, i - p.slow + 1, i), 8, 8, 80))
\* A swing is up or down, never flat.
Swing(p, c, i) ==
    LET m == Means(p, c, i) s == Against(m[1], m[2], 0, 0, 60)
    IN  [s EXCEPT !.dir = IF @ = 0 THEN -1 ELSE @]
\* Highs are three thousandths above their closes.
Breakout(p, c, i) ==
    LET top == Max({c[k] : k \in (i - p.lookback)..(i - 1)})
    IN  [dir    |-> IF 1000 * c[i] > 1003 * top THEN 1 ELSE 0,
         strong |-> 100000 * c[i] >= 100927 * top]

\* The close on which day i is judged.  The mutant judges by the next day's.
LastSeenTomorrow(c, i) == IF i < Len(c) THEN i + 1 ELSE i
LastSeen(c, i) == i

\* The lab has no news: a sentiment method stays flat.
Evaluate(p, c, i) ==
    CASE p.method = "sma_cross"      -> SMA(p, c, LastSeen(c, i))
      [] p.method = "momentum"       -> Momentum(p, c, LastSeen(c, i))
      [] p.method = "mean_reversion" -> MeanRevert(p, c, LastSeen(c, i))
      [] p.method = "breakout"       -> Breakout(p, c, LastSeen(c, i))
      [] p.method = "swing"          -> Swing(p, c, LastSeen(c, i))
      [] OTHER                       -> Flat

-----------------------------------------------------------------------------
(* A fold: one name, one fifth of the cash, one position at a time.        *)

\* Slippage in basis points by the average value traded a day, in lakhs: two
\* and the root of the impact, forty at most.
ADVSlippageBps(lakhs) ==
    IF lakhs <= 0 THEN 4
    ELSE IF lakhs * 37 * 37 < 1000000 THEN 40
    ELSE Min({b \in 3..39 : 1000000 <= lakhs * (b - 2) * (b - 2)})

\* The fold averages closes, in rupees: no name's is a lakh.
FoldADV(c, i) ==
    LET first == IF i > 20 THEN i - 19 ELSE 1
        rupees == SumOver(c, first, i) \div (i - first + 1)
    IN  IF rupees < 100000 THEN 1 ELSE rupees \div 100000

Slip(px, bps) == (bps * px + 9999) \div 10000
BuyFill(px, bps)  == px + Slip(px, bps)
SellFill(px, bps) == px - Slip(px, bps)
BuyCharge(notional)  == 12 + (115 * notional) \div 100000
SellCharge(notional) == 12 + notional \div 1000

Fresh == [cash |-> StartCash, qty |-> 0, entry |-> 0, since |-> 0,
          peak |-> StartCash, dd |-> 0, trades |-> 0, wins |-> 0]

ClosePos(s, c, i) ==
    LET fill     == SellFill(c[i], ADVSlippageBps(FoldADV(c, i)))
        proceeds == s.qty * fill
    IN  [s EXCEPT !.cash = @ + proceeds - SellCharge(proceeds),
                  !.qty = 0,
                  !.trades = @ + 1,
                  !.wins = IF fill > s.entry THEN @ + 1 ELSE @]

OpenPos(s, c, i) ==
    LET fill == BuyFill(c[i], ADVSlippageBps(FoldADV(c, i)))
        q    == (s.cash \div 5) \div fill
        cost == q * fill + BuyCharge(q * fill)
    IN  IF q >= 1 /\ cost <= s.cash
        THEN [s EXCEPT !.cash = @ - cost, !.qty = q, !.entry = fill, !.since = i]
        ELSE s

\* Drawdown in thousandths of the peak, rounded up.
MarkDD(s, c, i) ==
    LET eq   == s.cash + s.qty * c[i]
        peak == IF eq > s.peak THEN eq ELSE s.peak
        dd   == ((peak - eq) * 1000 + peak - 1) \div peak
    IN  [s EXCEPT !.peak = peak, !.dd = IF dd > @ THEN dd ELSE @]

\* A day: an exit on the signal or the hold, then an entry, then the mark.
ExitOn(sig, p, c, s, i) ==
    IF s.qty > 0 /\ (sig.dir <= 0 \/ i - s.since >= Hold[p.frame]) THEN ClosePos(s, c, i) ELSE s
EnterOn(sig, c, s, i) ==
    IF s.qty = 0 /\ sig.dir > 0 /\ sig.strong THEN OpenPos(s, c, i) ELSE s
DayOn(sig, p, c, s, i) == MarkDD(EnterOn(sig, c, ExitOn(sig, p, c, s, i), i), c, i)
FoldDay(p, c, s, i) == DayOn(Evaluate(p, c, i), p, c, s, i)

\* A fold is traded from the day that has enough closes behind it.
Need(p) == Max({p.slow, p.lookback, Warm})
FirstTraded(p, from) == IF from > Need(p) THEN from ELSE Need(p) + 1

\* The book of a fold after its days up to i.
Walked(p, c, from, to, i) ==
    LET first == FirstTraded(p, from)
        book[d \in first - 1 .. i] == IF d < first THEN Fresh ELSE FoldDay(p, c, book[d - 1], d)
    IN  IF first >= to THEN Fresh ELSE book[i]

Liquidated(s, c, to) == IF s.qty > 0 THEN ClosePos(s, c, to) ELSE s
SimulateFold(p, c, from, to) == Liquidated(Walked(p, c, from, to, to), c, to)

-----------------------------------------------------------------------------
(* Walk forward. *)

\* Two test folds, a year each, that end with the tape.  days are dates in
\* order; a fold is its first and last position.  The mutant lets the first
\* run to the end of the tape.
OOSWindowsOverlap(days) ==
    LET n == Len(days)
        from(k) == Min({i \in 1..n : days[i] >= days[n] - k * Year})
        long(k) == from(k) - 1 >= MinTrain
    IN  IF n < MinDays THEN <<>>
        ELSE (IF long(2) THEN <<<<from(2), n>>>> ELSE <<>>)
             \o (IF long(1) THEN <<<<from(1), n>>>> ELSE <<>>)
OOSWindows(days) ==
    LET n == Len(days)
        from(k) == Min({i \in 1..n : days[i] >= days[n] - k * Year})
        long(k) == from(k) - 1 >= MinTrain
    IN  IF n < MinDays THEN <<>>
        ELSE (IF long(2) THEN <<<<from(2), from(1) - 1>>>> ELSE <<>>)
             \o (IF long(1) THEN <<<<from(1), n>>>> ELSE <<>>)

Compounded(f, runs) == FoldSet(LAMBDA r, t : (f[r] * t) \div Whole, Whole, runs) - Whole

\* The return of a name over its folds, and the mean over the names.
NameReturn(mine) == Compounded([r \in mine |-> r.book.cash \div 100], mine)
MeanReturn(runs) ==
    FoldSet(LAMBDA y, t : NameReturn({r \in runs : r.name = y}) + t, 0, Equities)
      \div Cardinality(Equities)

Aggregate(x, ret, nifty, runs) ==
    [id |-> x, ret |-> ret, excess |-> ret - nifty,
     trades |-> FoldSet(LAMBDA r, t : r.book.trades + t, 0, runs),
     dd     |-> Max({r.book.dd : r \in runs})]
Scored(x, nifty, runs) == Aggregate(x, MeanReturn(runs), nifty, runs)

IndexReturn(c, wins) == Compounded([w \in wins |-> (c[w[2]] * Whole) \div c[w[1]]], wins)

\* One method over every name and fold.
WalkForward(x, closes, wins) ==
    Scored(x, IndexReturn(closes[Index], wins),
           {[name |-> y, book |-> SimulateFold(Params[x], closes[y], w[1], w[2]), win |-> w] :
               y \in Equities, w \in wins})

\* The mutant drops the absolute return.
PassesGateOnExcess(v) ==
    v.excess > 0 /\ v.trades >= MinOOSTrades /\ v.dd <= 10 * DDCapPct
PassesGate(v) ==
    v.excess > 0 /\ v.ret > 0 /\ v.trades >= MinOOSTrades /\ v.dd <= 10 * DDCapPct

Mock == "mock"
Real == "indstocks-1d"
IsMockTape(name) == name = Mock

NoVerdict == [status |-> "error", date |-> 0, tape |-> Mock, roster |-> {}, added |-> {},
              failing |-> {}]

\* The admissions: the two best by excess, a method once.
Best(vs) == CHOOSE v \in vs : \A w \in vs : v.excess >= w.excess
Admit(vs) ==
    LET first  == Best(vs)
        others == {v \in vs : Params[v.id].method # Params[first.id].method}
    IN  {v.id : v \in {w \in vs : w = first \/ (w \in others /\ w = Best(others))}}

\* The verdict on the methods that pass.  On a mock tape the defaults stay.
Roster(name, date, kept, added) ==
    [status |-> "complete", date |-> date, tape |-> name,
     roster |-> kept \cup added, added |-> added, failing |-> Defaults \ kept]
Verdict(name, date, passing) ==
    IF IsMockTape(name) THEN Roster(name, date, Defaults, {})
    ELSE Roster(name, date, Defaults \cap {v.id : v \in passing},
                Admit({v \in passing : v.id \notin Defaults}))

\* A run on aligned closes.
RunOn(name, date, days, closes) ==
    LET wins == OOSWindows(days)
    IN  IF wins = <<>> THEN NoVerdict
        ELSE Verdict(name, date, {v \in {WalkForward(x, closes, ToSet(wins)) : x \in Variants} :
                                     PassesGate(v)})

Promotable(rep) == rep.status = "complete" /\ ~IsMockTape(rep.tape)

-----------------------------------------------------------------------------
(* Daily bars on disk and their alignment.  A series is the close a name   *)
(* printed on each day, 0 where it did not print.                          *)

Printed(bars) == {d \in DOMAIN bars : bars[d] > 0}

\* NIFTY50's candle dates in order.
InOrder(days) ==
    LET rank == [d \in days |-> Cardinality({e \in days : e <= d})]
    IN  [k \in 1..Cardinality(days) |-> CHOOSE d \in days : rank[d] = k]
DaysOf(bars, from, to) == InOrder({d \in Printed(bars) : from <= d /\ d <= to})

\* The day whose close stands for day d: the last print, or, before the first
\* one, the first.
SourceDay(bars, days, d) ==
    LET past == {e \in Printed(bars) \cap ToSet(days) : e <= d}
        all  == Printed(bars) \cap ToSet(days)
    IN  IF past # {} THEN Max(past) ELSE Min(all)

Missing(bars, days) == Cardinality({k \in DOMAIN days : days[k] \notin Printed(bars)})

\* A quarter of the days may be missing.
TooThin(bars, days) ==
    Printed(bars) \cap ToSet(days) = {} \/ Missing(bars, days) > Len(days) \div 4

Closes(bars, days) == [k \in DOMAIN days |-> bars[SourceDay(bars, days, days[k])]]
=============================================================================
