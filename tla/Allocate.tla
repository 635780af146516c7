------------------------------ MODULE Allocate ------------------------------
(***************************************************************************)
(* The always-invested core (pkg/core): equal weight over the universe,    *)
(* trimmed to the rails each name is checked against, and the drift rule   *)
(* that decides which names trade.  Weights are basis points of equity.    *)
(***************************************************************************)
EXTENDS Broker

NameBand == 1     \* percent of equity
CashBand == 2     \* percent of equity

Bp == 100         \* basis points in a percent

SectorSize(sym) == Cardinality({x \in Names : Sector[x] = Sector[sym]})

\* One name's weight under the name cap and its share of the sector cap.
PerName(corePct, sym) ==
    Lesser(Lesser((Bp * corePct) \div N, Bp * NameCap),
           (Bp * SectorCap) \div SectorSize(sym))

\* The target weight of every name; over the gross cap the mix is scaled.
Targets(corePct) ==
    LET raw   == [x \in Names |-> PerName(corePct, x)]
        total == Total(raw)
    IN  IF corePct <= 0
        THEN [x \in Names |-> 0]
        ELSE IF total > Bp * GrossCap
             THEN [x \in Names |-> (raw[x] * Bp * GrossCap) \div total]
             ELSE raw

\* Rupees held in the core above (+) or below (-) target, name by name.
Drift(targets, held, equity) ==
    [x \in Names |-> held[x] - (equity * targets[x]) \div (100 * Bp)]

Abs(x) == IF x < 0 THEN -x ELSE x

\* Cash is off target by minus the sum of the drifts: the core's own cash is
\* everything that is not core.
CashWide(drift, equity) == 100 * Abs(Total(drift)) > CashBand * equity

\* The band rule: a name trades beyond its band, or beyond a basis point
\* when cash is wide of its own band.
Trades(drift, equity, x) ==
    \/ 100 * Abs(drift[x]) > NameBand * equity
    \/ Abs(drift[x]) > equity \div 10000 /\ CashWide(drift, equity)
=============================================================================
