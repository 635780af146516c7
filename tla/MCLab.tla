------------------------------- MODULE MCLab -------------------------------
EXTENDS Lab

\* Years of three days.  A tape is a path of levels; 0 is a day without a print.
Level(path) == [k \in DOMAIN path |-> 100 * path[k]]
Halts  == Level(<<10, 11, 10, 12,  0, 14, 16, 15, 17,  0, 20, 22>>)
Listed == Level(<< 0,  0,  0,  0, 16, 15, 14, 13, 12, 11, 10, 10>>)
Plunge == Level(<<20, 19, 18, 17, 16, 12, 11, 10,  7,  5,  3,  2>>)
Shut   == [k \in 1..12 |-> IF k = 6 THEN 0 ELSE 1000]

On(stock, index) == [x \in Names |-> IF x = Index THEN index ELSE stock]
MCTapes == {On(Halts, Shut), On(Listed, Plunge)}
\* Before the close there is no candle yet, or a low one, even for the plunging.
MCMornings == {On(Level([k \in 1..12 |-> p]), Level([k \in 1..12 |-> p])) : p \in {0, 2}}
MCMock  == On(Plunge, Plunge)

P(method, frame, fast, slow, back) ==
    [method |-> method, frame |-> frame, fast |-> fast, slow |-> slow, lookback |-> back]
MCParams == [cross  |-> P("sma_cross", "1d", 1, 2, 0),
             week   |-> P("swing", "1w", 1, 3, 0),
             tilt   |-> P("sentiment_tilt", "1d", 0, 0, 0),
             revert |-> P("mean_reversion", "1d", 0, 2, 0),
             break2 |-> P("breakout", "1d", 0, 0, 2),
             moves  |-> P("momentum", "1d", 0, 0, 2)]
MCHold == [f \in {"1d", "1w"} |-> IF f = "1d" THEN 2 ELSE 3]
=============================================================================
