----------------------------- MODULE MCLearning -----------------------------
EXTENDS Learning

\* Two shipped methods; a gate fails the second of them, or none.
MCMethod == [s \in Strategies |-> IF s = "swing_daily" THEN "swing" ELSE "momentum"]
MCRosters == {Shipped, {"momentum_1d"}}
=============================================================================
