---------------------------- MODULE MCPaperBook ----------------------------
EXTENDS PaperBook

\* Two names in two sectors.
MCSector == <<1, 2>>

\* Three names, two of them in one sector.
MCSector3 == <<1, 2, 2>>

\* The twelve large caps of pkg/universe in book order (RELIANCE, TCS,
\* HDFCBANK, INFY, ICICIBANK, SBIN, BHARTIARTL, ITC, LT, KOTAKBANK,
\* AXISBANK, HINDUNILVR) by sector.
LargeCaps == <<1, 2, 3, 2, 3, 3, 4, 5, 6, 3, 3, 5>>

\* The shipped statement, one with a satellite, and one whose satellite is
\* smaller than a single name may be.
Core100 == [id |-> "ips-a-core100", core |-> 100, sat |-> 0,  maxdd |-> 15, fold |-> TRUE]
Core80  == [id |-> "ips-b-core80",  core |-> 80,  sat |-> 20, maxdd |-> 5,  fold |-> TRUE]
Core95  == [id |-> "ips-c-core95",  core |-> 95,  sat |-> 5,  maxdd |-> 9,  fold |-> FALSE]

\* All names long, none long, or one of them.
AllLong  == [x \in Names |-> 100]
NoneLong == [x \in Names |-> 0]
OneLong  == [x \in Names |-> IF x = 1 THEN 60 ELSE 0]
LongOrFlat == {AllLong, NoneLong}
AlwaysLong == {AllLong}
SomeLong   == {AllLong, OneLong, NoneLong}
AlwaysFlat == {NoneLong}

OneTicker  == {"loop"}
TwoTickers == {"loop", "rpc"}
Both        == {Core100, Core80}
OnlyCore100 == {Core100}
OnlyCore95  == {Core95}
OnlyCore80  == {Core80}
=============================================================================
