----------------------------- MODULE MCCampaign -----------------------------
EXTENDS Campaign

\* Weeks from a Monday, months of ten days: the first ends on a Wednesday, the
\* second on a Saturday.
Weekdays == {d \in 0 .. Start + Days : ~Weekend(d)}
Holiday(d) == [s \in {Index} \cup Equity |-> Weekdays \ {d}]
Gap(d)     == [Holiday(d) EXCEPT !["TCS"] = @ \ {d + 1}]

\* A holiday while a month's work is pending, with a name that does not print the
\* day after; a holiday on the last weekday of a month.
MCTapes == {Gap(10), Holiday(18)}
MonthEndTapes == {Holiday(18)}

IPS(id, cycle) == [id |-> id, cycle |-> cycle]
MCSpecs == {[ips |-> None, shock |-> None],
            [ips |-> IPS("core100", "monthly"), shock |-> None],
            [ips |-> IPS("fold", "monthly"), shock |-> None],
            [ips |-> IPS("core100", "quarterly"), shock |-> 8]}

\* The build and every rebalance take two sessions; a shocked book is halted on
\* the last days of a month, once while its build is pending and once on the day
\* it was to rebalance.
MCFinishes(rules, b, marks) == Len(b.work) % 2 = 1
MCHalts(rules, b, marks)    == marks[Index].shocked /\ marks[Index].of % 10 \in {8, 9}

MonthEndSpecs == {[ips |-> IPS("core100", "monthly"), shock |-> None]}
=============================================================================
