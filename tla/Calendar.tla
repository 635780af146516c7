------------------------------ MODULE Calendar ------------------------------
(***************************************************************************)
(* The rebalance calendar of internal/policy over the sessions a daily     *)
(* tape shows.  Days are numbered, the first is a Monday; a month has      *)
(* MonthDays days and a quarter QuarterMonths months.                      *)
(***************************************************************************)
EXTENDS Naturals, FiniteSets, FiniteSetsExt

CONSTANTS MonthDays, QuarterMonths, Ahead

\* A quarter has 3 months and the search for the next session ends after 120
\* days in the code.
ASSUME CalendarAssumption ==
    /\ MonthDays \in Nat \ {0} /\ QuarterMonths \in Nat \ {0}
    /\ Ahead \in Nat /\ Ahead > QuarterMonths * MonthDays /\ Ahead >= 3

Cycles == {"monthly", "quarterly"}

Weekend(d) == d % 7 \in {5, 6}
Month(d) == d \div MonthDays
PeriodOf(d, cycle) == IF cycle = "quarterly" THEN Month(d) \div QuarterMonths ELSE Month(d)

NextWeekday(d) == CHOOSE e \in d + 1 .. d + 3 :
                     ~Weekend(e) /\ \A f \in d + 1 .. e - 1 : Weekend(f)

\* A weekday whose next weekday is in a new period.
CivilLast(d, cycle) ==
    ~Weekend(d) /\ PeriodOf(NextWeekday(d), cycle) # PeriodOf(d, cycle)

\* The calendar decides d by itself when it shows a session after it.
Known(cal, d) == \E e \in cal : e > d

IsRebalanceSession(cal, d, cycle) ==
    IF Known(cal, d)
    THEN d \in cal /\ PeriodOf(Min({e \in cal : e > d}), cycle) # PeriodOf(d, cycle)
    ELSE CivilLast(d, cycle)

\* The first of them on or after d: on the calendar, then among the days ahead;
\* d - 1 stands for none.  The mutant starts the day after.
NextRebalanceAfter(cal, d, cycle) ==
    Min({e \in d + 1 .. d + Ahead : IsRebalanceSession(cal, e, cycle)})
NextRebalance(cal, d, cycle) ==
    LET on    == {e \in cal : e >= d /\ IsRebalanceSession(cal, e, cycle)}
        ahead == {e \in d .. d + Ahead - 1 : IsRebalanceSession(cal, e, cycle)}
    IN  IF on # {} THEN Min(on) ELSE IF ahead # {} THEN Min(ahead) ELSE d - 1
=============================================================================
