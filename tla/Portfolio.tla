------------------------------ MODULE Portfolio ------------------------------
(***************************************************************************)
(* What the paper book promises its client: an account without credit and  *)
(* without short positions.  One name of one sleeve is dealt in at a time, *)
(* at a price the market shows, and the costs are always the account's: no *)
(* deal gives more or takes less than the units are worth at the mark.     *)
(***************************************************************************)
EXTENDS Integers

CONSTANTS
    Names,   \* what can be held
    Start    \* the cash an account begins with

VARIABLES
    cash,    \* rupees
    units,   \* of each name, in each sleeve
    mark     \* what a unit is worth; zero shows no price

vars == <<cash, units, mark>>

Sleeves == {"core", "satellite"}

Empty == [s \in Sleeves |-> [x \in Names |-> 0]]

Init == cash = Start /\ units = Empty /\ mark \in [Names -> Nat]

\* Only this name, and only in this sleeve, changes hands.
Deal(s, x) ==
    /\ mark[x] > 0
    /\ units' = [units EXCEPT ![s][x] = units'[s][x]]
    /\ UNCHANGED mark

Buy(s, x) ==
    /\ units'[s][x] > units[s][x]
    /\ cash' >= 0
    /\ cash - cash' >= (units'[s][x] - units[s][x]) * mark[x]
    /\ Deal(s, x)

Sell(s, x) ==
    /\ 0 <= units'[s][x] /\ units'[s][x] < units[s][x]
    /\ cash' > cash
    /\ cash' - cash <= (units[s][x] - units'[s][x]) * mark[x]
    /\ Deal(s, x)

\* The market moves, or is not looked at.
Reprice == mark' \in [Names -> Nat] /\ UNCHANGED <<cash, units>>

Restart == cash' = Start /\ units' = Empty /\ UNCHANGED mark

Next == (\E s \in Sleeves, x \in Names : Buy(s, x) \/ Sell(s, x)) \/ Reprice \/ Restart

Spec == Init /\ [][Next]_vars

-----------------------------------------------------------------------------
\* Nothing is owed, neither cash nor units (rails.go's cash buffer, and what
\* core.go and engine.go may sell).
NothingOwed == cash >= 0 /\ \A s \in Sleeves, x \in Names : units[s][x] >= 0
=============================================================================
